------------------------- MODULE MCDispatchFunction -------------------------
(* Contracts of two object files.  A header both files include makes them    *)
(* declare the same handlers; each file may also declare its own.            *)
EXTENDS DispatchFunction

CONSTANT Pre   \* whether the contracts may define pre_dispatch

bank == [height |-> 1, index |-> 2]
other == [height |-> 3, index |-> 1]

MCCodeOrder == <<bank, other>>

Act(name, func) == [code |-> Star, name |-> name, func |-> func]
On(account, name, func) == [code |-> account, name |-> name, func |-> func]

ActionLists ==
    { <<>>,
      <<Act("transfer", "transfer_a")>>,
      <<Act("issue", "issue_a"), Act("transfer", "transfer_b"),
        Act("transfer", "transfer_a")>> }

NotifyLists ==
    { <<>>,
      <<On(Star, "transfer", "any_transfer"), On(bank, "transfer", "bank_transfer"),
        On(bank, "issue", "bank_issue")>>,
      <<On(Star, "issue", "any_issue"), On(Star, "transfer", "any_transfer")>>,
      <<On(other, "issue", "other_issue"), On(bank, "transfer", "bank_transfer")>> }

MCFiles == [actions : ActionLists, notify : NotifyLists]

MCContracts ==
    [files : {<<f, g>> : f, g \in MCFiles}, pre : Pre, post : BOOLEAN]

(* the contract itself, the two accounts with handlers, and a third *)
MCReceiver == 4
MCCodes == {4, string_to_regid(bank), string_to_regid(other), 7}

(* what the theorems on RightHandler and HooksAround suppose *)
ASSUME ApartAssumption == CodesApart /\ HandlersApart
=============================================================================
