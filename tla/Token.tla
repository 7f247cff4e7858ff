------------------------------- MODULE Token -------------------------------
(***************************************************************************)
(* examples/V3/token: a token contract on table.hpp, asset.hpp and         *)
(* inline_transaction.hpp (V4/token has the same actions).  Its rows are   *)
(* the currency_stats of a symbol code and the account of an owner and a   *)
(* symbol code.                                                            *)
(*                                                                         *)
(* The host runs a transaction, then the inline transactions sent by it    *)
(* and by the contracts it notified, in any order; when a check of one of  *)
(* them fails, or it runs out of fuel, the host restores the rows as they  *)
(* were at the start.  A transaction that is refused at once leaves no     *)
(* trace and is not a step.  Arguments come from the caller's data, so a   *)
(* quantity is any asset, valid or not.                                    *)
(*                                                                         *)
(* Left out: payers, and memos (one of more than 256 bytes is refused).    *)
(***************************************************************************)
EXTENDS Asset, Table, FiniteSets, Functions

CONSTANTS
    Accounts,       \* regids
    Registered,     \* accounts that exist (is_account)
    Contracts,      \* accounts whose contract may answer a notification
    maintainer,     \* get_maintainer(_self)
    Quantities,     \* assets a caller may pass
    MaxMessages     \* bound: transfers sent within a transaction

ASSUME AccountsAssumption ==
    /\ IsFiniteSet(Accounts)
    /\ Registered \subseteq Accounts /\ Contracts \subseteq Accounts
    /\ maintainer \in Accounts

ASSUME QuantitiesAssumption == Quantities \subseteq Asset

ASSUME MaxMessagesAssumption == MaxMessages \in Nat

currency_stats == [supply : Asset, max_supply : Asset, issuer : Accounts]

account == [owner : Accounts, balance : Asset]

ASSUME NoRowAssumption == NoRow \notin currency_stats /\ NoRow \notin account

VARIABLES
    stats,      \* the rows of table "stat"
    accounts,   \* the rows of table "accounts"
    saved,      \* both tables as of the start of the transaction
    running,    \* a transaction is being executed
    signers,    \* accounts that authorised it or sent a part of it
    notified,   \* accounts it notified
    pending,    \* transfers sent and not executed yet
    sent        \* how many were sent

vars == <<stats, accounts, saved, running, signers, notified, pending, sent>>

(* Objects before they are read: asset() has amount 0 and symbol(). *)
NoAsset == [amount |-> 0, symbol |-> NoSymbol]

Transfer == [id : Nat, from : Accounts, to : Accounts, quantity : Asset]

stats_key(st) == st.supply.symbol.code

account_key(a) == a.balance.symbol.code

Scopes == Codes \union {NoCode}

Init ==
    /\ stats = [k \in Scopes \X Scopes |-> NoRow]
    /\ accounts = [k \in Accounts \X Scopes |-> NoRow]
    /\ saved = [stats |-> stats, accounts |-> accounts]
    /\ running = FALSE
    /\ signers = {} /\ notified = {} /\ pending = {} /\ sent = 0

(* The first part of each action: the host starts it with the authority of   *)
(* the accounts in auth.                                                     *)
Start(auth) ==
    /\ ~running /\ running' = TRUE
    /\ signers' = auth
    /\ UNCHANGED saved

-----------------------------------------------------------------------------
(* Mutant of sub_ok: an account may be overdrawn. *)
sub_overdrawn(rows, owner, value) ==
    /\ has(rows, owner, value.symbol.code)
    /\ minus_ok(rows[<<owner, value.symbol.code>>].balance, value)

(* sub_balance *)
sub_ok(rows, owner, value) ==
    LET code == value.symbol.code IN
    /\ has(rows, owner, code)
    /\ rows[<<owner, code>>].balance.amount >= value.amount
    /\ minus_ok(rows[<<owner, code>>].balance, value)

sub_balance(rows, owner, value) ==
    LET from == [rows[<<owner, value.symbol.code>>] EXCEPT !.balance = minus(@, value)]
    IN modify(rows, owner, from, account_key(from))

add_ok(rows, owner, value) ==
    LET code == value.symbol.code IN
    has(rows, owner, code) => plus_ok(rows[<<owner, code>>].balance, value)

(* Mutant of add_balance: the owner of a new row is not set. *)
add_without_owner(rows, owner, value) ==
    LET new == [owner |-> NoRow, balance |-> value]
        to == [rows[<<owner, value.symbol.code>>] EXCEPT !.balance = plus(@, value)]
    IN IF has(rows, owner, value.symbol.code)
       THEN modify(rows, owner, to, account_key(to))
       ELSE emplace(rows, owner, new, account_key(new))

add_balance(rows, owner, value) ==
    LET new == [owner |-> owner, balance |-> value]
        to == [rows[<<owner, value.symbol.code>>] EXCEPT !.balance = plus(@, value)]
    IN IF has(rows, owner, value.symbol.code)
       THEN modify(rows, owner, to, account_key(to))
       ELSE emplace(rows, owner, new, account_key(new))

-----------------------------------------------------------------------------
create(issuer, maximum_supply, auth) ==
    LET code == maximum_supply.symbol.code
        st == [supply |-> [amount |-> 0, symbol |-> maximum_supply.symbol],
               max_supply |-> maximum_supply, issuer |-> issuer]
    IN
    /\ Start(auth)
    /\ issuer \in auth /\ issuer = maintainer
    /\ is_valid(maximum_supply) /\ maximum_supply.amount > 0
    /\ ~has(stats, code, code)
    /\ stats' = emplace(stats, code, st, stats_key(st))
    /\ UNCHANGED <<accounts, notified, pending, sent>>

(* Mutant of Issuable: what was issued before is forgotten. *)
IssuableAfresh(st, quantity) == quantity.amount <= st.max_supply.amount

(* The amount is checked against what is left of max_supply. *)
Issuable(st, quantity) ==
    quantity.amount <= wrap(st.max_supply.amount - st.supply.amount)

(* What issue and retire check of the quantity *)
SupplyArguments(quantity, auth) ==
    LET code == quantity.symbol.code IN
    /\ has(stats, code, code)
    /\ stats[<<code, code>>].issuer \in auth
    /\ is_valid(quantity) /\ quantity.amount > 0
    /\ quantity.symbol = stats[<<code, code>>].supply.symbol

issue(to, quantity, auth) ==
    LET code == quantity.symbol.code
        st == stats[<<code, code>>]
        new == [st EXCEPT !.supply = plus(@, quantity)]
    IN
    /\ Start(auth)
    /\ SupplyArguments(quantity, auth)
    /\ Issuable(st, quantity)
    /\ plus_ok(st.supply, quantity)
    /\ stats' = modify(stats, code, new, stats_key(new))
    /\ add_ok(accounts, st.issuer, quantity)
    /\ accounts' = add_balance(accounts, st.issuer, quantity)
    /\ IF to # st.issuer
       THEN /\ pending' = {[id |-> 0, from |-> st.issuer, to |-> to, quantity |-> quantity]}
            /\ sent' = 1
       ELSE UNCHANGED <<pending, sent>>
    /\ UNCHANGED notified

retire(quantity, auth) ==
    LET code == quantity.symbol.code
        st == stats[<<code, code>>]
        new == [st EXCEPT !.supply = minus(@, quantity)]
    IN
    /\ Start(auth)
    /\ SupplyArguments(quantity, auth)
    /\ minus_ok(st.supply, quantity)
    /\ stats' = modify(stats, code, new, stats_key(new))
    /\ sub_ok(accounts, st.issuer, quantity)
    /\ accounts' = sub_balance(accounts, st.issuer, quantity)
    /\ UNCHANGED <<notified, pending, sent>>

(* Mutant of TransferArguments: nobody has to authorise it. *)
TransferUnauthorised(from, to, quantity, auth) ==
    LET code == quantity.symbol.code
        st == get(stats, code, code, [supply |-> NoAsset])
    IN /\ from # to /\ to \in Registered
       /\ is_valid(quantity) /\ quantity.amount > 0
       /\ quantity.symbol = st.supply.symbol

(* A code without currency_stats leaves st as it was made. *)
TransferArguments(from, to, quantity, auth) ==
    LET code == quantity.symbol.code
        st == get(stats, code, code, [supply |-> NoAsset])
    IN /\ from # to /\ from \in auth /\ to \in Registered
       /\ is_valid(quantity) /\ quantity.amount > 0
       /\ quantity.symbol = st.supply.symbol

(* Mutant of Moved: the sender keeps what it sent. *)
MovedKept(from, to, quantity) ==
    /\ sub_ok(accounts, from, quantity)
    /\ add_ok(accounts, to, quantity)
    /\ accounts' = add_balance(accounts, to, quantity)

Moved(from, to, quantity) ==
    LET without == sub_balance(accounts, from, quantity) IN
    /\ sub_ok(accounts, from, quantity)
    /\ add_ok(without, to, quantity)
    /\ accounts' = add_balance(without, to, quantity)

(* transfer, as the body of a transaction or sent by one *)
transfer(from, to, quantity, auth) ==
    /\ TransferArguments(from, to, quantity, auth)
    /\ Moved(from, to, quantity)
    /\ notified' = notified \union {from, to}
    /\ UNCHANGED stats

open(owner, symbol, payer, auth) ==
    LET a == [owner |-> owner, balance |-> asset(0, symbol)] IN
    /\ Start(auth)
    /\ payer \in auth
    /\ has(stats, symbol.code, symbol.code)
    /\ stats[<<symbol.code, symbol.code>>].supply.symbol = symbol
    /\ IF has(accounts, owner, symbol.code) THEN UNCHANGED accounts
       ELSE /\ asset_ok(0, symbol)
            /\ accounts' = emplace(accounts, owner, a, account_key(a))
    /\ UNCHANGED <<stats, notified, pending, sent>>

close(owner, symbol, auth) ==
    /\ Start(auth)
    /\ owner \in auth
    /\ has(accounts, owner, symbol.code)
    /\ accounts[<<owner, symbol.code>>].balance.amount = 0
    /\ accounts' = erase(accounts, owner, account_key(accounts[<<owner, symbol.code>>]))
    /\ UNCHANGED <<stats, notified, pending, sent>>

-----------------------------------------------------------------------------
(* The host *)

(* Each action of the contract as the body of a transaction *)
Called(auth) ==
    \/ \E issuer \in Accounts, quantity \in Quantities : create(issuer, quantity, auth)
    \/ \E to \in Accounts, quantity \in Quantities : issue(to, quantity, auth)
    \/ \E quantity \in Quantities : retire(quantity, auth)
    \/ \E from, to \in Accounts, quantity \in Quantities :
          /\ Start(auth)
          /\ transfer(from, to, quantity, auth)
          /\ UNCHANGED <<pending, sent>>
    \/ \E owner, payer \in Accounts, quantity \in Quantities :
          open(owner, quantity.symbol, payer, auth)
    \/ \E owner \in Accounts, quantity \in Quantities : close(owner, quantity.symbol, auth)

(* A transfer that was sent, with the authority of its sender *)
RunInline ==
    /\ running
    /\ \E t \in pending :
          /\ transfer(t.from, t.to, t.quantity, {t.from})
          /\ pending' = pending \ {t}
    /\ UNCHANGED <<saved, running, signers, sent>>

(* The contract of a notified account sends a transfer of its own. *)
Answer ==
    /\ running /\ sent < MaxMessages
    /\ \E c \in notified \intersect Contracts, to \in Accounts, quantity \in Quantities :
          /\ pending' = pending \union
                 {[id |-> sent, from |-> c, to |-> to, quantity |-> quantity]}
          /\ signers' = signers \union {c}
    /\ sent' = sent + 1
    /\ UNCHANGED <<stats, accounts, saved, running, notified>>

Ended ==
    /\ running' = FALSE
    /\ signers' = {} /\ notified' = {} /\ pending' = {} /\ sent' = 0

Commit ==
    /\ running /\ pending = {}
    /\ saved' = [stats |-> stats, accounts |-> accounts]
    /\ Ended
    /\ UNCHANGED <<stats, accounts>>

(* A check of an inline transaction failed, or the fuel ran out. *)
Undo ==
    /\ running
    /\ stats' = saved.stats /\ accounts' = saved.accounts
    /\ Ended
    /\ UNCHANGED saved

Next ==
    \/ \E auth \in SUBSET Accounts : Called(auth)
    \/ RunInline \/ Answer \/ Commit \/ Undo

Spec == Init /\ [][Next]_vars

-----------------------------------------------------------------------------
(* Properties *)

Balance(rows, owner, code) ==
    IF has(rows, owner, code) THEN rows[<<owner, code>>].balance.amount ELSE 0

TypeOK ==
    /\ stats \in [Scopes \X Scopes -> currency_stats \union {NoRow}]
    /\ accounts \in [Accounts \X Scopes -> account \union {NoRow}]
    /\ saved.stats \in [Scopes \X Scopes -> currency_stats \union {NoRow}]
    /\ saved.accounts \in [Accounts \X Scopes -> account \union {NoRow}]
    /\ running \in BOOLEAN
    /\ signers \subseteq Accounts /\ notified \subseteq Accounts
    /\ pending \subseteq Transfer
    /\ sent \in Nat

Supply(sts, code) ==
    IF has(sts, code, code) THEN sts[<<code, code>>].supply.amount ELSE 0

Circulating(rows, code) == SumFunction([owner \in Accounts |-> Balance(rows, owner, code)])

SuppliesHold(sts, rows) == \A code \in Codes : Circulating(rows, code) = Supply(sts, code)

(* No token is lost or made: between any two messages the balances under a   *)
(* code add up to its supply (token.cpp:31-108).                             *)
SupplyIsBalances == SuppliesHold(stats, accounts)

StatsHold(sts) ==
    \A s, code \in Scopes :
        has(sts, s, code) =>
            LET st == sts[<<s, code>>] IN
            /\ s = code /\ st.supply.symbol.code = code
            /\ symbol_is_valid(st.supply.symbol)
            /\ st.max_supply.symbol = st.supply.symbol
            /\ is_amount_within_range(st.supply.amount)
            /\ st.supply.amount <= st.max_supply.amount
            /\ is_amount_within_range(st.max_supply.amount)

(* Every row of stats is under its own code, with a valid symbol and         *)
(* -2^62 < supply <= max_supply < 2^62: no sequence of issue and retire,     *)
(* undone or not, takes a supply past its maximum (token.cpp:44-49, 75-77).  *)
(* That no supply is negative follows from SupplyIsBalances.                 *)
StatsValid == StatsHold(stats)

BalancesHold(sts, rows) ==
    \A owner \in Accounts, code \in Scopes :
        has(rows, owner, code) =>
            LET a == rows[<<owner, code>>] IN
            /\ a.owner = owner
            /\ has(sts, code, code)
            /\ a.balance.symbol = sts[<<code, code>>].supply.symbol
            /\ 0 <= a.balance.amount /\ a.balance.amount <= max_amount

(* Every balance is of a token that exists, in its precision, of the owner   *)
(* it is filed under, and neither negative nor above 2^62-1: no check that   *)
(* follows an addition or subtraction sees a value that has wrapped          *)
(* (asset.hpp:101-122).                                                      *)
BalancesValid == BalancesHold(stats, accounts)

(* A transaction takes tokens only from accounts that authorised it, or      *)
(* whose contract sent a part of it, and changes a supply only with the      *)
(* issuer's authority, whatever inline transactions it leads to.             *)
OnlyAuthorised ==
    running =>
        /\ \A owner \in Accounts, code \in Scopes :
              Balance(accounts, owner, code) < Balance(saved.accounts, owner, code)
                  => owner \in signers
        /\ \A code \in Scopes :
              (/\ has(saved.stats, code, code)
               /\ stats[<<code, code>>] # saved.stats[<<code, code>>])
                  => saved.stats[<<code, code>>].issuer \in signers

(* The text of a balance reads back as the same balance, where there is a    *)
(* decimal point and both parts fit an int (asset.hpp:343-433).              *)
BalancesReadBack ==
    \A owner \in Accounts, code \in Codes :
        LET b == accounts[<<owner, code>>].balance IN
        (/\ has(accounts, owner, code)
         /\ b.symbol.precision > 0 /\ atoi_fits(to_string(b))) =>
            from_string_ok(to_string(b)) /\ from_string(to_string(b)) = b
=============================================================================
