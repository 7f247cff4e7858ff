------------------------------ MODULE MCToken ------------------------------
(* Two symbols of one code, which differ in precision, an invalid symbol,    *)
(* and amounts on both sides of zero, of max_amount and of the largest       *)
(* int64_t.                                                                  *)
EXTENDS Token

CONSTANTS Code

MCCodes == {Code}

Fine == [code |-> Code, precision |-> 2]
Coarse == [code |-> Code, precision |-> 1]

MCQuantities ==
    [amount : {-8, 0, 1, 2, 3, 7}, symbol : {Fine}] \union
    [amount : {1, 2}, symbol : {Coarse}] \union
    [amount : {1}, symbol : {NoSymbol}]
=============================================================================
