---------------------------- MODULE TokenProofs ----------------------------
(***************************************************************************)
(* Proofs about the token contract, for every set of accounts, codes and   *)
(* quantities, every width of int64_t and every number of messages.        *)
(***************************************************************************)
EXTENDS Token, AssetProofs, Induction

StatsRows == [Scopes \X Scopes -> currency_stats \union {NoRow}]

AccountRows == [Accounts \X Scopes -> account \union {NoRow}]

-----------------------------------------------------------------------------
(* a is a valid row for owner and code. *)
Fits(sts, owner, code, a) ==
    /\ a \in account /\ a.owner = owner
    /\ has(sts, code, code)
    /\ a.balance.symbol = sts[<<code, code>>].supply.symbol
    /\ 0 <= a.balance.amount /\ a.balance.amount <= max_amount

(* new is rows with a valid row a under owner and code. *)
Put(sts, rows, owner, code, a, new) ==
    /\ new \in AccountRows
    /\ BalancesHold(sts, new)
    /\ Balance(new, owner, code) = a.balance.amount
    /\ \A o \in Accounts, c \in Scopes :
          <<o, c>> # <<owner, code>> => Balance(new, o, c) = Balance(rows, o, c)

(* new differs from rows by d in the balance of owner under code. *)
Shift(rows, new, owner, code, d) ==
    /\ Balance(new, owner, code) = Balance(rows, owner, code) + d
    /\ \A o \in Accounts, c \in Scopes :
          <<o, c>> # <<owner, code>> => Balance(new, o, c) = Balance(rows, o, c)

LEMMA PutAccount ==
    ASSUME NEW sts, NEW rows \in AccountRows, BalancesHold(sts, rows),
           NEW owner \in Accounts, NEW code \in Scopes,
           NEW a, Fits(sts, owner, code, a),
           NEW new, new = [rows EXCEPT ![<<owner, code>>] = a]
    PROVE  Put(sts, rows, owner, code, a, new)
  <1>1. new \in AccountRows
    BY DEF AccountRows, Fits
  <1>2. a # NoRow
    BY NoRowAssumption DEF Fits
  <1>3. new[<<owner, code>>] = a
    BY DEF AccountRows
  <1>4. \A o \in Accounts, c \in Scopes :
           <<o, c>> # <<owner, code>> => new[<<o, c>>] = rows[<<o, c>>]
    BY DEF AccountRows
  <1>5. BalancesHold(sts, new)
    BY <1>2, <1>3, <1>4 DEF BalancesHold, has, Fits
  <1>6. Balance(new, owner, code) = a.balance.amount
    BY <1>2, <1>3 DEF Balance, has
  <1>7. \A o \in Accounts, c \in Scopes :
           <<o, c>> # <<owner, code>> => Balance(new, o, c) = Balance(rows, o, c)
    BY <1>4 DEF Balance, has
  <1> QED
    BY <1>1, <1>5, <1>6, <1>7 DEF Put

LEMMA RowTypes ==
    ASSUME NEW sts \in StatsRows, NEW rows \in AccountRows,
           NEW owner \in Accounts, NEW s \in Scopes, NEW code \in Scopes
    PROVE  /\ has(sts, s, code) => sts[<<s, code>>] \in currency_stats
           /\ has(rows, owner, code) => rows[<<owner, code>>] \in account
  BY DEF StatsRows, AccountRows, has

LEMMA CodeType ==
    ASSUME NEW value \in Asset
    PROVE  value.symbol.code \in Scopes
  BY DEF Asset, Symbol, Scopes

(* sub_balance leaves valid rows, and other owners' rows alone. *)
LEMMA SubBalance ==
    ASSUME NEW sts \in StatsRows, NEW rows \in AccountRows,
           BalancesHold(sts, rows),
           NEW owner \in Accounts, NEW value \in Asset,
           is_valid(value), value.amount > 0,
           sub_ok(rows, owner, value)
    PROVE  /\ sub_balance(rows, owner, value) \in AccountRows
           /\ BalancesHold(sts, sub_balance(rows, owner, value))
           /\ \A o \in Accounts, c \in Scopes :
                 o # owner =>
                    Balance(sub_balance(rows, owner, value), o, c) = Balance(rows, o, c)
           /\ Shift(rows, sub_balance(rows, owner, value), owner,
                    value.symbol.code, -value.amount)
  <1> DEFINE code == value.symbol.code
             old == rows[<<owner, code>>]
             a == [old EXCEPT !.balance = minus(old.balance, value)]
  <1>1. code \in Scopes
    BY CodeType
  <1>2. has(rows, owner, code) /\ old \in account
    BY <1>1, RowTypes DEF sub_ok
  <1>3. /\ old.owner = owner /\ has(sts, code, code)
        /\ old.balance.symbol = sts[<<code, code>>].supply.symbol
        /\ 0 <= old.balance.amount /\ old.balance.amount <= max_amount
    BY <1>1, <1>2 DEF BalancesHold
  <1>4. old.balance \in Asset
    BY <1>2 DEF account
  <1>5. /\ old.balance.amount \in Int /\ value.amount \in Int
        /\ old.balance.amount >= value.amount
    BY <1>4, AmountTypes DEF sub_ok
  <1>6. /\ is_amount_within_range(old.balance.amount)
        /\ is_amount_within_range(value.amount)
    BY <1>3, <1>5, QuarterAssumption DEF is_amount_within_range, max_amount, is_valid
  <1>7. minus(old.balance, value).amount = old.balance.amount - value.amount
    BY <1>4, <1>5, <1>6, SumFits DEF minus, Asset
  <1>8. minus(old.balance, value).symbol = old.balance.symbol
    BY <1>4 DEF minus, Asset
  <1>9. minus(old.balance, value) \in Asset
    <2>1. old.balance.amount - value.amount \in int64
      BY <1>5, <1>6, SumFits
    <2> QED
      BY <1>4, <1>7, <2>1 DEF minus, Asset
  <1>10. /\ a \in account /\ a.owner = old.owner
         /\ a.balance = minus(old.balance, value)
    BY <1>2, <1>9 DEF account
  <1>11. sub_balance(rows, owner, value) = [rows EXCEPT ![<<owner, code>>] = a]
    <2>1. value.symbol = old.balance.symbol
      BY DEF sub_ok, minus_ok
    <2>2. account_key(a) = code
      BY <1>8, <1>10, <2>1 DEF account_key
    <2> QED
      BY <2>2 DEF sub_balance, modify
  <1>12. Fits(sts, owner, code, a)
    BY <1>3, <1>5, <1>7, <1>8, <1>10, QuarterAssumption DEF max_amount, Fits
  <1>13. /\ Balance(rows, owner, code) = old.balance.amount
         /\ a.balance.amount = old.balance.amount + (-value.amount)
    BY <1>2, <1>5, <1>7, <1>10 DEF Balance
  <1> HIDE DEF a, code
  <1>14. Put(sts, rows, owner, code, a, sub_balance(rows, owner, value))
    BY <1>1, <1>11, <1>12, PutAccount
  <1>15. Shift(rows, sub_balance(rows, owner, value), owner, code, -value.amount)
    BY <1>13, <1>14 DEF Put, Shift
  <1> QED
    BY <1>14, <1>15 DEF Put, code

(* add_balance leaves valid rows, and no balance falls. *)
LEMMA AddBalance ==
    ASSUME NEW sts \in StatsRows, NEW rows \in AccountRows,
           BalancesHold(sts, rows),
           NEW owner \in Accounts, NEW value \in Asset,
           is_valid(value), value.amount > 0,
           has(sts, value.symbol.code, value.symbol.code),
           value.symbol = sts[<<value.symbol.code, value.symbol.code>>].supply.symbol,
           add_ok(rows, owner, value)
    PROVE  /\ add_balance(rows, owner, value) \in AccountRows
           /\ BalancesHold(sts, add_balance(rows, owner, value))
           /\ \A o \in Accounts, c \in Scopes :
                 /\ Balance(rows, o, c) \in Int
                 /\ Balance(add_balance(rows, owner, value), o, c) \in Int
                 /\ Balance(add_balance(rows, owner, value), o, c) >= Balance(rows, o, c)
           /\ Shift(rows, add_balance(rows, owner, value), owner,
                    value.symbol.code, value.amount)
  <1> DEFINE code == value.symbol.code
             old == rows[<<owner, code>>]
  <1>1. code \in Scopes
    BY CodeType
  <1>2. value.amount \in Int /\ is_amount_within_range(value.amount)
    BY AmountTypes DEF is_valid
  <1>3. \A o \in Accounts, c \in Scopes : Balance(rows, o, c) \in Int
    <2> SUFFICES ASSUME NEW o \in Accounts, NEW c \in Scopes
                 PROVE  Balance(rows, o, c) \in Int
      OBVIOUS
    <2>1. has(rows, o, c) => rows[<<o, c>>].balance \in Asset
      BY RowTypes DEF account
    <2>2. has(rows, o, c) => rows[<<o, c>>].balance.amount \in Int
      BY <2>1, AmountTypes
    <2> QED
      BY <2>2 DEF Balance
  <1>4. ASSUME NEW a \in account, a.owner = owner, a.balance.symbol = value.symbol,
               0 <= a.balance.amount, a.balance.amount <= max_amount,
               a.balance.amount = Balance(rows, owner, code) + value.amount,
               add_balance(rows, owner, value) = [rows EXCEPT ![<<owner, code>>] = a]
        PROVE  /\ add_balance(rows, owner, value) \in AccountRows
               /\ BalancesHold(sts, add_balance(rows, owner, value))
               /\ \A o \in Accounts, c \in Scopes :
                     /\ Balance(add_balance(rows, owner, value), o, c) \in Int
                     /\ Balance(add_balance(rows, owner, value), o, c) >= Balance(rows, o, c)
               /\ Shift(rows, add_balance(rows, owner, value), owner, code, value.amount)
    <2>1. a.balance.amount \in Int
      <3>1. a.balance \in Asset
        BY <1>4 DEF account
      <3> QED
        BY <3>1, AmountTypes
    <2>2. Fits(sts, owner, code, a)
      BY <1>4 DEF Fits
    <2> DEFINE new == add_balance(rows, owner, value)
    <2> HIDE DEF code, new
    <2>3. Put(sts, rows, owner, code, a, new)
      BY <1>1, <1>4, <2>2, PutAccount DEF new
    <2>5. \A o \in Accounts, c \in Scopes :
             /\ Balance(new, o, c) \in Int
             /\ Balance(new, o, c) >= Balance(rows, o, c)
      <3> SUFFICES ASSUME NEW o \in Accounts, NEW c \in Scopes
                   PROVE  Balance(new, o, c) \in Int /\ Balance(new, o, c) >= Balance(rows, o, c)
        OBVIOUS
      <3>1. CASE <<o, c>> = <<owner, code>>
        BY <1>1, <1>2, <1>3, <1>4, <2>1, <2>3, <3>1 DEF Put
      <3>2. CASE <<o, c>> # <<owner, code>>
        <4>1. Balance(new, o, c) = Balance(rows, o, c) /\ Balance(rows, o, c) \in Int
          BY <1>3, <2>3, <3>2 DEF Put
        <4> QED
          BY <4>1
      <3> QED
        BY <3>1, <3>2
    <2>6. Shift(rows, new, owner, code, value.amount)
      BY <1>4, <2>3 DEF Put, Shift
    <2> QED
      BY <2>3, <2>5, <2>6 DEF Put, new
  <1>5. CASE ~has(rows, owner, code)
    <2> DEFINE a == [owner |-> owner, balance |-> value]
    <2>1. a \in account /\ a.owner = owner /\ a.balance = value
      BY DEF account
    <2>2. account_key(a) = code
      BY <2>1 DEF account_key
    <2>3. add_balance(rows, owner, value) = [rows EXCEPT ![<<owner, code>>] = a]
      BY <1>5, <2>2 DEF add_balance, emplace
    <2>4. Balance(rows, owner, code) = 0
      BY <1>5 DEF Balance
    <2>5. /\ 0 <= a.balance.amount /\ a.balance.amount <= max_amount
          /\ a.balance.amount = Balance(rows, owner, code) + value.amount
      BY <1>2, <2>1, <2>4 DEF is_amount_within_range
    <2> HIDE DEF a
    <2> QED
      BY <1>3, <1>4, <2>1, <2>3, <2>5
  <1>6. CASE has(rows, owner, code)
    <2> DEFINE a == [old EXCEPT !.balance = plus(old.balance, value)]
    <2>1. old \in account /\ old.balance \in Asset
      BY <1>1, <1>6, RowTypes DEF account
    <2>2. /\ old.owner = owner
          /\ old.balance.symbol = value.symbol
          /\ 0 <= old.balance.amount /\ old.balance.amount <= max_amount
          /\ old.balance.amount \in Int
      BY <1>1, <1>6, <2>1, AmountTypes DEF BalancesHold
    <2>3. is_amount_within_range(old.balance.amount)
      BY <2>2, QuarterAssumption DEF is_amount_within_range, max_amount
    <2>4. /\ plus(old.balance, value).amount = old.balance.amount + value.amount
          /\ old.balance.amount + value.amount \in int64
      BY <1>2, <2>1, <2>2, <2>3, SumFits DEF plus, Asset
    <2>5. plus(old.balance, value) \in Asset /\ plus(old.balance, value).symbol = value.symbol
      BY <2>1, <2>2, <2>4 DEF plus, Asset
    <2>6. plus(old.balance, value).amount <= max_amount
      BY <1>6 DEF add_ok, plus_ok, is_amount_within_range
    <2>7. a \in account /\ a.owner = owner /\ a.balance = plus(old.balance, value)
      BY <2>1, <2>2, <2>5 DEF account
    <2>8. account_key(a) = code
      BY <2>5, <2>7 DEF account_key
    <2>9. add_balance(rows, owner, value) = [rows EXCEPT ![<<owner, code>>] = a]
      BY <1>6, <2>8 DEF add_balance, modify
    <2>10. Balance(rows, owner, code) = old.balance.amount
      BY <1>6 DEF Balance
    <2>11. /\ 0 <= a.balance.amount /\ a.balance.amount <= max_amount
           /\ a.balance.amount = Balance(rows, owner, code) + value.amount
      BY <1>2, <2>2, <2>4, <2>6, <2>7, <2>10
    <2>12. a.balance.symbol = value.symbol
      BY <2>5, <2>7
    <2> HIDE DEF a, old
    <2> QED
      BY <1>3, <1>4, <2>7, <2>9, <2>11, <2>12
  <1> QED
    BY <1>5, <1>6
LEMMA BalanceType ==
    ASSUME NEW rows \in AccountRows, NEW o \in Accounts, NEW c \in Scopes
    PROVE  Balance(rows, o, c) \in Int
  <1>1. has(rows, o, c) => rows[<<o, c>>].balance \in Asset
    BY DEF AccountRows, has, account
  <1>2. has(rows, o, c) => rows[<<o, c>>].balance.amount \in Int
    BY <1>1, AmountTypes
  <1> QED
    BY <1>2 DEF Balance

-----------------------------------------------------------------------------
(* st is a valid row for code, in the symbol it has already. *)
StatsFit(sts, code, st) ==
    /\ st \in currency_stats
    /\ st.supply.symbol.code = code
    /\ symbol_is_valid(st.supply.symbol)
    /\ st.max_supply.symbol = st.supply.symbol
    /\ is_amount_within_range(st.supply.amount)
    /\ st.supply.amount <= st.max_supply.amount
    /\ is_amount_within_range(st.max_supply.amount)
    /\ has(sts, code, code) => st.supply.symbol = sts[<<code, code>>].supply.symbol

(* new is sts with a valid row st under code; balances stay valid. *)
StatsPut(sts, code, st, new) ==
    /\ new \in StatsRows
    /\ StatsHold(new)
    /\ \A rows \in AccountRows : BalancesHold(sts, rows) => BalancesHold(new, rows)
    /\ new[<<code, code>>] = st /\ has(new, code, code)
    /\ \A c \in Scopes : c # code => new[<<c, c>>] = sts[<<c, c>>]

LEMMA PutStats ==
    ASSUME NEW sts \in StatsRows, StatsHold(sts), NEW code \in Scopes,
           NEW st, StatsFit(sts, code, st),
           NEW new, new = [sts EXCEPT ![<<code, code>>] = st]
    PROVE  StatsPut(sts, code, st, new)
  <1>1. new \in StatsRows
    BY DEF StatsRows, StatsFit
  <1>2. st # NoRow
    BY NoRowAssumption DEF StatsFit
  <1>3. new[<<code, code>>] = st
    BY DEF StatsRows
  <1>4. \A s, c \in Scopes : <<s, c>> # <<code, code>> => new[<<s, c>>] = sts[<<s, c>>]
    BY DEF StatsRows
  <1>5. StatsHold(new)
    BY <1>2, <1>3, <1>4 DEF StatsHold, has, StatsFit
  <1>6. \A c \in Scopes : c # code => new[<<c, c>>] = sts[<<c, c>>]
    BY <1>4
  <1>7. ASSUME NEW rows \in AccountRows, BalancesHold(sts, rows)
        PROVE  BalancesHold(new, rows)
    <2> SUFFICES ASSUME NEW o \in Accounts, NEW c \in Scopes, has(rows, o, c)
                 PROVE  /\ rows[<<o, c>>].owner = o
                        /\ has(new, c, c)
                        /\ rows[<<o, c>>].balance.symbol = new[<<c, c>>].supply.symbol
                        /\ 0 <= rows[<<o, c>>].balance.amount
                        /\ rows[<<o, c>>].balance.amount <= max_amount
      BY DEF BalancesHold
    <2>1. /\ rows[<<o, c>>].owner = o
          /\ has(sts, c, c)
          /\ rows[<<o, c>>].balance.symbol = sts[<<c, c>>].supply.symbol
          /\ 0 <= rows[<<o, c>>].balance.amount
          /\ rows[<<o, c>>].balance.amount <= max_amount
      BY <1>7 DEF BalancesHold
    <2>2. has(new, c, c) /\ new[<<c, c>>].supply.symbol = sts[<<c, c>>].supply.symbol
      BY <1>2, <1>3, <1>6, <2>1 DEF has, StatsFit
    <2> QED
      BY <2>1, <2>2
  <1> QED
    BY <1>1, <1>2, <1>3, <1>5, <1>6, <1>7 DEF StatsPut, has

(* What a transfer does to the rows *)
LEMMA TransferRows ==
    ASSUME stats \in StatsRows, accounts \in AccountRows,
           BalancesHold(stats, accounts),
           NEW from \in Accounts, NEW to \in Accounts, NEW quantity \in Asset,
           NEW auth, TransferArguments(from, to, quantity, auth),
           Moved(from, to, quantity)
    PROVE  /\ accounts' \in AccountRows
           /\ BalancesHold(stats, accounts')
           /\ from \in auth
           /\ \A o \in Accounts, c \in Scopes :
                 o # from => Balance(accounts', o, c) >= Balance(accounts, o, c)
  <1> DEFINE code == quantity.symbol.code
             without == sub_balance(accounts, from, quantity)
  <1>1. is_valid(quantity) /\ quantity.amount > 0 /\ from \in auth
    BY DEF TransferArguments
  <1>2. code \in Scopes /\ code # NoCode
    BY <1>1, CodeType, CodesAssumption DEF is_valid, symbol_is_valid
  <1>3. has(stats, code, code) /\ quantity.symbol = stats[<<code, code>>].supply.symbol
    <2>1. CASE has(stats, code, code)
      BY <2>1 DEF TransferArguments, get
    <2>2. CASE ~has(stats, code, code)
      <3>1. quantity.symbol = NoSymbol
        BY <2>2 DEF TransferArguments, get, NoAsset
      <3> QED
        BY <1>2, <3>1 DEF NoSymbol
    <2> QED
      BY <2>1, <2>2
  <1>4. sub_ok(accounts, from, quantity)
    BY DEF Moved
  <1>5. /\ without \in AccountRows
        /\ BalancesHold(stats, without)
        /\ \A o \in Accounts, c \in Scopes :
              o # from => Balance(without, o, c) = Balance(accounts, o, c)
    BY <1>1, <1>4, SubBalance
  <1>6. add_ok(without, to, quantity) /\ accounts' = add_balance(without, to, quantity)
    BY DEF Moved
  <1> HIDE DEF without
  <1>7. /\ accounts' \in AccountRows
        /\ BalancesHold(stats, accounts')
        /\ \A o \in Accounts, c \in Scopes :
              Balance(accounts', o, c) >= Balance(without, o, c)
    BY <1>1, <1>3, <1>5, <1>6, AddBalance
  <1> QED
    BY <1>1, <1>5, <1>7
-----------------------------------------------------------------------------
(* Between transactions the saved rows are the current ones. *)
AtRest ==
    ~running => stats = saved.stats /\ accounts = saved.accounts /\ pending = {}

SentBySigners == \A t \in pending : t.from \in signers

(* The inductive invariant: the rows are valid, the saved ones too, and what  *)
(* a transaction has sent it may send.                                        *)
IInv ==
    /\ TypeOK
    /\ StatsHold(stats) /\ StatsHold(saved.stats)
    /\ BalancesHold(stats, accounts) /\ BalancesHold(saved.stats, saved.accounts)
    /\ AtRest
    /\ SentBySigners
    /\ OnlyAuthorised

LEMMA InitIInv == Init => IInv
  <1> SUFFICES ASSUME Init PROVE IInv
    OBVIOUS
  <1>1. saved.stats = stats /\ saved.accounts = accounts
    BY DEF Init
  <1>2. /\ stats \in StatsRows /\ accounts \in AccountRows
        /\ \A s, c \in Scopes : ~has(stats, s, c)
        /\ \A o \in Accounts, c \in Scopes : ~has(accounts, o, c)
    BY DEF Init, StatsRows, AccountRows, has
  <1>3. TypeOK
    BY <1>1, <1>2 DEF Init, TypeOK, StatsRows, AccountRows
  <1>4. StatsHold(stats) /\ BalancesHold(stats, accounts)
    BY <1>2 DEF StatsHold, BalancesHold
  <1>5. AtRest /\ SentBySigners /\ OnlyAuthorised
    BY <1>1 DEF Init, AtRest, SentBySigners, OnlyAuthorised
  <1> QED
    BY <1>1, <1>3, <1>4, <1>5 DEF IInv

LEMMA TypeFacts ==
    ASSUME IInv
    PROVE  /\ stats \in StatsRows /\ accounts \in AccountRows
           /\ saved.stats \in StatsRows /\ saved.accounts \in AccountRows
           /\ running \in BOOLEAN
           /\ signers \subseteq Accounts /\ notified \subseteq Accounts
           /\ pending \subseteq Transfer /\ sent \in Nat
  BY DEF IInv, TypeOK, StatsRows, AccountRows

(* What the body of a transaction has to keep *)
LEMMA StartStep ==
    ASSUME IInv, NEW auth \in SUBSET Accounts, Start(auth),
           stats' \in StatsRows, accounts' \in AccountRows,
           StatsHold(stats'), BalancesHold(stats', accounts'),
           notified' \subseteq Accounts, pending' \subseteq Transfer, sent' \in Nat,
           \A t \in pending' : t.from \in auth,
           \A o \in Accounts, c \in Scopes :
              o \notin auth => Balance(accounts', o, c) >= Balance(accounts, o, c),
           \A c \in Scopes :
              has(stats, c, c) /\ stats'[<<c, c>>] # stats[<<c, c>>]
                  => stats[<<c, c>>].issuer \in auth
    PROVE  IInv'
  <1>1. /\ ~running /\ running' = TRUE /\ signers' = auth /\ saved' = saved
        /\ saved.stats = stats /\ saved.accounts = accounts
    BY DEF IInv, AtRest, Start
  <1>2. TypeOK'
    BY <1>1, TypeFacts DEF TypeOK, StatsRows, AccountRows
  <1>3. /\ StatsHold(stats)' /\ StatsHold(saved.stats)'
        /\ BalancesHold(stats, accounts)' /\ BalancesHold(saved.stats, saved.accounts)'
    BY <1>1 DEF IInv, StatsHold, BalancesHold, has
  <1>4. AtRest' /\ SentBySigners'
    BY <1>1 DEF AtRest, SentBySigners
  <1>5. OnlyAuthorised'
    <2>1. ASSUME NEW o \in Accounts, NEW c \in Scopes,
                 Balance(accounts', o, c) < Balance(accounts, o, c)
          PROVE  o \in auth
      <3>1. Balance(accounts', o, c) \in Int /\ Balance(accounts, o, c) \in Int
        BY TypeFacts, BalanceType
      <3> QED
        BY <2>1, <3>1
    <2>2. \A o \in Accounts, c \in Scopes :
             /\ Balance(accounts, o, c)' = Balance(accounts', o, c)
             /\ Balance(saved.accounts, o, c)' = Balance(accounts, o, c)
      BY <1>1 DEF Balance, has
    <2>3. \A c \in Scopes :
             has(saved.stats, c, c)' = has(stats, c, c)
      BY <1>1 DEF has
    <2> QED
      BY <1>1, <2>1, <2>2, <2>3 DEF OnlyAuthorised
  <1> QED
    BY <1>2, <1>3, <1>4, <1>5 DEF IInv

LEMMA RestFacts ==
    ASSUME IInv, NEW auth, Start(auth)
    PROVE  ~running /\ pending = {}
  BY DEF IInv, AtRest, Start

(* One lemma for each action of the contract                                *)
LEMMA CreateStep ==
    ASSUME IInv, NEW issuer \in Accounts, NEW quantity \in Asset,
           NEW auth \in SUBSET Accounts, create(issuer, quantity, auth)
    PROVE  IInv'
  <1> DEFINE code == quantity.symbol.code
             st == [supply |-> [amount |-> 0, symbol |-> quantity.symbol],
                    max_supply |-> quantity, issuer |-> issuer]
  <1>1. /\ Start(auth) /\ is_valid(quantity) /\ quantity.amount > 0
        /\ ~has(stats, code, code)
        /\ stats' = emplace(stats, code, st, stats_key(st))
        /\ accounts' = accounts /\ notified' = notified
        /\ pending' = pending /\ sent' = sent
    BY DEF create
  <1>2. code \in Scopes /\ quantity.amount \in Int /\ quantity.symbol \in Symbol
    BY CodeType, AmountTypes
  <1>3. [amount |-> 0, symbol |-> quantity.symbol] \in Asset
    BY <1>2, QuarterAssumption DEF Asset, int64
  <1>4. StatsFit(stats, code, st)
    BY <1>1, <1>2, <1>3, QuarterAssumption
       DEF StatsFit, currency_stats, is_valid, is_amount_within_range, max_amount
  <1>5. stats' = [stats EXCEPT ![<<code, code>>] = st]
    BY <1>1 DEF emplace, stats_key
  <1> HIDE DEF code, st
  <1>6. StatsPut(stats, code, st, stats')
    BY <1>2, <1>4, <1>5, TypeFacts, PutStats DEF IInv
  <1>7. /\ stats' \in StatsRows /\ StatsHold(stats') /\ BalancesHold(stats', accounts')
        /\ \A c \in Scopes :
              has(stats, c, c) /\ stats'[<<c, c>>] # stats[<<c, c>>]
                  => stats[<<c, c>>].issuer \in auth
    BY <1>1, <1>6, TypeFacts DEF IInv, StatsPut
  <1>8. \A o \in Accounts, c \in Scopes : Balance(accounts', o, c) >= Balance(accounts, o, c)
    BY <1>1, TypeFacts, BalanceType
  <1>9. \A t \in pending' : t.from \in auth
    BY <1>1, RestFacts
  <1> QED
    BY <1>1, <1>7, <1>8, <1>9, TypeFacts, StartStep

(* The row of currency_stats that issue and retire work on *)
LEMMA SupplyRow ==
    ASSUME IInv, NEW quantity \in Asset, NEW auth, SupplyArguments(quantity, auth)
    PROVE  LET code == quantity.symbol.code
               st == stats[<<code, code>>]
           IN  /\ code \in Scopes /\ has(stats, code, code)
               /\ st \in currency_stats /\ st.supply \in Asset
               /\ st.max_supply \in Asset /\ st.issuer \in Accounts
               /\ st.issuer \in auth
               /\ st.supply.symbol = quantity.symbol
               /\ st.max_supply.symbol = st.supply.symbol
               /\ symbol_is_valid(st.supply.symbol)
               /\ st.supply.amount <= st.max_supply.amount
               /\ st.supply.amount \in Int /\ st.max_supply.amount \in Int
               /\ quantity.amount \in Int /\ quantity.amount > 0
               /\ is_amount_within_range(st.supply.amount)
               /\ is_amount_within_range(st.max_supply.amount)
               /\ is_amount_within_range(quantity.amount)
  <1> DEFINE code == quantity.symbol.code
             st == stats[<<code, code>>]
  <1>1. code \in Scopes /\ has(stats, code, code)
    BY CodeType DEF SupplyArguments
  <1>2. st \in currency_stats
    BY <1>1, TypeFacts, RowTypes DEF StatsRows, has
  <1>3. st.supply \in Asset /\ st.max_supply \in Asset /\ st.issuer \in Accounts
    BY <1>2 DEF currency_stats
  <1>4. /\ st.issuer \in auth /\ st.supply.symbol = quantity.symbol
        /\ is_valid(quantity) /\ quantity.amount > 0
    BY DEF SupplyArguments
  <1>5. /\ st.max_supply.symbol = st.supply.symbol
        /\ symbol_is_valid(st.supply.symbol)
        /\ st.supply.amount <= st.max_supply.amount
    BY <1>1 DEF IInv, StatsHold
  <1>6. /\ st.supply.amount \in Int /\ st.max_supply.amount \in Int
        /\ quantity.amount \in Int
    BY <1>3, AmountTypes
  <1>7. /\ is_amount_within_range(st.supply.amount)
        /\ is_amount_within_range(st.max_supply.amount)
        /\ is_amount_within_range(quantity.amount)
    BY <1>1, <1>4 DEF IInv, StatsHold, is_valid
  <1> QED
    BY <1>1, <1>2, <1>3, <1>4, <1>5, <1>6, <1>7
LEMMA IssueStep ==
    ASSUME IInv, NEW to \in Accounts, NEW quantity \in Asset,
           NEW auth \in SUBSET Accounts, issue(to, quantity, auth)
    PROVE  IInv'
  <1> DEFINE code == quantity.symbol.code
             st == stats[<<code, code>>]
             new == [st EXCEPT !.supply = plus(st.supply, quantity)]
  <1>1. /\ Start(auth) /\ SupplyArguments(quantity, auth) /\ Issuable(st, quantity)
        /\ stats' = modify(stats, code, new, stats_key(new))
        /\ add_ok(accounts, st.issuer, quantity)
        /\ accounts' = add_balance(accounts, st.issuer, quantity)
        /\ notified' = notified
        /\ \/ /\ pending' = {[id |-> 0, from |-> st.issuer, to |-> to, quantity |-> quantity]}
              /\ sent' = 1
           \/ pending' = pending /\ sent' = sent
    BY DEF issue
  <1>2. /\ code \in Scopes /\ has(stats, code, code)
        /\ st \in currency_stats /\ st.supply \in Asset
        /\ st.max_supply \in Asset /\ st.issuer \in Accounts
        /\ st.issuer \in auth
        /\ st.supply.symbol = quantity.symbol
        /\ st.max_supply.symbol = st.supply.symbol
        /\ symbol_is_valid(st.supply.symbol)
        /\ st.supply.amount <= st.max_supply.amount
        /\ st.supply.amount \in Int /\ st.max_supply.amount \in Int
        /\ quantity.amount \in Int /\ quantity.amount > 0
        /\ is_amount_within_range(st.supply.amount)
        /\ is_amount_within_range(st.max_supply.amount)
        /\ is_amount_within_range(quantity.amount)
    BY <1>1, SupplyRow
  <1>3. quantity.amount <= st.max_supply.amount - st.supply.amount
    BY <1>1, <1>2, SumFits DEF Issuable
  <1>4. /\ plus(st.supply, quantity).amount = st.supply.amount + quantity.amount
        /\ st.supply.amount + quantity.amount \in int64
    BY <1>2, SumFits DEF plus, Asset
  <1>5. /\ plus(st.supply, quantity) \in Asset
        /\ plus(st.supply, quantity).symbol = st.supply.symbol
    BY <1>2, <1>4 DEF plus, Asset
  <1>6. /\ new \in currency_stats /\ new.supply = plus(st.supply, quantity)
        /\ new.max_supply = st.max_supply
    BY <1>2, <1>5 DEF currency_stats
  <1>7. StatsFit(stats, code, new)
    <2>1. is_amount_within_range(plus(st.supply, quantity).amount)
      BY DEF issue, plus_ok
    <2>2. new.supply.amount <= new.max_supply.amount
      <3>1. new.supply.amount = st.supply.amount + quantity.amount
        BY <1>4, <1>6
      <3>2. new.max_supply.amount = st.max_supply.amount
        BY <1>6
      <3> HIDE DEF new, st
      <3> QED
        BY <1>2, <1>3, <3>1, <3>2
    <2> HIDE DEF new
    <2> QED
      BY <1>2, <1>5, <1>6, <2>1, <2>2 DEF StatsFit
  <1>8. stats' = [stats EXCEPT ![<<code, code>>] = new]
    <2>1. stats_key(new) = code
      BY <1>2, <1>5, <1>6 DEF stats_key
    <2> QED
      BY <1>1, <2>1 DEF modify
  <1>9. StatsPut(stats, code, new, stats')
    <2> HIDE DEF code, new
    <2> QED
      BY <1>2, <1>7, <1>8, TypeFacts, PutStats DEF IInv
  <1>10. /\ stats' \in StatsRows /\ StatsHold(stats')
         /\ BalancesHold(stats', accounts)
         /\ \A c \in Scopes :
               has(stats, c, c) /\ stats'[<<c, c>>] # stats[<<c, c>>]
                   => stats[<<c, c>>].issuer \in auth
    BY <1>2, <1>9, TypeFacts DEF IInv, StatsPut
  <1>11. /\ has(stats', code, code)
         /\ quantity.symbol = stats'[<<code, code>>].supply.symbol
    BY <1>2, <1>5, <1>6, <1>9 DEF StatsPut
  <1>12. is_valid(quantity)
    BY <1>1 DEF SupplyArguments
  <1>13. /\ accounts' \in AccountRows /\ BalancesHold(stats', accounts')
         /\ \A o \in Accounts, c \in Scopes :
               Balance(accounts', o, c) >= Balance(accounts, o, c)
    BY <1>1, <1>2, <1>10, <1>11, <1>12, TypeFacts, AddBalance
  <1>14. /\ pending' \subseteq Transfer /\ sent' \in Nat
         /\ \A t \in pending' : t.from \in auth
    <2>1. CASE pending' = pending /\ sent' = sent
      BY <1>1, <2>1, TypeFacts, RestFacts
    <2>2. CASE /\ pending' = {[id |-> 0, from |-> st.issuer, to |-> to, quantity |-> quantity]}
               /\ sent' = 1
      <3>1. PICK i \in Accounts : i = st.issuer /\ i \in auth
        BY <1>2
      <3>2. [id |-> 0, from |-> i, to |-> to, quantity |-> quantity] \in Transfer
        BY DEF Transfer
      <3> QED
        BY <2>2, <3>1, <3>2
    <2> QED
      BY <1>1, <2>1, <2>2
  <1> QED
    BY <1>1, <1>10, <1>13, <1>14, TypeFacts, StartStep
LEMMA RetireStep ==
    ASSUME IInv, NEW quantity \in Asset,
           NEW auth \in SUBSET Accounts, retire(quantity, auth)
    PROVE  IInv'
  <1> DEFINE code == quantity.symbol.code
             st == stats[<<code, code>>]
             new == [st EXCEPT !.supply = minus(st.supply, quantity)]
  <1>1. /\ Start(auth) /\ SupplyArguments(quantity, auth)
        /\ stats' = modify(stats, code, new, stats_key(new))
        /\ sub_ok(accounts, st.issuer, quantity)
        /\ accounts' = sub_balance(accounts, st.issuer, quantity)
        /\ notified' = notified /\ pending' = pending /\ sent' = sent
    BY DEF retire
  <1>2. /\ code \in Scopes /\ has(stats, code, code)
        /\ st \in currency_stats /\ st.supply \in Asset
        /\ st.max_supply \in Asset /\ st.issuer \in Accounts
        /\ st.issuer \in auth
        /\ st.supply.symbol = quantity.symbol
        /\ st.max_supply.symbol = st.supply.symbol
        /\ symbol_is_valid(st.supply.symbol)
        /\ st.supply.amount <= st.max_supply.amount
        /\ st.supply.amount \in Int /\ st.max_supply.amount \in Int
        /\ quantity.amount \in Int /\ quantity.amount > 0
        /\ is_amount_within_range(st.supply.amount)
        /\ is_amount_within_range(st.max_supply.amount)
        /\ is_amount_within_range(quantity.amount)
    BY <1>1, SupplyRow
  <1>3. /\ minus(st.supply, quantity).amount = st.supply.amount - quantity.amount
        /\ st.supply.amount - quantity.amount \in int64
    BY <1>2, SumFits DEF minus, Asset
  <1>4. /\ minus(st.supply, quantity) \in Asset
        /\ minus(st.supply, quantity).symbol = st.supply.symbol
    BY <1>2, <1>3 DEF minus, Asset
  <1>5. /\ new \in currency_stats /\ new.supply = minus(st.supply, quantity)
        /\ new.max_supply = st.max_supply
    BY <1>2, <1>4 DEF currency_stats
  <1>6. StatsFit(stats, code, new)
    <2>1. is_amount_within_range(minus(st.supply, quantity).amount)
      BY DEF retire, minus_ok
    <2>2. new.supply.amount <= new.max_supply.amount
      <3>1. new.supply.amount = st.supply.amount - quantity.amount
        BY <1>3, <1>5
      <3>2. new.max_supply.amount = st.max_supply.amount
        BY <1>5
      <3> HIDE DEF new, st
      <3> QED
        BY <1>2, <3>1, <3>2
    <2> HIDE DEF new
    <2> QED
      BY <1>2, <1>4, <1>5, <2>1, <2>2 DEF StatsFit
  <1>7. stats' = [stats EXCEPT ![<<code, code>>] = new]
    <2>1. stats_key(new) = code
      BY <1>2, <1>4, <1>5 DEF stats_key
    <2> QED
      BY <1>1, <2>1 DEF modify
  <1>8. StatsPut(stats, code, new, stats')
    <2> HIDE DEF code, new
    <2> QED
      BY <1>2, <1>6, <1>7, TypeFacts, PutStats DEF IInv
  <1>9. /\ stats' \in StatsRows /\ StatsHold(stats')
        /\ BalancesHold(stats', accounts)
        /\ \A c \in Scopes :
              has(stats, c, c) /\ stats'[<<c, c>>] # stats[<<c, c>>]
                  => stats[<<c, c>>].issuer \in auth
    BY <1>2, <1>8, TypeFacts DEF IInv, StatsPut
  <1>10. is_valid(quantity)
    BY <1>1 DEF SupplyArguments
  <1>11. /\ accounts' \in AccountRows /\ BalancesHold(stats', accounts')
         /\ \A o \in Accounts, c \in Scopes :
               o # st.issuer => Balance(accounts', o, c) = Balance(accounts, o, c)
    <2> HIDE DEF st
    <2>1. /\ stats' \in StatsRows /\ accounts \in AccountRows
          /\ BalancesHold(stats', accounts) /\ st.issuer \in Accounts
          /\ is_valid(quantity) /\ quantity.amount > 0
          /\ sub_ok(accounts, st.issuer, quantity)
      BY <1>1, <1>2, <1>9, <1>10, TypeFacts
    <2>2. /\ sub_balance(accounts, st.issuer, quantity) \in AccountRows
          /\ BalancesHold(stats', sub_balance(accounts, st.issuer, quantity))
          /\ \A o \in Accounts, c \in Scopes :
                o # st.issuer =>
                   Balance(sub_balance(accounts, st.issuer, quantity), o, c)
                       = Balance(accounts, o, c)
      BY <2>1, SubBalance
    <2> QED
      BY <1>1, <2>2
  <1>12. \A o \in Accounts, c \in Scopes :
            o \notin auth => Balance(accounts', o, c) >= Balance(accounts, o, c)
    <2> TAKE o \in Accounts, c \in Scopes
    <2> HAVE o \notin auth
    <2>1. Balance(accounts', o, c) = Balance(accounts, o, c)
      BY <1>2, <1>11
    <2>2. Balance(accounts, o, c) \in Int
      BY TypeFacts, BalanceType
    <2> HIDE DEF st
    <2> QED
      BY <2>1, <2>2
  <1>13. \A t \in pending' : t.from \in auth
    BY <1>1, RestFacts
  <1> QED
    BY <1>1, <1>9, <1>11, <1>12, <1>13, TypeFacts, StartStep

LEMMA TransferStep ==
    ASSUME IInv, NEW from \in Accounts, NEW to \in Accounts, NEW quantity \in Asset,
           NEW auth \in SUBSET Accounts, Start(auth),
           transfer(from, to, quantity, auth), UNCHANGED <<pending, sent>>
    PROVE  IInv'
  <1>1. /\ accounts' \in AccountRows /\ BalancesHold(stats, accounts') /\ from \in auth
        /\ \A o \in Accounts, c \in Scopes :
              o # from => Balance(accounts', o, c) >= Balance(accounts, o, c)
    BY TypeFacts, TransferRows DEF IInv, transfer
  <1>2. stats' = stats /\ notified' = notified \union {from, to}
    BY DEF transfer
  <1>3. \A t \in pending' : t.from \in auth
    BY RestFacts
  <1>4. StatsHold(stats') /\ BalancesHold(stats', accounts')
    BY <1>1, <1>2 DEF IInv
  <1> QED
    BY <1>1, <1>2, <1>3, <1>4, TypeFacts, StartStep

LEMMA OpenStep ==
    ASSUME IInv, NEW owner \in Accounts, NEW symbol \in Symbol, NEW payer,
           NEW auth \in SUBSET Accounts, open(owner, symbol, payer, auth)
    PROVE  IInv'
  <1> DEFINE a == [owner |-> owner, balance |-> asset(0, symbol)]
  <1>1. /\ Start(auth) /\ has(stats, symbol.code, symbol.code)
        /\ stats[<<symbol.code, symbol.code>>].supply.symbol = symbol
        /\ stats' = stats /\ notified' = notified /\ pending' = pending /\ sent' = sent
    BY DEF open
  <1>2. symbol.code \in Scopes
    BY DEF Symbol, Scopes
  <1>3. \A t \in pending' : t.from \in auth
    BY <1>1, RestFacts
  <1>4. /\ accounts' \in AccountRows /\ BalancesHold(stats, accounts')
        /\ \A o \in Accounts, c \in Scopes :
              Balance(accounts', o, c) >= Balance(accounts, o, c)
    <2>1. CASE accounts' = accounts
      BY <2>1, TypeFacts, BalanceType DEF IInv
    <2>2. CASE /\ ~has(accounts, owner, symbol.code)
               /\ accounts' = emplace(accounts, owner, a, account_key(a))
      <3>1. a \in account /\ a.balance.symbol = symbol /\ a.balance.amount = 0
        BY QuarterAssumption DEF account, asset, Asset, int64
      <3>2. Fits(stats, owner, symbol.code, a)
        BY <1>1, <3>1, QuarterAssumption DEF Fits, max_amount
      <3>3. accounts' = [accounts EXCEPT ![<<owner, symbol.code>>] = a]
        BY <2>2, <3>1 DEF emplace, account_key
      <3> HIDE DEF a
      <3>4. Put(stats, accounts, owner, symbol.code, a, accounts')
        BY <1>2, <3>2, <3>3, TypeFacts, PutAccount DEF IInv
      <3>5. Balance(accounts, owner, symbol.code) = 0
        BY <2>2 DEF Balance
      <3>6. ASSUME NEW o \in Accounts, NEW c \in Scopes
            PROVE  Balance(accounts', o, c) >= Balance(accounts, o, c)
        <4>1. Balance(accounts, o, c) \in Int
          BY TypeFacts, BalanceType
        <4>2. Balance(accounts', o, c) = Balance(accounts, o, c)
          BY <3>1, <3>4, <3>5 DEF Put
        <4> QED
          BY <4>1, <4>2
      <3> QED
        BY <3>4, <3>6 DEF Put
    <2> QED
      BY <2>1, <2>2 DEF open
  <1>5. StatsHold(stats') /\ BalancesHold(stats', accounts')
    BY <1>1, <1>4 DEF IInv
  <1> QED
    BY <1>1, <1>3, <1>4, <1>5, TypeFacts, StartStep

LEMMA CloseStep ==
    ASSUME IInv, NEW owner \in Accounts, NEW symbol \in Symbol,
           NEW auth \in SUBSET Accounts, close(owner, symbol, auth)
    PROVE  IInv'
  <1> DEFINE code == symbol.code
  <1>1. /\ Start(auth) /\ has(accounts, owner, code)
        /\ accounts[<<owner, code>>].balance.amount = 0
        /\ accounts' = erase(accounts, owner, account_key(accounts[<<owner, code>>]))
        /\ stats' = stats /\ notified' = notified /\ pending' = pending /\ sent' = sent
    BY DEF close
  <1>2. code \in Scopes
    BY DEF Symbol, Scopes
  <1>3. account_key(accounts[<<owner, code>>]) = code
    <2>1. /\ has(stats, code, code)
          /\ accounts[<<owner, code>>].balance.symbol = stats[<<code, code>>].supply.symbol
      BY <1>1, <1>2 DEF IInv, BalancesHold
    <2>2. stats[<<code, code>>].supply.symbol.code = code
      BY <1>2, <2>1 DEF IInv, StatsHold
    <2> QED
      BY <2>1, <2>2 DEF account_key
  <1>4. accounts' = [accounts EXCEPT ![<<owner, code>>] = NoRow]
    BY <1>1, <1>3 DEF erase
  <1>5. accounts' \in AccountRows
    BY <1>4, TypeFacts DEF AccountRows
  <1>6. /\ accounts'[<<owner, code>>] = NoRow
        /\ \A o \in Accounts, c \in Scopes :
              <<o, c>> # <<owner, code>> => accounts'[<<o, c>>] = accounts[<<o, c>>]
    BY <1>2, <1>4, TypeFacts DEF AccountRows
  <1>7. StatsHold(stats') /\ BalancesHold(stats', accounts')
    BY <1>1, <1>6 DEF IInv, BalancesHold, has
  <1>8. ASSUME NEW o \in Accounts, NEW c \in Scopes
        PROVE  Balance(accounts', o, c) >= Balance(accounts, o, c)
    <2>1. Balance(accounts', o, c) = Balance(accounts, o, c)
      BY <1>1, <1>6 DEF Balance, has
    <2>2. Balance(accounts, o, c) \in Int
      BY TypeFacts, BalanceType
    <2> QED
      BY <2>1, <2>2
  <1>9. \A t \in pending' : t.from \in auth
    BY <1>1, RestFacts
  <1> QED
    BY <1>1, <1>5, <1>7, <1>8, <1>9, TypeFacts, StartStep
LEMMA InlineStep ==
    ASSUME IInv, RunInline
    PROVE  IInv'
  <1>1. PICK t \in pending :
           /\ transfer(t.from, t.to, t.quantity, {t.from})
           /\ pending' = pending \ {t}
    BY DEF RunInline
  <1>2. /\ t.from \in Accounts /\ t.to \in Accounts /\ t.quantity \in Asset
        /\ t.from \in signers
    BY TypeFacts DEF Transfer, IInv, SentBySigners
  <1>3. /\ running /\ running' = running /\ saved' = saved
        /\ signers' = signers /\ sent' = sent
        /\ stats' = stats /\ notified' = notified \union {t.from, t.to}
    BY <1>1 DEF RunInline, transfer
  <1>4. /\ accounts' \in AccountRows /\ BalancesHold(stats, accounts')
        /\ \A o \in Accounts, c \in Scopes :
              o # t.from => Balance(accounts', o, c) >= Balance(accounts, o, c)
    BY <1>1, <1>2, TypeFacts, TransferRows DEF IInv, transfer
  <1>5. TypeOK'
    BY <1>1, <1>2, <1>3, <1>4, TypeFacts DEF TypeOK, StatsRows, AccountRows
  <1>6. /\ StatsHold(stats)' /\ StatsHold(saved.stats)'
        /\ BalancesHold(stats, accounts)' /\ BalancesHold(saved.stats, saved.accounts)'
    BY <1>3, <1>4 DEF IInv, StatsHold, BalancesHold, has
  <1>7. AtRest' /\ SentBySigners'
    BY <1>1, <1>3 DEF IInv, AtRest, SentBySigners
  <1>8. OnlyAuthorised'
    <2>1. ASSUME NEW o \in Accounts, NEW c \in Scopes,
                 Balance(accounts', o, c) < Balance(saved.accounts, o, c)
          PROVE  o \in signers
      <3>1. CASE o = t.from
        BY <1>2, <3>1
      <3>2. CASE o # t.from
        <4>1. /\ Balance(accounts', o, c) \in Int /\ Balance(accounts, o, c) \in Int
              /\ Balance(saved.accounts, o, c) \in Int
          BY <1>4, TypeFacts, BalanceType
        <4>2. Balance(accounts, o, c) < Balance(saved.accounts, o, c)
          BY <1>4, <2>1, <3>2, <4>1
        <4> QED
          BY <1>3, <4>2 DEF IInv, OnlyAuthorised
      <3> QED
        BY <3>1, <3>2
    <2>2. \A o \in Accounts, c \in Scopes :
             /\ Balance(accounts, o, c)' = Balance(accounts', o, c)
             /\ Balance(saved.accounts, o, c)' = Balance(saved.accounts, o, c)
      BY <1>3 DEF Balance, has
    <2>3. \A c \in Scopes : has(saved.stats, c, c)' = has(saved.stats, c, c)
      BY <1>3 DEF has
    <2>4. \A c \in Scopes :
             (/\ has(saved.stats, c, c)
              /\ stats[<<c, c>>] # saved.stats[<<c, c>>])
                 => saved.stats[<<c, c>>].issuer \in signers
      BY <1>3 DEF IInv, OnlyAuthorised
    <2> QED
      BY <1>3, <2>1, <2>2, <2>3, <2>4 DEF OnlyAuthorised
  <1> QED
    BY <1>5, <1>6, <1>7, <1>8 DEF IInv

LEMMA AnswerStep ==
    ASSUME IInv, Answer
    PROVE  IInv'
  <1>1. PICK a \in notified \intersect Contracts, to \in Accounts, quantity \in Quantities :
           /\ pending' = pending \union
                  {[id |-> sent, from |-> a, to |-> to, quantity |-> quantity]}
           /\ signers' = signers \union {a}
    BY DEF Answer
  <1>2. /\ running /\ sent' = sent + 1
        /\ stats' = stats /\ accounts' = accounts /\ saved' = saved
        /\ running' = running /\ notified' = notified
    BY DEF Answer
  <1>3. TypeOK'
    BY <1>1, <1>2, TypeFacts, QuantitiesAssumption DEF TypeOK, StatsRows, AccountRows, Transfer
  <1>4. /\ StatsHold(stats)' /\ StatsHold(saved.stats)'
        /\ BalancesHold(stats, accounts)' /\ BalancesHold(saved.stats, saved.accounts)'
    BY <1>2 DEF IInv, StatsHold, BalancesHold, has
  <1>5. AtRest' /\ SentBySigners'
    BY <1>1, <1>2 DEF IInv, AtRest, SentBySigners
  <1>6. OnlyAuthorised'
    BY <1>1, <1>2 DEF IInv, OnlyAuthorised, Balance, has
  <1> QED
    BY <1>3, <1>4, <1>5, <1>6 DEF IInv

(* A transaction ends with the rows it made or with those it found. *)
LEMMA EndStep ==
    ASSUME IInv, Commit \/ Undo
    PROVE  IInv'
  <1>1. /\ running' = FALSE /\ signers' = {} /\ notified' = {} /\ pending' = {} /\ sent' = 0
        /\ saved'.stats = stats' /\ saved'.accounts = accounts'
        /\ \/ stats' = stats /\ accounts' = accounts
           \/ stats' = saved.stats /\ accounts' = saved.accounts
    BY DEF Commit, Undo, Ended
  <1>2. TypeOK'
    BY <1>1, TypeFacts DEF TypeOK, StatsRows, AccountRows
  <1>3. /\ StatsHold(stats)' /\ StatsHold(saved.stats)'
        /\ BalancesHold(stats, accounts)' /\ BalancesHold(saved.stats, saved.accounts)'
    BY <1>1 DEF IInv, StatsHold, BalancesHold, has
  <1>4. AtRest' /\ SentBySigners' /\ OnlyAuthorised'
    BY <1>1 DEF AtRest, SentBySigners, OnlyAuthorised
  <1> QED
    BY <1>2, <1>3, <1>4 DEF IInv

LEMMA NextIInv == IInv /\ [Next]_vars => IInv'
  <1> SUFFICES ASSUME IInv, [Next]_vars PROVE IInv'
    OBVIOUS
  <1>1. CASE UNCHANGED vars
    BY <1>1 DEF vars, IInv, TypeOK, StatsHold, BalancesHold, has, AtRest,
                SentBySigners, OnlyAuthorised, Balance
  <1>2. ASSUME NEW auth \in SUBSET Accounts, Called(auth) PROVE IInv'
    <2> USE QuantitiesAssumption
    <2>1. \A quantity \in Quantities : quantity \in Asset /\ quantity.symbol \in Symbol
      BY AmountTypes
    <2>2. CASE \E issuer \in Accounts, quantity \in Quantities : create(issuer, quantity, auth)
      BY <2>1, <2>2, CreateStep
    <2>3. CASE \E to \in Accounts, quantity \in Quantities : issue(to, quantity, auth)
      BY <2>1, <2>3, IssueStep
    <2>4. CASE \E quantity \in Quantities : retire(quantity, auth)
      BY <2>1, <2>4, RetireStep
    <2>5. CASE \E from, to \in Accounts, quantity \in Quantities :
                 /\ Start(auth)
                 /\ transfer(from, to, quantity, auth)
                 /\ UNCHANGED <<pending, sent>>
      BY <2>1, <2>5, TransferStep
    <2>6. CASE \E owner, payer \in Accounts, quantity \in Quantities :
                 open(owner, quantity.symbol, payer, auth)
      BY <2>1, <2>6, OpenStep
    <2>7. CASE \E owner \in Accounts, quantity \in Quantities :
                 close(owner, quantity.symbol, auth)
      BY <2>1, <2>7, CloseStep
    <2> QED
      BY <1>2, <2>2, <2>3, <2>4, <2>5, <2>6, <2>7 DEF Called
  <1> QED
    BY <1>1, <1>2, InlineStep, AnswerStep, EndStep DEF Next

(* The token contract keeps its rows valid and its accounts' authority in     *)
(* every behaviour, with any number of accounts, codes and messages.          *)
THEOREM Invariance == Spec => []IInv
  BY InitIInv, NextIInv, PTL DEF Spec

(* Every variable keeps its type. *)
THEOREM TypeCorrect == Spec => []TypeOK
  <1>1. IInv => TypeOK
    BY DEF IInv
  <1> QED
    BY <1>1, Invariance, PTL

(* No sequence of issue and retire takes a supply past its maximum or out of  *)
(* range, undone or not (token.cpp:31-80).                                    *)
THEOREM SuppliesValid == Spec => []StatsValid
  <1>1. IInv => StatsValid
    BY DEF IInv, StatsValid
  <1> QED
    BY <1>1, Invariance, PTL

(* Balances stay in range and in the symbol of their token: the arithmetic of *)
(* asset.hpp never wraps on the way (token.cpp:82-170).                       *)
THEOREM RowsValid == Spec => []BalancesValid
  <1>1. IInv => BalancesValid
    BY DEF IInv, BalancesValid
  <1> QED
    BY <1>1, Invariance, PTL

(* Nobody's tokens are taken without their authority (token.cpp:41, 70, 88),  *)
(* in whatever order the host runs what a transaction sends.                  *)
THEOREM Authority == Spec => []OnlyAuthorised
  <1>1. IInv => OnlyAuthorised
    BY DEF IInv
  <1> QED
    BY <1>1, Invariance, PTL

-----------------------------------------------------------------------------
(* The supply.  The rows change at one owner and code at a time, so each sum  *)
(* of balances changes by what that balance changes.                          *)

LEMMA CirculatingType ==
    ASSUME NEW rows \in AccountRows, NEW c \in Scopes
    PROVE  Circulating(rows, c) \in Int
  <1> DEFINE f == [o \in Accounts |-> Balance(rows, o, c)]
  <1>1. f \in [Accounts -> Int]
    BY BalanceType
  <1>2. SumFunction(f) \in Int
    <2> HIDE DEF f
    <2> QED
      BY <1>1, AccountsAssumption, SumType
  <1> QED
    BY <1>2 DEF Circulating

LEMMA SameBalances ==
    ASSUME NEW rows, NEW new, NEW c,
           \A o \in Accounts : Balance(new, o, c) = Balance(rows, o, c)
    PROVE  Circulating(new, c) = Circulating(rows, c)
  <1>1. [o \in Accounts |-> Balance(new, o, c)] = [o \in Accounts |-> Balance(rows, o, c)]
    OBVIOUS
  <1> QED
    BY <1>1 DEF Circulating

LEMMA ShiftedSum ==
    ASSUME NEW rows \in AccountRows, NEW new \in AccountRows,
           NEW owner \in Accounts, NEW code \in Scopes, NEW d \in Int,
           Shift(rows, new, owner, code, d)
    PROVE  /\ Circulating(new, code) = Circulating(rows, code) + d
           /\ \A c \in Scopes : c # code => Circulating(new, c) = Circulating(rows, c)
  <1> DEFINE f == [o \in Accounts |-> Balance(rows, o, code)]
             g == [o \in Accounts |-> Balance(new, o, code)]
  <1>1. f \in [Accounts -> Int] /\ g \in [Accounts -> Int]
    BY BalanceType
  <1>2. /\ \A o \in Accounts : o # owner => g[o] = f[o]
        /\ g[owner] = f[owner] + d
    BY DEF Shift
  <1>3. SumFunction(g) = SumFunction(f) + (g[owner] - f[owner])
    <2> HIDE DEF f, g
    <2> QED
      BY <1>1, <1>2, AccountsAssumption, SumChange
  <1>4. SumFunction(g) = SumFunction(f) + d
    <2>1. g[owner] - f[owner] = d
      <3>1. f[owner] \in Int /\ g[owner] \in Int
        BY <1>1
      <3> HIDE DEF f, g
      <3> QED
        BY <1>2, <3>1
    <2> QED
      BY <1>3, <2>1
  <1>5. \A c \in Scopes : c # code => Circulating(new, c) = Circulating(rows, c)
    BY SameBalances DEF Shift
  <1> QED
    BY <1>4, <1>5 DEF Circulating

(* A transfer moves tokens and keeps the sum. *)
LEMMA TransferKeepsSum ==
    ASSUME stats \in StatsRows, accounts \in AccountRows,
           BalancesHold(stats, accounts),
           NEW from \in Accounts, NEW to \in Accounts, NEW quantity \in Asset,
           NEW auth, TransferArguments(from, to, quantity, auth),
           Moved(from, to, quantity)
    PROVE  \A c \in Scopes : Circulating(accounts', c) = Circulating(accounts, c)
  <1> DEFINE code == quantity.symbol.code
             without == sub_balance(accounts, from, quantity)
  <1>1. is_valid(quantity) /\ quantity.amount > 0
    BY DEF TransferArguments
  <1>2. code \in Scopes /\ code # NoCode /\ quantity.amount \in Int
    BY <1>1, CodeType, CodesAssumption, AmountTypes DEF is_valid, symbol_is_valid
  <1>3. has(stats, code, code) /\ quantity.symbol = stats[<<code, code>>].supply.symbol
    <2>1. CASE has(stats, code, code)
      BY <2>1 DEF TransferArguments, get
    <2>2. CASE ~has(stats, code, code)
      <3>1. quantity.symbol = NoSymbol
        BY <2>2 DEF TransferArguments, get, NoAsset
      <3> QED
        BY <1>2, <3>1 DEF NoSymbol
    <2> QED
      BY <2>1, <2>2
  <1>4. sub_ok(accounts, from, quantity)
    BY DEF Moved
  <1>5. /\ without \in AccountRows /\ BalancesHold(stats, without)
        /\ Shift(accounts, without, from, code, -quantity.amount)
    BY <1>1, <1>4, SubBalance
  <1>6. add_ok(without, to, quantity) /\ accounts' = add_balance(without, to, quantity)
    BY DEF Moved
  <1> HIDE DEF without, code
  <1>7. accounts' \in AccountRows /\ Shift(without, accounts', to, code, quantity.amount)
    BY <1>1, <1>3, <1>5, <1>6, AddBalance DEF code
  <1>8. /\ Circulating(without, code) = Circulating(accounts, code) + (-quantity.amount)
        /\ \A c \in Scopes : c # code => Circulating(without, c) = Circulating(accounts, c)
    BY <1>2, <1>5, ShiftedSum
  <1>9. /\ Circulating(accounts', code) = Circulating(without, code) + quantity.amount
        /\ \A c \in Scopes : c # code => Circulating(accounts', c) = Circulating(without, c)
    BY <1>2, <1>5, <1>7, ShiftedSum
  <1>10. Circulating(accounts', code) = Circulating(accounts, code)
    BY <1>2, <1>5, <1>8, <1>9, CirculatingType
  <1> QED
    BY <1>8, <1>9, <1>10

(* The sums agree with the supplies, now and in what Undo goes back to. *)
Balanced == SuppliesHold(stats, accounts) /\ SuppliesHold(saved.stats, saved.accounts)

(* Balanced holds initially.                                                *)
LEMMA InitBalanced == Init => Balanced
  <1> SUFFICES ASSUME Init PROVE Balanced
    OBVIOUS
  <1>1. saved.stats = stats /\ saved.accounts = accounts
    BY DEF Init
  <1>2. ASSUME NEW c \in Codes PROVE Circulating(accounts, c) = Supply(stats, c)
    <2>1. c \in Scopes /\ ~has(stats, c, c)
      BY DEF Init, Scopes, has
    <2>2. \A o \in Accounts : Balance(accounts, o, c) = 0
      BY <2>1 DEF Init, Balance, has
    <2>3. [o \in Accounts |-> Balance(accounts, o, c)] = [o \in Accounts |-> 0]
      BY <2>2
    <2>4. SumFunction([o \in Accounts |-> 0]) = 0
      BY AccountsAssumption, SumOfZeros
    <2>5. Circulating(accounts, c) = 0
      BY <2>3, <2>4 DEF Circulating
    <2> QED
      BY <2>1, <2>5 DEF Supply
  <1>3. SuppliesHold(stats, accounts)
    BY <1>2 DEF SuppliesHold
  <1> QED
    BY <1>1, <1>3 DEF Balanced

(* What the body of a transaction has to keep *)
LEMMA StartBalanced ==
    ASSUME Balanced, NEW auth, Start(auth), SuppliesHold(stats', accounts')
    PROVE  Balanced'
  <1>1. saved' = saved
    BY DEF Start
  <1>2. SuppliesHold(saved.stats, saved.accounts)'
    BY <1>1 DEF Balanced, SuppliesHold, Circulating, Balance, Supply, has
  <1>3. SuppliesHold(stats, accounts)'
    BY DEF SuppliesHold, Circulating, Balance, Supply, has
  <1> QED
    BY <1>2, <1>3 DEF Balanced

(* A supply and the sum of its balances that change alike *)
LEMMA SameChange ==
    ASSUME IInv, SuppliesHold(stats, accounts),
           stats' \in StatsRows, accounts' \in AccountRows,
           NEW code \in Scopes, NEW d \in Int, has(stats, code, code),
           stats'[<<code, code>>].supply.amount = stats[<<code, code>>].supply.amount + d,
           has(stats', code, code),
           \A c \in Scopes : c # code => stats'[<<c, c>>] = stats[<<c, c>>],
           NEW owner \in Accounts, Shift(accounts, accounts', owner, code, d)
    PROVE  SuppliesHold(stats', accounts')
  <1>1. /\ Circulating(accounts', code) = Circulating(accounts, code) + d
        /\ \A c \in Scopes : c # code => Circulating(accounts', c) = Circulating(accounts, c)
    BY TypeFacts, ShiftedSum
  <1>2. /\ Supply(stats', code) = Supply(stats, code) + d
        /\ \A c \in Scopes : c # code => Supply(stats', c) = Supply(stats, c)
    BY DEF Supply, has
  <1>3. \A c \in Codes : c \in Scopes /\ Circulating(accounts, c) = Supply(stats, c)
    BY DEF SuppliesHold, Scopes
  <1>4. ASSUME NEW c \in Codes PROVE Circulating(accounts', c) = Supply(stats', c)
    <2>1. CASE c = code
      BY <1>1, <1>2, <1>3, <2>1
    <2>2. CASE c # code
      BY <1>1, <1>2, <1>3, <2>2
    <2> QED
      BY <2>1, <2>2
  <1> QED
    BY <1>4 DEF SuppliesHold

(* create starts a token that nobody holds. *)
LEMMA CreateBalanced ==
    ASSUME IInv, Balanced, NEW issuer \in Accounts, NEW quantity \in Asset,
           NEW auth \in SUBSET Accounts, create(issuer, quantity, auth)
    PROVE  Balanced'
  <1> DEFINE code == quantity.symbol.code
             st == [supply |-> [amount |-> 0, symbol |-> quantity.symbol],
                    max_supply |-> quantity, issuer |-> issuer]
  <1>1. /\ Start(auth) /\ ~has(stats, code, code)
        /\ stats' = emplace(stats, code, st, stats_key(st))
        /\ accounts' = accounts
    BY DEF create
  <1>2. code \in Scopes /\ st.supply.amount = 0 /\ stats_key(st) = code
    BY CodeType DEF stats_key
  <1>3. stats' = [stats EXCEPT ![<<code, code>>] = st]
    BY <1>1, <1>2 DEF emplace
  <1> HIDE DEF code, st
  <1>4. /\ stats'[<<code, code>>] = st
        /\ \A c \in Scopes : c # code => stats'[<<c, c>>] = stats[<<c, c>>]
    BY <1>2, <1>3, TypeFacts DEF StatsRows
  <1>5. \A c \in Scopes : Supply(stats', c) = Supply(stats, c)
    BY <1>1, <1>2, <1>4 DEF Supply, has
  <1>6. \A c \in Codes : c \in Scopes
    BY DEF Scopes
  <1>7. SuppliesHold(stats', accounts')
    BY <1>1, <1>5, <1>6 DEF Balanced, SuppliesHold
  <1> QED
    BY <1>1, <1>7, StartBalanced

(* issue credits the issuer with what it adds to the supply. *)
LEMMA IssueBalanced ==
    ASSUME IInv, Balanced, NEW to \in Accounts, NEW quantity \in Asset,
           NEW auth \in SUBSET Accounts, issue(to, quantity, auth)
    PROVE  Balanced'
  <1> DEFINE code == quantity.symbol.code
             st == stats[<<code, code>>]
             new == [st EXCEPT !.supply = plus(st.supply, quantity)]
  <1>1. /\ Start(auth) /\ SupplyArguments(quantity, auth)
        /\ stats' = modify(stats, code, new, stats_key(new))
        /\ add_ok(accounts, st.issuer, quantity)
        /\ accounts' = add_balance(accounts, st.issuer, quantity)
    BY DEF issue
  <1>2. /\ code \in Scopes /\ has(stats, code, code)
        /\ st \in currency_stats /\ st.supply \in Asset /\ st.issuer \in Accounts
        /\ st.supply.symbol = quantity.symbol
        /\ st.supply.amount \in Int /\ quantity.amount \in Int /\ quantity.amount > 0
        /\ is_amount_within_range(st.supply.amount)
        /\ is_amount_within_range(quantity.amount)
    BY <1>1, SupplyRow
  <1>3. /\ plus(st.supply, quantity).amount = st.supply.amount + quantity.amount
        /\ plus(st.supply, quantity).symbol = st.supply.symbol
    BY <1>2, SumFits DEF plus, Asset
  <1>4. new.supply = plus(st.supply, quantity)
    BY <1>2 DEF currency_stats
  <1>5. stats' = [stats EXCEPT ![<<code, code>>] = new]
    BY <1>1, <1>2, <1>3, <1>4 DEF modify, stats_key
  <1>6. new \in currency_stats
    <2>1. st.supply.amount + quantity.amount \in int64
      BY <1>2, SumFits
    <2>2. plus(st.supply, quantity) \in Asset
      BY <1>2, <1>3, <2>1 DEF plus, Asset
    <2> QED
      BY <1>2, <2>2 DEF currency_stats
  <1>7. is_valid(quantity)
    BY <1>1 DEF SupplyArguments
  <1>8. Shift(accounts, accounts', st.issuer, code, quantity.amount)
    <2> HIDE DEF st
    <2>1. stats \in StatsRows /\ accounts \in AccountRows /\ BalancesHold(stats, accounts)
      BY TypeFacts DEF IInv
    <2>2. quantity.symbol = stats[<<code, code>>].supply.symbol
      BY <1>2 DEF st
    <2> QED
      BY <1>1, <1>2, <1>7, <2>1, <2>2, AddBalance
  <1>9. stats' \in StatsRows /\ accounts' \in AccountRows
    <2>1. TypeOK'
      BY IssueStep DEF IInv
    <2> QED
      BY <2>1 DEF TypeOK, StatsRows, AccountRows
  <1> HIDE DEF code, st, new
  <1>10. /\ stats'[<<code, code>>] = new
         /\ \A c \in Scopes : c # code => stats'[<<c, c>>] = stats[<<c, c>>]
    BY <1>2, <1>5, TypeFacts DEF StatsRows
  <1>11. has(stats', code, code)
    BY <1>6, <1>10, NoRowAssumption DEF has
  <1>12. stats'[<<code, code>>].supply.amount = stats[<<code, code>>].supply.amount + quantity.amount
    BY <1>3, <1>4, <1>10 DEF st
  <1>13. SuppliesHold(stats', accounts')
    BY <1>2, <1>8, <1>9, <1>10, <1>11, <1>12, SameChange DEF Balanced
  <1> QED
    BY <1>1, <1>13, StartBalanced

(* retire debits the issuer with what it takes from the supply. *)
LEMMA RetireBalanced ==
    ASSUME IInv, Balanced, NEW quantity \in Asset,
           NEW auth \in SUBSET Accounts, retire(quantity, auth)
    PROVE  Balanced'
  <1> DEFINE code == quantity.symbol.code
             st == stats[<<code, code>>]
             new == [st EXCEPT !.supply = minus(st.supply, quantity)]
  <1>1. /\ Start(auth) /\ SupplyArguments(quantity, auth)
        /\ stats' = modify(stats, code, new, stats_key(new))
        /\ sub_ok(accounts, st.issuer, quantity)
        /\ accounts' = sub_balance(accounts, st.issuer, quantity)
    BY DEF retire
  <1>2. /\ code \in Scopes /\ has(stats, code, code)
        /\ st \in currency_stats /\ st.supply \in Asset /\ st.issuer \in Accounts
        /\ st.supply.symbol = quantity.symbol
        /\ st.supply.amount \in Int /\ quantity.amount \in Int /\ quantity.amount > 0
        /\ is_amount_within_range(st.supply.amount)
        /\ is_amount_within_range(quantity.amount)
    BY <1>1, SupplyRow
  <1>3. /\ minus(st.supply, quantity).amount = st.supply.amount - quantity.amount
        /\ minus(st.supply, quantity).symbol = st.supply.symbol
    BY <1>2, SumFits DEF minus, Asset
  <1>4. new.supply = minus(st.supply, quantity)
    BY <1>2 DEF currency_stats
  <1>5. stats' = [stats EXCEPT ![<<code, code>>] = new]
    BY <1>1, <1>2, <1>3, <1>4 DEF modify, stats_key
  <1>6. new \in currency_stats
    <2>1. st.supply.amount - quantity.amount \in int64
      BY <1>2, SumFits
    <2>2. minus(st.supply, quantity) \in Asset
      BY <1>2, <1>3, <2>1 DEF minus, Asset
    <2> QED
      BY <1>2, <2>2 DEF currency_stats
  <1>7. is_valid(quantity)
    BY <1>1 DEF SupplyArguments
  <1>8. Shift(accounts, accounts', st.issuer, code, -quantity.amount)
    <2> HIDE DEF st
    <2>1. stats \in StatsRows /\ accounts \in AccountRows /\ BalancesHold(stats, accounts)
      BY TypeFacts DEF IInv
    <2>2. quantity.symbol = stats[<<code, code>>].supply.symbol
      BY <1>2 DEF st
    <2> QED
      BY <1>1, <1>2, <1>7, <2>1, <2>2, SubBalance
  <1>9. stats' \in StatsRows /\ accounts' \in AccountRows
    <2>1. TypeOK'
      BY RetireStep DEF IInv
    <2> QED
      BY <2>1 DEF TypeOK, StatsRows, AccountRows
  <1> HIDE DEF code, st, new
  <1>10. /\ stats'[<<code, code>>] = new
         /\ \A c \in Scopes : c # code => stats'[<<c, c>>] = stats[<<c, c>>]
    BY <1>2, <1>5, TypeFacts DEF StatsRows
  <1>11. has(stats', code, code)
    BY <1>6, <1>10, NoRowAssumption DEF has
  <1>12. stats'[<<code, code>>].supply.amount = stats[<<code, code>>].supply.amount + (-quantity.amount)
    BY <1>2, <1>3, <1>4, <1>10 DEF st
  <1>13. SuppliesHold(stats', accounts')
    BY <1>2, <1>8, <1>9, <1>10, <1>11, <1>12, SameChange DEF Balanced
  <1> QED
    BY <1>1, <1>13, StartBalanced

LEMMA TransferBalanced ==
    ASSUME IInv, SuppliesHold(stats, accounts),
           NEW from \in Accounts, NEW to \in Accounts, NEW quantity \in Asset,
           NEW auth, transfer(from, to, quantity, auth)
    PROVE  SuppliesHold(stats', accounts')
  <1>1. \A c \in Scopes : Circulating(accounts', c) = Circulating(accounts, c)
    BY TypeFacts, TransferKeepsSum DEF IInv, transfer
  <1>2. stats' = stats
    BY DEF transfer
  <1>3. \A c \in Codes : c \in Scopes
    BY DEF Scopes
  <1> QED
    BY <1>1, <1>2, <1>3 DEF SuppliesHold

(* open and close add and remove rows whose balance is 0. *)
LEMMA OpenCloseBalanced ==
    ASSUME IInv, Balanced, NEW owner \in Accounts, NEW symbol \in Symbol, NEW payer,
           NEW auth \in SUBSET Accounts,
           open(owner, symbol, payer, auth) \/ close(owner, symbol, auth)
    PROVE  Balanced'
  <1> DEFINE code == symbol.code
  <1>1. Start(auth) /\ stats' = stats
    BY DEF open, close
  <1>2. code \in Scopes
    BY DEF Symbol, Scopes
  <1>3. \A o \in Accounts, c \in Scopes : Balance(accounts', o, c) = Balance(accounts, o, c)
    <2>1. CASE accounts' = accounts
      BY <2>1
    <2>2. CASE open(owner, symbol, payer, auth) /\ accounts' # accounts
      <3> DEFINE a == [owner |-> owner, balance |-> asset(0, symbol)]
      <3>1. ~has(accounts, owner, code) /\ accounts' = emplace(accounts, owner, a, account_key(a))
        BY <2>2 DEF open
      <3>2. a.balance.amount = 0 /\ account_key(a) = code
        BY DEF asset, account_key
      <3>3. accounts' = [accounts EXCEPT ![<<owner, code>>] = a]
        BY <3>1, <3>2 DEF emplace
      <3> HIDE DEF a
      <3>4. /\ accounts'[<<owner, code>>] = a
            /\ \A o \in Accounts, c \in Scopes :
                  <<o, c>> # <<owner, code>> => accounts'[<<o, c>>] = accounts[<<o, c>>]
        BY <1>2, <3>3, TypeFacts DEF AccountRows
      <3>5. Balance(accounts', owner, code) = 0 /\ Balance(accounts, owner, code) = 0
        BY <3>1, <3>2, <3>4 DEF Balance
      <3> QED
        BY <3>4, <3>5 DEF Balance, has
    <2>3. CASE close(owner, symbol, auth)
      <3>1. /\ has(accounts, owner, code)
            /\ accounts[<<owner, code>>].balance.amount = 0
            /\ accounts' = erase(accounts, owner, account_key(accounts[<<owner, code>>]))
        BY <2>3 DEF close
      <3>2. account_key(accounts[<<owner, code>>]) = code
        <4>1. /\ has(stats, code, code)
              /\ accounts[<<owner, code>>].balance.symbol = stats[<<code, code>>].supply.symbol
          BY <1>2, <3>1 DEF IInv, BalancesHold
        <4>2. stats[<<code, code>>].supply.symbol.code = code
          BY <1>2, <4>1 DEF IInv, StatsHold
        <4> QED
          BY <4>1, <4>2 DEF account_key
      <3>3. accounts' = [accounts EXCEPT ![<<owner, code>>] = NoRow]
        BY <3>1, <3>2 DEF erase
      <3>4. /\ accounts'[<<owner, code>>] = NoRow
            /\ \A o \in Accounts, c \in Scopes :
                  <<o, c>> # <<owner, code>> => accounts'[<<o, c>>] = accounts[<<o, c>>]
        BY <1>2, <3>3, TypeFacts DEF AccountRows
      <3> QED
        BY <3>1, <3>4 DEF Balance, has
    <2> QED
      BY <2>1, <2>2, <2>3
  <1>4. \A c \in Scopes : Circulating(accounts', c) = Circulating(accounts, c)
    BY <1>3, SameBalances
  <1>5. \A c \in Codes : c \in Scopes
    BY DEF Scopes
  <1>6. SuppliesHold(stats', accounts')
    BY <1>1, <1>4, <1>5 DEF Balanced, SuppliesHold
  <1> QED
    BY <1>1, <1>6, StartBalanced

(* Every step keeps Balanced.                                               *)
LEMMA NextBalanced == IInv /\ Balanced /\ [Next]_vars => Balanced'
  <1> SUFFICES ASSUME IInv, Balanced, [Next]_vars PROVE Balanced'
    OBVIOUS
  <1> USE DEF SuppliesHold, Circulating, Supply, Balance, has
  <1>1. CASE UNCHANGED vars
    BY <1>1 DEF vars, Balanced
  <1>2. ASSUME NEW auth \in SUBSET Accounts, Called(auth) PROVE Balanced'
    <2> USE QuantitiesAssumption
    <2> HIDE DEF SuppliesHold, Circulating, Supply, Balance, has
    <2>1. \A quantity \in Quantities : quantity \in Asset /\ quantity.symbol \in Symbol
      BY AmountTypes
    <2>2. CASE \E issuer \in Accounts, quantity \in Quantities : create(issuer, quantity, auth)
      BY <2>1, <2>2, CreateBalanced
    <2>3. CASE \E to \in Accounts, quantity \in Quantities : issue(to, quantity, auth)
      BY <2>1, <2>3, IssueBalanced
    <2>4. CASE \E quantity \in Quantities : retire(quantity, auth)
      BY <2>1, <2>4, RetireBalanced
    <2>5. CASE \E from, to \in Accounts, quantity \in Quantities :
                 /\ Start(auth)
                 /\ transfer(from, to, quantity, auth)
                 /\ UNCHANGED <<pending, sent>>
      BY <2>1, <2>5, TransferBalanced, StartBalanced DEF Balanced
    <2>6. CASE \E owner, payer \in Accounts, quantity \in Quantities :
                 open(owner, quantity.symbol, payer, auth)
      BY <2>1, <2>6, OpenCloseBalanced
    <2>7. CASE \E owner \in Accounts, quantity \in Quantities :
                 close(owner, quantity.symbol, auth)
      BY <2>1, <2>7, OpenCloseBalanced
    <2> QED
      BY <1>2, <2>2, <2>3, <2>4, <2>5, <2>6, <2>7 DEF Called
  <1>3. CASE RunInline
    <2> HIDE DEF SuppliesHold, Circulating, Supply, Balance, has
    <2>1. PICK t \in pending : transfer(t.from, t.to, t.quantity, {t.from})
      BY <1>3 DEF RunInline
    <2>2. t.from \in Accounts /\ t.to \in Accounts /\ t.quantity \in Asset
      BY TypeFacts DEF Transfer
    <2>3. SuppliesHold(stats', accounts') /\ saved' = saved
      BY <1>3, <2>1, <2>2, TransferBalanced DEF Balanced, RunInline
    <2> QED
      BY <2>3 DEF Balanced, SuppliesHold, Circulating, Supply, Balance, has
  <1>4. CASE Answer
    BY <1>4 DEF Answer, Balanced
  <1>5. CASE Commit \/ Undo
    <2>1. /\ saved'.stats = stats' /\ saved'.accounts = accounts'
          /\ \/ stats' = stats /\ accounts' = accounts
             \/ stats' = saved.stats /\ accounts' = saved.accounts
      BY <1>5 DEF Commit, Undo
    <2> QED
      BY <2>1 DEF Balanced
  <1> QED
    BY <1>1, <1>2, <1>3, <1>4, <1>5 DEF Next

(* No token is lost or made: whatever transactions run, are undone and send    *)
(* others, the balances under a code add up to its supply (token.cpp:31-170).  *)
THEOREM TokensKept == Spec => []SupplyIsBalances
  <1>1. Spec => []Balanced
    BY Invariance, InitBalanced, NextBalanced, PTL DEF Spec
  <1>2. Balanced => SupplyIsBalances
    BY DEF Balanced, SupplyIsBalances
  <1> QED
    BY <1>1, <1>2, PTL

(* The text of every balance reads back as that balance, with any radix and    *)
(* any precision of at least 1 (asset.hpp:343-433).                            *)
THEOREM TextKept == Spec => []BalancesReadBack
  <1>1. IInv => BalancesReadBack
    <2> SUFFICES ASSUME IInv, NEW owner \in Accounts, NEW code \in Codes,
                        has(accounts, owner, code),
                        accounts[<<owner, code>>].balance.symbol.precision > 0
                 PROVE  LET b == accounts[<<owner, code>>].balance IN
                        from_string_ok(to_string(b)) /\ from_string(to_string(b)) = b
      BY DEF BalancesReadBack
    <2> DEFINE b == accounts[<<owner, code>>].balance
    <2>1. code \in Scopes
      BY DEF Scopes
    <2>2. b \in Asset
      BY <2>1, TypeFacts, RowTypes DEF account
    <2>3. /\ has(stats, code, code)
          /\ b.symbol = stats[<<code, code>>].supply.symbol
          /\ 0 <= b.amount /\ b.amount <= max_amount
      BY <2>1 DEF IInv, BalancesHold
    <2>4. symbol_is_valid(b.symbol)
      BY <2>1, <2>3 DEF IInv, StatsHold
    <2>5. b.amount \in Int
      BY <2>2, AmountTypes
    <2>6. is_valid(b)
      BY <2>3, <2>4, <2>5, QuarterAssumption DEF is_valid, is_amount_within_range, max_amount
    <2> HIDE DEF b
    <2>7. from_string_ok(to_string(b)) /\ from_string(to_string(b)) = b
      BY <2>2, <2>3, <2>6, ReadBack DEF b
    <2> QED
      BY <2>7 DEF b
  <1> QED
    BY <1>1, Invariance, PTL
=============================================================================
