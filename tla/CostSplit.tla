------------------------------ MODULE CostSplit -------------------------------
(* What a place, an activity or a stop costs, who pays it, how it is shared   *)
(* and what the members of a trip then owe each other (domain/split.go,       *)
(* domain/document.go, storage/postgres/costshares.go).  Amounts are cents.   *)
(*                                                                            *)
(* A cost is a row with planned and actual amounts or None, "per" when they   *)
(* are per person, its payer, its split and shares, a sequence of             *)
(* [user, amount].                                                            *)
EXTENDS Integers, Sequences, FiniteSets, TLC
LOCAL INSTANCE SequencesExt

CONSTANTS None, MaxCostShares

Sum(seq) == FoldLeft(+, 0, seq)
moneyOrZero(amount) == IF amount = None THEN 0 ELSE amount

perGroup(amount, per, travelers) == moneyOrZero(amount) * IF per THEN Max({travelers, 1}) ELSE 1

PlannedCostTotal(cost, travelers) == perGroup(cost.planned, cost.per, travelers)
ActualCostTotal(cost, travelers) == perGroup(cost.actual, cost.per, travelers)

\* What a split shares: in a report what was really spent, once it is known.
SplitTotal(cost, travelers, report) ==
  IF report /\ cost.actual # None THEN ActualCostTotal(cost, travelers) ELSE PlannedCostTotal(cost, travelers)

Sharers(cost) == {share.user : share \in ToSet(cost.shares)}
Named(cost) == Sharers(cost) \cup ({cost.paidBy} \ {None})

(******************************** what is stored **************************)

Malformed(cost) ==
  \/ cost.paidBy = None \/ cost.shares = <<>>
  \/ Len(cost.shares) > MaxCostShares \/ Cardinality(Sharers(cost)) < Len(cost.shares)
  \/ cost.split = "individuals" /\ \E s \in ToSet(cost.shares) : s.amount = None

normalizeSplit(cost) ==
  CASE cost.split = "none" -> [cost EXCEPT !.shares = <<>>]
    [] cost.split # "none" /\ Malformed(cost) -> None
    [] cost.split = "everyone" /\ ~Malformed(cost) ->
         [cost EXCEPT !.shares = [k \in DOMAIN @ |-> [user |-> cost.shares[k].user, amount |-> None]]]
    [] OTHER -> cost

\* Nobody but the allowed is named, and amounts of each one's own make the cost.
CheckCostSplit(cost, allowed, travelers, report) ==
  /\ Named(cost) \subseteq allowed
  /\ cost.split = "individuals" =>
       Sum([k \in DOMAIN cost.shares |-> cost.shares[k].amount]) = SplitTotal(cost, travelers, report)

\* The account of a payer or a sharer is gone: SET NULL and CASCADE.
ForgetUser(cost, user) ==
  [cost EXCEPT !.paidBy = IF @ = user THEN None ELSE @, !.shares = SelectSeq(@, LAMBDA s : s.user # user)]

(****************************** who owes what *****************************)

\* The cents that do not divide evenly go to the first, one each.
EqualParts(total, count) ==
  [k \in 1..count |-> total \div count + IF k - 1 < total % count THEN 1 ELSE 0]

ShareAmounts(cost, travelers, report) ==
  CASE cost.split = "everyone" -> EqualParts(SplitTotal(cost, travelers, report), Len(cost.shares))
    [] cost.split = "individuals" -> [k \in DOMAIN cost.shares |-> moneyOrZero(cost.shares[k].amount)]
    [] OTHER -> <<>>

CountedInBalances(cost) == cost.kind # "anchor" /\ cost.day # None /\ cost.paidBy # None /\ cost.split # "none"

\* One entry to a share: who paid it, whose part it is.
Postings(cost, travelers, report) ==
  LET amounts == ShareAmounts(cost, travelers, report)
  IN [k \in DOMAIN amounts |-> [payer |-> cost.paidBy, user |-> cost.shares[k].user, amount |-> amounts[k]]]

\* The members in the order they first appear.
Appearing(postings) ==
  FoldLeft(LAMBDA users, p : LET one == IF Contains(users, p.payer) THEN users ELSE Append(users, p.payer)
                             IN IF Contains(one, p.user) THEN one ELSE Append(one, p.user),
           <<>>, postings)

Balances(postings) ==
  LET amounts(Test(_)) == FoldLeft(LAMBDA sum, p : IF Test(p) THEN sum + p.amount ELSE sum, 0, postings)
      users == Appearing(postings)
  IN [k \in DOMAIN users |-> [user |-> users[k],
                              paid |-> amounts(LAMBDA p : p.payer = users[k]),
                              share |-> amounts(LAMBDA p : p.user = users[k])]]

Net(balance) == balance.paid - balance.share

\* The parties of one side, the largest amount first, then in their order.
Parties(balances, sign) ==
  LET all == [k \in DOMAIN balances |-> [user |-> balances[k].user, amount |-> sign * Net(balances[k]), order |-> k]]
  IN SortSeq(SelectSeq(all, LAMBDA p : p.amount > 0),
             LAMBDA x, y : x.amount > y.amount \/ (x.amount = y.amount /\ x.order < y.order))

\* One payment: whoever is square after it makes way for the next.
Pay(s) ==
  LET debtor == Head(s.debtors)
      creditor == Head(s.creditors)
      amount == Min({debtor.amount, creditor.amount})
      left(parties) == IF Head(parties).amount = amount THEN Tail(parties)
                       ELSE [parties EXCEPT ![1].amount = @ - amount]
  IN [debtors |-> left(s.debtors), creditors |-> left(s.creditors),
      paid |-> Append(s.paid, [from |-> debtor.user, to |-> creditor.user, amount |-> amount])]

settle(balances) ==
  LET start == [debtors |-> Parties(balances, -1), creditors |-> Parties(balances, 1), paid |-> <<>>]
      step(s, k) == IF s.debtors = <<>> \/ s.creditors = <<>> THEN s ELSE Pay(s)
  IN FoldLeft(step, start, balances).paid

BuildBalances(costs, travelers, report) ==
  LET counted == SelectSeq(costs, CountedInBalances)
      balances == Balances(FlattenSeq([k \in DOMAIN counted |-> Postings(counted[k], travelers, report)]))
  IN [balances |-> balances, settlements |-> settle(balances)]
===============================================================================
