---------------------------- MODULE Replay_proofs ----------------------------
(***************************************************************************)
(* Proofs that the replays agree with themselves, for all values of the     *)
(* constants: the two walks of a simulated trade, the backtest's ledger and  *)
(* trades, the sizing study, and the replayed account.                       *)
(***************************************************************************)
EXTENDS Advisor_proofs

-----------------------------------------------------------------------------
(* A trade walked forward.  What the candles leave of the managed one depends *)
(* on the first of them that reached breakeven, and on the last of them.      *)

\* Of the first k candles: one has reached breakeven; none touched the stop in force.
Risen(w, k) == \E j \in 1..k : w[j].best >= 100
Untouched(w, k) == \A i \in 1..k : w[i].worst > (IF Risen(w, i - 1) THEN 0 ELSE -100)

Accounts == [at : Nat, stop : {-100, 0}, remaining : {100, 70}, booked : Int,
             outcome : {"open", "WIN", "LOSS", "BREAKEVEN"}]

StillOpen(a, w, k) ==
  /\ a.outcome = "open" /\ a.at = k /\ Untouched(w, k)
  /\ a.stop = IF Risen(w, k) THEN 0 ELSE -100
  /\ \/ a.remaining = 100 /\ a.booked = 0
     \/ a.remaining = 70 /\ a.booked = 60 /\ \E j \in 1..k : w[j].best >= 200
Lost(a, w, k) ==
  /\ a.outcome # "open" /\ a.at \in 1..k /\ Untouched(w, a.at - 1) /\ ~Risen(w, a.at - 1)
  /\ w[a.at].worst <= -100 /\ a.booked = -100
Evened(a, w, k) ==
  /\ a.outcome # "open" /\ a.at \in 1..k /\ Untouched(w, a.at - 1) /\ Risen(w, a.at - 1)
  /\ a.booked = 0 \/ (a.booked = 60 /\ \E j \in 1..a.at - 1 : w[j].best >= 200)
Earned(a, w, k) ==
  /\ a.outcome # "open" /\ a.at \in 1..k /\ Untouched(w, a.at)
  /\ w[a.at].best >= 300 /\ a.booked = 270

Walked(a, w, k) == a \in Accounts /\ (StillOpen(a, w, k) \/ Lost(a, w, k) \/ Evened(a, w, k) \/ Earned(a, w, k))

LEMMA MovesInR ==
  \A c \in MCMoves : c.best \in Nat /\ c.best <= 300 /\ c.worst \in Int
BY DEF MCMoves

LEMMA AccountsChanged ==
  ASSUME NEW a \in Accounts, NEW x, NEW y, NEW z
  PROVE  [a EXCEPT !.at = x, !.booked = y, !.outcome = z]
         = [at |-> x, stop |-> a.stop, remaining |-> a.remaining, booked |-> y, outcome |-> z]
<1> DEFINE t == a.at
           s == a.stop
           r == a.remaining
           b == a.booked
           o == a.outcome
<1>1. a = [at |-> t, stop |-> s, remaining |-> r, booked |-> b, outcome |-> o]
  BY DEF Accounts
<1> HIDE DEF t, s, r, b, o
<1>2. [a EXCEPT !.at = x, !.booked = y, !.outcome = z] = [[[a EXCEPT !.at = x] EXCEPT !.booked = y] EXCEPT !.outcome = z]
  OBVIOUS
<1>3. [[at |-> t, stop |-> s, remaining |-> r, booked |-> b, outcome |-> o] EXCEPT !.at = x]
      = [at |-> x, stop |-> s, remaining |-> r, booked |-> b, outcome |-> o]
  OBVIOUS
<1>4. [[at |-> x, stop |-> s, remaining |-> r, booked |-> b, outcome |-> o] EXCEPT !.booked = y]
      = [at |-> x, stop |-> s, remaining |-> r, booked |-> y, outcome |-> o]
  OBVIOUS
<1>5. [[at |-> x, stop |-> s, remaining |-> r, booked |-> y, outcome |-> o] EXCEPT !.outcome = z]
      = [at |-> x, stop |-> s, remaining |-> r, booked |-> y, outcome |-> z]
  OBVIOUS
<1>6. [a EXCEPT !.at = x] = [at |-> x, stop |-> s, remaining |-> r, booked |-> b, outcome |-> o]
  BY <1>1, <1>3
<1> QED
  BY <1>2, <1>4, <1>5, <1>6 DEF s, r

\* One candle after an open trade, by whether it touches the stop or the final target.
LEMMA CandleWalked ==
  ASSUME NEW a \in Accounts, NEW c \in MCMoves
  PROVE  LET next == Simulator!ManagedCandle(a, c)
         IN /\ next \in Accounts
            /\ a.outcome # "open" => next = a
            /\ a.outcome = "open" /\ c.worst <= a.stop =>
                 /\ next.at = a.at + 1 /\ next.outcome # "open"
                 /\ next.booked = a.booked + (IF a.stop = 0 THEN 0 ELSE 0 - a.remaining)
            /\ a.outcome = "open" /\ ~(c.worst <= a.stop) =>
                 /\ next.at = a.at + 1
                 /\ next.stop = IF c.best >= 100 THEN 0 ELSE a.stop
                 /\ next.remaining = IF c.best >= 200 THEN 70 ELSE a.remaining
                 /\ c.best < 300 => /\ next.outcome = "open"
                                    /\ next.booked = IF a.remaining = 100 /\ c.best >= 200 THEN a.booked + 60 ELSE a.booked
                 /\ c.best >= 300 => /\ next.outcome # "open"
                                     /\ next.booked = IF a.remaining = 100 THEN a.booked + 270 ELSE a.booked + 210
<1> DEFINE next == Simulator!ManagedCandle(a, c)
<1>1. /\ a.at \in Nat /\ a.stop \in {-100, 0} /\ a.remaining \in {100, 70} /\ a.booked \in Int
      /\ a.outcome \in {"open", "WIN", "LOSS", "BREAKEVEN"}
  BY DEF Accounts
<1>2. c.best \in Nat /\ c.worst \in Int
  BY MovesInR
<1>3. /\ (100 * 0) \div 100 = 0 /\ (70 * 0) \div 100 = 0
      /\ (100 * (-100)) \div 100 = -100 /\ (70 * (-100)) \div 100 = -70
      /\ (30 * 200) \div 100 = 60 /\ (70 * 300) \div 100 = 210
  OBVIOUS
<1>4. CASE a.outcome # "open"
  <2>1. next = a
    BY <1>4 DEF Simulator!ManagedCandle
  <2> QED
    BY <1>4, <2>1
<1>5. CASE a.outcome = "open" /\ c.worst <= a.stop
  <2> DEFINE booked == a.booked + Simulator!Share(a.remaining, a.stop)
             outcome_now == IF a.stop < 0 THEN "LOSS" ELSE IF booked - COST > 0 THEN "WIN" ELSE "BREAKEVEN"
  <2>1. next = [a EXCEPT !.at = a.at + 1, !.booked = booked, !.outcome = outcome_now]
    BY <1>5 DEF Simulator!ManagedCandle
  <2>2. booked = a.booked + (IF a.stop = 0 THEN 0 ELSE 0 - a.remaining)
    <3>1. Simulator!Share(a.remaining, a.stop) = IF a.stop = 0 THEN 0 ELSE 0 - a.remaining
      BY <1>1, <1>3 DEF Simulator!Share
    <3> QED
      BY <3>1
  <2>3. booked \in Int
    BY <1>1, <2>2
  <2>4. outcome_now \in {"WIN", "LOSS", "BREAKEVEN"}
    OBVIOUS
  <2> HIDE DEF booked, outcome_now, next
  <2>5. next = [at |-> a.at + 1, stop |-> a.stop, remaining |-> a.remaining, booked |-> booked, outcome |-> outcome_now]
    BY <2>1, AccountsChanged
  <2>6. next \in Accounts
    BY <1>1, <2>3, <2>4, <2>5 DEF Accounts
  <2>7. next.at = a.at + 1 /\ next.outcome # "open" /\ next.booked = booked
    BY <2>4, <2>5
  <2> QED
    BY <1>5, <2>2, <2>6, <2>7 DEF next
<1>6. CASE a.outcome = "open" /\ ~(c.worst <= a.stop)
  <2> DEFINE partial == a.remaining > 70 /\ c.best >= 200
             booked == IF partial THEN a.booked + 60 ELSE a.booked
             remaining == IF partial THEN a.remaining - 30 ELSE a.remaining
             final == c.best >= 300
             total == IF final THEN booked + Simulator!Share(remaining, 300) ELSE booked
  <2>1. /\ Simulator!Share(30, 200) = 60 /\ 100 - 30 = 70
    BY <1>3 DEF Simulator!Share
  <2>2. next = [at |-> a.at + 1,
                stop |-> IF a.stop < 0 /\ c.best >= 100 THEN 0 ELSE a.stop,
                remaining |-> remaining, booked |-> total,
                outcome |-> IF final THEN "WIN" ELSE "open"]
    BY <1>6, <2>1 DEF Simulator!ManagedCandle, Simulator!PARTIAL_PERCENT, Simulator!PARTIAL_AT,
       Simulator!BREAKEVEN_AT, Simulator!FINAL_TARGET
  <2>3. remaining = IF c.best >= 200 THEN 70 ELSE a.remaining
    BY <1>1
  <2>4. remaining \in {100, 70}
    BY <1>1
  <2>5. final => remaining = 70
    BY <1>1, <1>2
  <2>6. final => total = IF a.remaining = 100 THEN a.booked + 270 ELSE a.booked + 210
    <3> SUFFICES ASSUME final PROVE total = IF a.remaining = 100 THEN a.booked + 270 ELSE a.booked + 210
      OBVIOUS
    <3>1. Simulator!Share(remaining, 300) = 210
      BY <1>3, <2>5 DEF Simulator!Share
    <3>2. booked = IF a.remaining = 100 THEN a.booked + 60 ELSE a.booked
      BY <1>1, <1>2
    <3>3. total = booked + 210
      BY <3>1
    <3> HIDE DEF total, booked
    <3> QED
      BY <1>1, <3>2, <3>3
  <2>7. ~final => total = IF a.remaining = 100 /\ c.best >= 200 THEN a.booked + 60 ELSE a.booked
    BY <1>1
  <2>8. total \in Int
    BY <1>1, <2>6, <2>7
  <2>9. (IF a.stop < 0 /\ c.best >= 100 THEN 0 ELSE a.stop) = IF c.best >= 100 THEN 0 ELSE a.stop
    BY <1>1
  <2> HIDE DEF total, remaining, booked, partial, next
  <2>10. next \in Accounts
    BY <1>1, <2>2, <2>4, <2>8 DEF Accounts
  <2>11. /\ next.at = a.at + 1 /\ next.stop = IF c.best >= 100 THEN 0 ELSE a.stop
         /\ next.remaining = IF c.best >= 200 THEN 70 ELSE a.remaining
         /\ next.booked = total
    BY <2>2, <2>3, <2>9
  <2>12. next.outcome = IF final THEN "WIN" ELSE "open"
    BY <2>2
  <2>13. c.best < 300 <=> ~final
    BY <1>2
  <2> QED
    BY <1>6, <2>6, <2>7, <2>10, <2>11, <2>12, <2>13 DEF next
<1> QED
  BY <1>4, <1>5, <1>6

\* A candle more, after those walked.
LEMMA WalkedOneMore ==
  ASSUME NEW w \in Seq(MCMoves), NEW k \in Nat, k + 1 \in DOMAIN w, NEW a, Walked(a, w, k)
  PROVE  Walked(Simulator!ManagedCandle(a, w[k + 1]), w, k + 1)
<1> DEFINE c == w[k + 1]
           next == Simulator!ManagedCandle(a, c)
<1>1. a \in Accounts /\ c \in MCMoves
  BY DEF Walked
<1>2. c.best \in Nat /\ c.worst \in Int
  BY <1>1, MovesInR
<1>3. /\ next \in Accounts
      /\ a.outcome # "open" => next = a
      /\ a.outcome = "open" /\ c.worst <= a.stop =>
           /\ next.at = a.at + 1 /\ next.outcome # "open"
           /\ next.booked = a.booked + (IF a.stop = 0 THEN 0 ELSE 0 - a.remaining)
      /\ a.outcome = "open" /\ ~(c.worst <= a.stop) =>
           /\ next.at = a.at + 1
           /\ next.stop = IF c.best >= 100 THEN 0 ELSE a.stop
           /\ next.remaining = IF c.best >= 200 THEN 70 ELSE a.remaining
           /\ c.best < 300 => /\ next.outcome = "open"
                              /\ next.booked = IF a.remaining = 100 /\ c.best >= 200 THEN a.booked + 60 ELSE a.booked
           /\ c.best >= 300 => /\ next.outcome # "open"
                               /\ next.booked = IF a.remaining = 100 THEN a.booked + 270 ELSE a.booked + 210
  BY <1>1, CandleWalked
<1> HIDE DEF next
<1>4. k + 1 \in 1..(k + 1) /\ (k + 1) - 1 = k /\ 1..(k + 1) = (1..k) \cup {k + 1} /\ \A i \in 1..k : i \in 1..(k + 1)
  OBVIOUS
<1>5. CASE a.outcome # "open"
  <2>1. next = a
    BY <1>3, <1>5
  <2>2. Lost(a, w, k) => Lost(a, w, k + 1)
    BY <1>4 DEF Lost
  <2>3. Evened(a, w, k) => Evened(a, w, k + 1)
    BY <1>4 DEF Evened
  <2>4. Earned(a, w, k) => Earned(a, w, k + 1)
    BY <1>4 DEF Earned
  <2>5. ~StillOpen(a, w, k)
    BY <1>5 DEF StillOpen
  <2> QED
    BY <2>1, <2>2, <2>3, <2>4, <2>5 DEF Walked, next
<1>6. CASE a.outcome = "open"
  <2>1. StillOpen(a, w, k)
    BY <1>6 DEF Walked, Lost, Evened, Earned
  <2>2. /\ a.at = k /\ Untouched(w, k) /\ a.stop = IF Risen(w, k) THEN 0 ELSE -100
        /\ \/ a.remaining = 100 /\ a.booked = 0
           \/ a.remaining = 70 /\ a.booked = 60 /\ \E j \in 1..k : w[j].best >= 200
    BY <2>1 DEF StillOpen
  <2>3. (\E j \in 1..k : w[j].best >= 200) => Risen(w, k)
    <3>1. \A j \in 1..k : w[j].best \in Nat
      <4> TAKE j \in 1..k
      <4>1. j \in DOMAIN w
        BY <1>4
      <4> QED
        BY <4>1, MovesInR
    <3>2. \A n \in Nat : n >= 200 => n >= 100
      OBVIOUS
    <3> QED
      BY <3>1, <3>2 DEF Risen
  <2>4. CASE c.worst <= a.stop /\ a.stop = 0
    <3>1. Risen(w, k)
      BY <2>2, <2>4
    <3>2. next.at = k + 1 /\ next.outcome # "open" /\ next.booked = a.booked
      <4>1. next.booked = a.booked + 0
        BY <1>3, <1>6, <2>4
      <4>2. a.booked \in Int
        BY <1>1 DEF Accounts
      <4> QED
        BY <1>3, <1>6, <2>2, <2>4, <4>1, <4>2
    <3>3. a.booked = 0 \/ (a.booked = 60 /\ \E j \in 1..k : w[j].best >= 200)
      BY <2>2
    <3>4. Evened(next, w, k + 1)
      BY <1>4, <2>2, <3>1, <3>2, <3>3 DEF Evened
    <3> QED
      BY <1>3, <3>4 DEF Walked, next
  <2>5. CASE c.worst <= a.stop /\ a.stop # 0
    <3>1. ~Risen(w, k) /\ a.stop = -100
      BY <2>2, <2>5
    <3>2. a.remaining = 100 /\ a.booked = 0
      BY <2>2, <2>3, <3>1
    <3>3. next.at = k + 1 /\ next.outcome # "open" /\ next.booked = -100
      BY <1>3, <1>6, <2>2, <2>5, <3>2
    <3>4. Lost(next, w, k + 1)
      BY <1>4, <2>2, <2>5, <3>1, <3>3 DEF Lost
    <3> QED
      BY <1>3, <3>4 DEF Walked, next
  <2>6. CASE ~(c.worst <= a.stop)
    <3>1. Untouched(w, k + 1)
      <4>1. a.stop \in Int /\ c.worst > a.stop
        BY <1>1, <1>2, <2>6 DEF Accounts
      <4>2. w[k + 1].worst > (IF Risen(w, (k + 1) - 1) THEN 0 ELSE -100)
        BY <1>4, <2>2, <4>1
      <4>3. \A i \in 1..k : w[i].worst > (IF Risen(w, i - 1) THEN 0 ELSE -100)
        BY <2>2 DEF Untouched
      <4> QED
        BY <1>4, <4>2, <4>3 DEF Untouched
    <3>2. next.at = k + 1
      BY <1>3, <1>6, <2>2, <2>6
    <3>3. CASE c.best >= 300
      <4>1. next.outcome # "open" /\ next.booked = 270
        BY <1>3, <1>6, <2>2, <2>6, <3>3
      <4>2. Earned(next, w, k + 1)
        BY <1>4, <3>1, <3>2, <3>3, <4>1 DEF Earned
      <4> QED
        BY <1>3, <4>2 DEF Walked, next
    <3>4. CASE ~(c.best >= 300)
      <4>1. c.best < 300
        BY <1>2, <3>4
      <4>2. /\ next.outcome = "open" /\ next.stop = IF c.best >= 100 THEN 0 ELSE a.stop
            /\ next.remaining = IF c.best >= 200 THEN 70 ELSE a.remaining
            /\ next.booked = IF a.remaining = 100 /\ c.best >= 200 THEN a.booked + 60 ELSE a.booked
        BY <1>3, <1>6, <2>6, <4>1
      <4>3. next.stop = IF Risen(w, k + 1) THEN 0 ELSE -100
        <5>1. Risen(w, k + 1) <=> Risen(w, k) \/ c.best >= 100
          BY <1>4 DEF Risen
        <5> QED
          BY <2>2, <4>2, <5>1
      <4>4. \/ next.remaining = 100 /\ next.booked = 0
            \/ next.remaining = 70 /\ next.booked = 60 /\ \E j \in 1..(k + 1) : w[j].best >= 200
        <5>1. CASE c.best >= 200
          <6>1. next.remaining = 70 /\ next.booked = 60
            BY <2>2, <4>2, <5>1
          <6> QED
            BY <1>4, <5>1, <6>1
        <5>2. CASE ~(c.best >= 200)
          <6>1. next.remaining = a.remaining /\ next.booked = a.booked
            BY <4>2, <5>2
          <6> QED
            BY <1>4, <2>2, <6>1
        <5> QED
          BY <5>1, <5>2
      <4>5. StillOpen(next, w, k + 1)
        BY <3>1, <3>2, <4>2, <4>3, <4>4 DEF StillOpen
      <4> QED
        BY <1>3, <4>5 DEF Walked, next
    <3> QED
      BY <3>3, <3>4
  <2> QED
    BY <2>4, <2>5, <2>6
<1> QED
  BY <1>5, <1>6

\* The account a trade is opened with, and the fold over its candles.
Opening == [at |-> 0, stop |-> -100, booked |-> 0, remaining |-> 100, outcome |-> "open"]
WalkFold(g, w) ==
  g = [t \in SUBSET DOMAIN w |->
         IF t = {} THEN Opening
         ELSE Simulator!ManagedCandle(g[t \ {Simulator!Max(t)}], w[Simulator!Max(t)])]

LEMMA OpeningWalked == \A w : Walked(Opening, w, 0)
<1> TAKE w
<1>1. Opening \in Accounts
  BY DEF Opening, Accounts
<1>2. 1..0 = {}
  OBVIOUS
<1>3. StillOpen(Opening, w, 0)
  BY <1>2 DEF StillOpen, Opening, Untouched, Risen
<1> QED
  BY <1>1, <1>3 DEF Walked

LEMMA LastMove ==
  ASSUME NEW n \in Nat, NEW t \in SUBSET (1..n), t # {}
  PROVE  Simulator!Max(t) \in t /\ \A k \in t : k <= Simulator!Max(t)
<1>1. t \in SUBSET Nat /\ \A k \in t : k <= n
  OBVIOUS
<1>2. PICK m \in t : \A k \in t : k <= m
  BY <1>1, GreatestNat
<1>3. \A k \in t : m >= k
  BY <1>1, <1>2
<1>4. Simulator!Max(t) \in t /\ \A k \in t : Simulator!Max(t) >= k
  BY <1>2, <1>3 DEF Simulator!Max
<1> QED
  BY <1>1, <1>4

LEMMA WalkFolds ==
  ASSUME NEW w \in Seq(MCMoves)
  PROVE  Walked((CHOOSE g : WalkFold(g, w))[DOMAIN w], w, Len(w))
<1> DEFINE D == DOMAIN w
           pick == [t \in SUBSET D |-> Simulator!Max(t)]
           next == [p \in D \X Accounts |-> Simulator!ManagedCandle(p[2], w[p[1]])]
           Typed(g) == \A t \in SUBSET D : g[t] \in Accounts
<1>1. /\ D = 1..Len(w) /\ Len(w) \in Nat /\ IsFiniteSet(D)
      /\ \A i \in D : w[i] \in MCMoves
  <2>1. D = 1..Len(w) /\ Len(w) \in Nat /\ \A i \in D : w[i] \in MCMoves
    OBVIOUS
  <2> QED
    BY <2>1, FS_Interval
<1>2. \A t \in SUBSET D : t # {} => pick[t] \in t /\ pick[t] = Simulator!Max(t)
  BY <1>1, LastMove
<1>3. \A i \in D, a \in Accounts : /\ next[<<i, a>>] = Simulator!ManagedCandle(a, w[i])
                                   /\ Simulator!ManagedCandle(a, w[i]) \in Accounts
  BY <1>1, CandleWalked
<1>4. Opening \in Accounts
  BY DEF Opening, Accounts
<1> HIDE DEF pick, next
<1>5. PICK g : Folded(g, Opening, pick, next, D)
  BY <1>1, <1>2, FoldExists
<1>6. ASSUME NEW h, Folded(h, Opening, pick, next, D) \/ WalkFold(h, w) PROVE Typed(h)
  <2> DEFINE wrong == {t \in SUBSET D : h[t] \notin Accounts}
  <2> SUFFICES ASSUME wrong # {} PROVE FALSE
    OBVIOUS
  <2>1. PICK t \in wrong : \A x \in t : t \ {x} \notin wrong
    <3>1. wrong \in SUBSET SUBSET D
      OBVIOUS
    <3> HIDE DEF wrong
    <3> QED
      BY <1>1, <3>1, SmallestSet
  <2>2. t \in SUBSET D /\ h[t] \notin Accounts
    OBVIOUS
  <2>3. t # {}
    <3>1. Folded(h, Opening, pick, next, D) => h[{}] = Opening
      BY DEF Folded
    <3>2. WalkFold(h, w) => h[{}] = Opening
      BY DEF WalkFold
    <3> QED
      BY <1>4, <1>6, <2>2, <3>1, <3>2
  <2>4. /\ pick[t] \in t /\ pick[t] = Simulator!Max(t)
    BY <1>2, <2>2, <2>3
  <2>5. h[t \ {pick[t]}] \in Accounts /\ pick[t] \in D
    BY <2>1, <2>2, <2>4
  <2>6. CASE Folded(h, Opening, pick, next, D)
    <3>1. h[t] = next[<<pick[t], h[t \ {pick[t]}]>>]
      BY <2>2, <2>3, <2>6 DEF Folded
    <3> QED
      BY <1>3, <2>2, <2>5, <3>1
  <2>7. CASE WalkFold(h, w)
    <3>1. h[t] = Simulator!ManagedCandle(h[t \ {Simulator!Max(t)}], w[Simulator!Max(t)])
      BY <2>2, <2>3, <2>7 DEF WalkFold
    <3> QED
      BY <1>3, <2>2, <2>4, <2>5, <3>1
  <2> QED
    BY <1>6, <2>6, <2>7
<1>7. Typed(g)
  BY <1>5, <1>6
<1>8. WalkFold(g, w)
  <2>1. \A t \in SUBSET D : t # {} =>
          next[<<pick[t], g[t \ {pick[t]}]>>]
          = Simulator!ManagedCandle(g[t \ {Simulator!Max(t)}], w[Simulator!Max(t)])
    <3> TAKE t \in SUBSET D
    <3> HAVE t # {}
    <3>1. pick[t] \in t /\ pick[t] = Simulator!Max(t)
      BY <1>2
    <3>2. g[t \ {pick[t]}] \in Accounts /\ pick[t] \in D
      BY <1>7, <3>1
    <3> QED
      BY <1>3, <3>1, <3>2
  <2> QED
    BY <1>5, <2>1 DEF Folded, WalkFold
<1> DEFINE it == CHOOSE h : WalkFold(h, w)
<1>9. WalkFold(it, w)
  BY <1>8
<1> HIDE DEF it
<1>10. \A k \in Nat : k <= Len(w) => Walked(it[1..k], w, k)
  <2> DEFINE bad == {k \in Nat : k <= Len(w) /\ ~Walked(it[1..k], w, k)}
  <2> SUFFICES ASSUME bad # {} PROVE FALSE
    OBVIOUS
  <2>1. PICK m \in bad : \A k \in bad : m <= k
    BY LeastNat
  <2>2. m \in Nat /\ m <= Len(w) /\ ~Walked(it[1..m], w, m)
    OBVIOUS
  <2>3. CASE m = 0
    <3>1. 1..0 = {}
      OBVIOUS
    <3>2. it[{}] = Opening
      BY <1>9 DEF WalkFold
    <3> QED
      BY <2>2, <2>3, <3>1, <3>2, OpeningWalked
  <2>4. CASE m # 0
    <3>1. m - 1 \in Nat /\ ~(m <= m - 1) /\ m - 1 <= Len(w) /\ (m - 1) + 1 = m /\ m \in D
      BY <1>1, <2>2, <2>4
    <3>2. m - 1 \notin bad
      <4> HIDE DEF bad
      <4> QED
        BY <2>1, <3>1
    <3>3. Walked(it[1..(m - 1)], w, m - 1)
      BY <3>1, <3>2
    <3>4. 1..m \in SUBSET D /\ 1..m # {} /\ m \in 1..m /\ \A k \in 1..m : k <= m
      <4>1. m \in 1..m /\ \A k \in 1..m : k <= m
        BY <2>2, <3>1
      <4>2. \A k \in 1..m : k \in 1..Len(w)
        BY <1>1, <2>2
      <4> QED
        BY <1>1, <4>1, <4>2
    <3>5. Simulator!Max(1..m) = m
      <4>1. Simulator!Max(1..m) \in 1..m /\ \A k \in 1..m : k <= Simulator!Max(1..m)
        BY <2>2, <3>4, LastMove
      <4> QED
        BY <3>4, <4>1
    <3>6. (1..m) \ {m} = 1..(m - 1)
      BY <2>2, <3>1
    <3>7. it[1..m] = Simulator!ManagedCandle(it[1..(m - 1)], w[m])
      <4>1. it[1..m] = Simulator!ManagedCandle(it[(1..m) \ {Simulator!Max(1..m)}], w[Simulator!Max(1..m)])
        BY <1>9, <3>4 DEF WalkFold
      <4> QED
        BY <3>5, <3>6, <4>1
    <3>8. Walked(Simulator!ManagedCandle(it[1..(m - 1)], w[(m - 1) + 1]), w, (m - 1) + 1)
      BY <3>1, <3>3, WalkedOneMore
    <3> QED
      BY <2>2, <3>1, <3>7, <3>8
  <2> QED
    BY <2>3, <2>4
<1>11. Walked(it[1..Len(w)], w, Len(w))
  BY <1>1, <1>10
<1> QED
  BY <1>1, <1>11 DEF it

\* What was offered until the end of a trade: the furthest of its candles, or nothing.
LEMMA Offers ==
  ASSUME NEW w \in Seq(MCMoves), NEW n \in Nat, n <= Len(w)
  PROVE  LET offered == Simulator!Max({w[i].best : i \in 1..n} \cup {0})
         IN offered \in Nat /\ \A i \in 1..n : w[i].best <= offered
<1> DEFINE S == {w[i].best : i \in 1..n} \cup {0}
<1>1. \A i \in 1..n : i \in DOMAIN w /\ w[i] \in MCMoves
  OBVIOUS
<1>2. \A i \in 1..n : w[i].best \in Nat /\ w[i].best <= 300
  BY <1>1, MovesInR
<1>3. S \in SUBSET Nat /\ S # {} /\ \A x \in S : x <= 300
  BY <1>2
<1>4. \A i \in 1..n : w[i].best \in S
  OBVIOUS
<1> HIDE DEF S
<1>5. PICK m \in S : \A x \in S : x <= m
  BY <1>3, GreatestNat, ZenonT(40)
<1>6. \A x \in S : m >= x
  BY <1>3, <1>5
<1>7. Simulator!Max(S) \in S /\ \A x \in S : Simulator!Max(S) >= x
  BY <1>5, <1>6 DEF Simulator!Max
<1>8. Simulator!Max(S) \in Nat /\ \A x \in S : x <= Simulator!Max(S)
  BY <1>3, <1>7
<1> QED
  BY <1>4, <1>8 DEF S

\* The managed walk of some candles.
LEMMA ManagedResult ==
  ASSUME NEW w \in Seq(MCMoves)
  PROVE  \E a : /\ Walked(a, w, Len(w))
                /\ Simulator!SimulateManaged(w).gross = a.booked
                /\ Simulator!SimulateManaged(w).exit = IF a.outcome = "open" THEN 0 ELSE a.at
<1> DEFINE it == (CHOOSE g : WalkFold(g, w))[DOMAIN w]
<1>1. Simulator!FoldLeft(Simulator!ManagedCandle, Opening, w) = it
  BY DEF Simulator!FoldLeft, Simulator!MapThenFoldSet, WalkFold
<1>2. Simulator!SimulateManaged(w)
      = IF it.outcome = "open"
        THEN Simulator!Result(IF it.booked - COST > 0 THEN "WIN" ELSE IF it.booked - COST < -5 THEN "LOSS" ELSE "BREAKEVEN",
                              it.booked, 0)
        ELSE Simulator!Result(it.outcome, it.booked, it.at)
  BY <1>1 DEF Simulator!SimulateManaged, Opening
<1> HIDE DEF it
<1>3. /\ Simulator!SimulateManaged(w).gross = it.booked
      /\ Simulator!SimulateManaged(w).exit = IF it.outcome = "open" THEN 0 ELSE it.at
  BY <1>2 DEF Simulator!Result
<1>4. Walked(it, w, Len(w))
  BY WalkFolds DEF it
<1> QED
  BY <1>3, <1>4

\* The plain walk of some candles: the first that touches stop or target.
LEMMA PlainResult ==
  ASSUME NEW w \in Seq(MCMoves)
  PROVE  LET r == Simulator!Simulate(w)
         IN \/ /\ r.outcome = "BREAKEVEN" /\ r.gross = 0
               /\ \A i \in 1..Len(w) : w[i].worst > -100 /\ w[i].best < 100
            \/ /\ r.exit \in 1..Len(w)
               /\ \A i \in 1..r.exit - 1 : w[i].worst > -100 /\ w[i].best < 100
               /\ \/ r.outcome = "LOSS" /\ r.gross = -100 /\ w[r.exit].worst <= -100
                  \/ r.outcome = "WIN" /\ r.gross \in {100, 200, 300} /\ w[r.exit].worst > -100 /\ r.gross <= w[r.exit].best
<1> DEFINE r == Simulator!Simulate(w)
           touching == {i \in DOMAIN w : Simulator!Hit(w[i])}
           exit == Simulator!Min(touching)
<1>1. DOMAIN w = 1..Len(w) /\ Len(w) \in Nat /\ \A i \in DOMAIN w : w[i] \in MCMoves
  OBVIOUS
<1>2. \A i \in DOMAIN w : w[i].best \in Nat /\ w[i].worst \in Int
  BY <1>1, MovesInR
<1>3. \A i \in DOMAIN w : i \notin touching => w[i].worst > -100 /\ w[i].best < 100
  <2> TAKE i \in DOMAIN w
  <2> HAVE i \notin touching
  <2>1. ~(w[i].worst <= -100) /\ ~(w[i].best >= 100)
    BY DEF Simulator!Hit
  <2> QED
    BY <1>2, <2>1
<1>4. CASE w = <<>>
  <2>1. r = Simulator!NoResult
    BY <1>4 DEF Simulator!Simulate
  <2>2. Len(w) = 0 /\ 1..0 = {}
    BY <1>4
  <2> QED
    BY <2>1, <2>2 DEF Simulator!NoResult
<1>5. CASE w # <<>> /\ touching = {}
  <2>1. r = Simulator!Result("BREAKEVEN", 0, 0)
    BY <1>5 DEF Simulator!Simulate
  <2> QED
    BY <1>1, <1>3, <1>5, <2>1 DEF Simulator!Result
<1>6. CASE w # <<>> /\ touching # {}
  <2>1. exit \in touching /\ \A i \in touching : exit <= i
    <3>1. touching \in SUBSET Nat
      BY <1>1
    <3> HIDE DEF touching
    <3>2. PICK m \in touching : \A i \in touching : m <= i
      BY <1>6, <3>1, LeastNat
    <3> QED
      BY <3>2 DEF Simulator!Min
  <2>2. exit \in 1..Len(w) /\ exit \in DOMAIN w
    BY <1>1, <2>1
  <2>3. \A i \in 1..exit - 1 : w[i].worst > -100 /\ w[i].best < 100
    <3> HIDE DEF exit
    <3> TAKE i \in 1..exit - 1
    <3>1. i \in DOMAIN w /\ ~(exit <= i)
      BY <1>1, <2>2
    <3>2. i \notin touching
      BY <2>1, <3>1
    <3> QED
      BY <1>3, <3>1, <3>2
  <2>4. CASE w[exit].worst <= -100
    <3>1. r = Simulator!Result("LOSS", -100, exit)
      BY <1>6, <2>4 DEF Simulator!Simulate
    <3>2. r.outcome = "LOSS" /\ r.gross = -100 /\ r.exit = exit
      BY <3>1 DEF Simulator!Result
    <3> HIDE DEF r, exit
    <3> QED
      BY <2>2, <2>3, <2>4, <3>2 DEF r
  <2>5. CASE ~(w[exit].worst <= -100)
    <3> DEFINE reached == {t \in {100, 200, 300} : t <= w[exit].best}
    <3>1. r = Simulator!Result("WIN", Simulator!Max(reached), exit)
      BY <1>6, <2>5 DEF Simulator!Simulate, Simulator!TargetsInR
    <3>2. r.outcome = "WIN" /\ r.gross = Simulator!Max(reached) /\ r.exit = exit
      BY <3>1 DEF Simulator!Result
    <3>3. w[exit].worst > -100 /\ w[exit].best >= 100
      <4>1. Simulator!Hit(w[exit])
        BY <2>1
      <4> HIDE DEF exit
      <4> QED
        BY <1>2, <2>2, <2>5, <4>1 DEF Simulator!Hit
    <3>4. Simulator!Max(reached) \in reached
      <4>1. reached \in SUBSET Nat /\ (\A t \in reached : t <= 300) /\ 300 \in Nat
        OBVIOUS
      <4>2. 100 \in reached
        <5>1. 100 \in {100, 200, 300} /\ 100 <= w[exit].best
          BY <1>2, <2>2, <3>3
        <5> QED
          BY <5>1
      <4> HIDE DEF reached
      <4>3. PICK m \in reached : \A t \in reached : t <= m
        BY <4>1, <4>2, GreatestNat, ZenonT(40)
      <4>4. \A t \in reached : m >= t
        BY <4>1, <4>3
      <4> QED
        BY <4>3, <4>4 DEF Simulator!Max
    <3>5. r.gross \in {100, 200, 300} /\ r.gross <= w[exit].best
      BY <3>2, <3>4, ZenonT(40)
    <3> HIDE DEF r, exit, reached
    <3> QED
      BY <2>2, <2>3, <3>2, <3>3, <3>5 DEF r
  <2> QED
    BY <2>4, <2>5
<1> QED
  BY <1>4, <1>5, <1>6

\* Two walks of the same candles.
LEMMA WalksAgree ==
  ASSUME window \in Seq(MCMoves), plain = Simulator!Simulate(window), managed = Simulator!SimulateManaged(window)
  PROVE  Simulator!SimulationsAgree
<1> DEFINE n == Len(window)
           end(r) == IF r.exit = 0 THEN Len(window) ELSE r.exit
           offered(r) == Simulator!Max({window[i].best : i \in 1..end(r)} \cup {0})
<1>1. PICK a : /\ Walked(a, window, n)
               /\ managed.gross = a.booked
               /\ managed.exit = IF a.outcome = "open" THEN 0 ELSE a.at
  BY ManagedResult
<1>2. n \in Nat /\ DOMAIN window = 1..n /\ \A i \in 1..n : window[i].best \in Nat /\ window[i].worst \in Int
  BY MovesInR
<1>3. \A i, k \in Nat : i <= k => (Untouched(window, k) => Untouched(window, i))
  BY DEF Untouched
<1>4. \A k \in Nat : k <= n => (Untouched(window, k) => \A i \in 1..k : window[i].worst > -100)
  <2> SUFFICES ASSUME NEW k \in Nat, k <= n, Untouched(window, k), NEW i \in 1..k PROVE window[i].worst > -100
    OBVIOUS
  <2>1. i \in 1..n
    BY <1>2
  <2>2. window[i].worst > (IF Risen(window, i - 1) THEN 0 ELSE -100)
    BY DEF Untouched
  <2> QED
    BY <1>2, <2>1, <2>2
<1> HIDE DEF n
\* What the plain walk loses.
<1>5. plain.outcome = "LOSS" => /\ plain.exit \in 1..n /\ window[plain.exit].worst <= -100
                                /\ \A i \in 1..plain.exit - 1 : window[i].worst > -100 /\ window[i].best < 100
  BY PlainResult DEF n
<1>6. ASSUME plain.outcome = "LOSS" PROVE Lost(a, window, n) /\ a.at = plain.exit
  <2> DEFINE e == plain.exit
  <2>1. e \in 1..n /\ window[e].worst <= -100 /\ \A i \in 1..e - 1 : window[i].worst > -100 /\ window[i].best < 100
    BY <1>5, <1>6
  <2> HIDE DEF e
  <2>2. window[e].worst \in Int /\ ~(window[e].worst > -100)
    BY <1>2, <2>1
  <2>3. ~StillOpen(a, window, n)
    <3> SUFFICES ASSUME StillOpen(a, window, n) PROVE FALSE
      OBVIOUS
    <3>1. Untouched(window, n) /\ n <= n
      BY <1>2 DEF StillOpen
    <3> QED
      BY <1>2, <1>4, <2>1, <2>2, <3>1
  <2>4. \A k \in Nat : k <= n /\ Untouched(window, k) => k < e
    <3> SUFFICES ASSUME NEW k \in Nat, k <= n, Untouched(window, k), ~(k < e) PROVE FALSE
      OBVIOUS
    <3>1. e \in 1..k
      BY <1>2, <2>1
    <3> QED
      BY <1>4, <2>2, <3>1
  <2>5. ~Earned(a, window, n)
    <3> SUFFICES ASSUME Earned(a, window, n) PROVE FALSE
      OBVIOUS
    <3>1. a.at \in 1..n /\ Untouched(window, a.at) /\ window[a.at].best >= 300
      BY DEF Earned
    <3>2. a.at < e /\ a.at \in 1..e - 1
      BY <1>2, <2>1, <2>4, <3>1
    <3>3. window[a.at].best < 100 /\ window[a.at].best \in Nat
      BY <1>2, <2>1, <3>1, <3>2
    <3> QED
      BY <3>1, <3>3
  <2>6. \A k \in 0..e - 1 : ~Risen(window, k)
    <3> SUFFICES ASSUME NEW k \in 0..e - 1, NEW j \in 1..k, window[j].best >= 100 PROVE FALSE
      BY DEF Risen
    <3>1. j \in 1..e - 1 /\ j \in 1..n
      BY <1>2, <2>1
    <3>2. window[j].best < 100 /\ window[j].best \in Nat
      BY <1>2, <2>1, <3>1
    <3> QED
      BY <3>2
  <2>7. ~Evened(a, window, n)
    <3> SUFFICES ASSUME Evened(a, window, n) PROVE FALSE
      OBVIOUS
    <3>1. a.at \in 1..n /\ Untouched(window, a.at - 1) /\ Risen(window, a.at - 1)
      BY DEF Evened
    <3>2. a.at - 1 \in Nat /\ a.at - 1 <= n
      BY <1>2, <3>1
    <3>3. a.at - 1 \in 0..e - 1
      BY <1>2, <2>1, <2>4, <3>1, <3>2
    <3> QED
      BY <2>6, <3>1, <3>3
  <2>8. Lost(a, window, n)
    BY <1>1, <2>3, <2>5, <2>7 DEF Walked
  <2>9. a.at \in 1..n /\ Untouched(window, a.at - 1) /\ window[a.at].worst <= -100
    BY <2>8 DEF Lost
  <2>10. a.at - 1 < e
    BY <1>2, <2>4, <2>9
  <2>11. ~(a.at < e)
    <3> SUFFICES ASSUME a.at < e PROVE FALSE
      OBVIOUS
    <3>1. a.at \in 1..e - 1
      BY <1>2, <2>1, <2>9
    <3>2. window[a.at].worst > -100 /\ window[a.at].worst \in Int
      BY <1>2, <2>1, <2>9, <3>1
    <3> QED
      BY <2>9, <3>2
  <2>12. a.at = e
    BY <1>2, <2>1, <2>9, <2>10, <2>11
  <2> QED
    BY <2>8, <2>12 DEF e
\* What the managed one books.
<1>7. a.booked \in {-100, 0, 60, 270} /\ (a.booked = -100 => Lost(a, window, n))
  <2>1. CASE StillOpen(a, window, n)
    BY <2>1 DEF StillOpen
  <2>2. CASE Lost(a, window, n)
    BY <2>2 DEF Lost
  <2>3. CASE Evened(a, window, n)
    BY <2>3 DEF Evened
  <2>4. CASE Earned(a, window, n)
    BY <2>4 DEF Earned
  <2> QED
    BY <1>1, <2>1, <2>2, <2>3, <2>4 DEF Walked
<1>8. ASSUME Lost(a, window, n) PROVE plain.outcome = "LOSS"
  <2>1. /\ a.at \in 1..n /\ Untouched(window, a.at - 1) /\ ~Risen(window, a.at - 1) /\ window[a.at].worst <= -100
    BY <1>8 DEF Lost
  <2>2. a.at - 1 \in Nat /\ a.at - 1 <= n
    BY <1>2, <2>1
  <2>3. \A i \in 1..a.at - 1 : window[i].worst > -100 /\ window[i].best < 100
    <3> TAKE i \in 1..a.at - 1
    <3>1. i \in 1..n
      BY <1>2, <2>1
    <3>2. window[i].worst > -100
      BY <1>4, <2>1, <2>2
    <3>3. ~(window[i].best >= 100)
      BY <2>1 DEF Risen
    <3> QED
      BY <1>2, <3>1, <3>2, <3>3
  <2>4. window[a.at].worst \in Int /\ ~(window[a.at].worst > -100)
    BY <1>2, <2>1
  <2>5. CASE \A i \in 1..n : window[i].worst > -100 /\ window[i].best < 100
    BY <2>1, <2>4, <2>5
  <2>6. CASE /\ plain.exit \in 1..n
             /\ \A i \in 1..plain.exit - 1 : window[i].worst > -100 /\ window[i].best < 100
             /\ plain.outcome = "WIN" /\ plain.gross \in {100, 200, 300} /\ window[plain.exit].worst > -100
             /\ plain.gross <= window[plain.exit].best
    <3> DEFINE e == plain.exit
    <3>1. e \in 1..n /\ window[e].best \in Nat /\ ~(window[e].best < 100)
      BY <1>2, <2>6
    <3>2. ~(e < a.at)
      <4> SUFFICES ASSUME e < a.at PROVE FALSE
        OBVIOUS
      <4>1. e \in 1..a.at - 1
        BY <1>2, <2>1, <3>1
      <4> QED
        BY <2>3, <3>1, <4>1
    <3>3. ~(a.at < e)
      <4> SUFFICES ASSUME a.at < e PROVE FALSE
        OBVIOUS
      <4>1. a.at \in 1..e - 1
        BY <1>2, <2>1, <3>1
      <4> QED
        BY <2>4, <2>6, <4>1
    <3>4. a.at = e
      BY <1>2, <2>1, <3>1, <3>2, <3>3
    <3> QED
      BY <2>4, <2>6, <3>4
  <2>7. CASE plain.outcome = "LOSS"
    BY <2>7
  <2> QED
    BY <2>5, <2>6, <2>7, PlainResult DEF n
\* Until its end.
<1>9. \A r \in {plain, managed} : end(r) \in Nat /\ end(r) <= n
  <2>1. plain.exit = 0 \/ plain.exit \in 1..n
    <3>1. plain.outcome = "BREAKEVEN" => plain.exit = 0
      BY DEF Simulator!Simulate, Simulator!Result, Simulator!NoResult
    <3> QED
      BY <3>1, PlainResult DEF n
  <2>2. managed.exit = 0 \/ managed.exit \in 1..n
    BY <1>1 DEF Walked, StillOpen, Lost, Evened, Earned
  <2>3. \A r : r.exit = 0 \/ r.exit \in 1..n => end(r) \in Nat /\ end(r) <= n
    BY <1>2 DEF n
  <2> HIDE DEF end
  <2> QED
    BY <2>1, <2>2, <2>3
<1>10. \A r \in {plain, managed} : offered(r) \in Nat /\ \A i \in 1..end(r) : window[i].best <= offered(r)
  <2> HIDE DEF end
  <2>1. ASSUME NEW r \in {plain, managed}
        PROVE  offered(r) \in Nat /\ \A i \in 1..end(r) : window[i].best <= offered(r)
    BY <1>9, Offers DEF n
  <2> QED
    BY <2>1
<1>11. plain.gross <= offered(plain)
  <2>1. offered(plain) \in Nat /\ \A i \in 1..end(plain) : window[i].best <= offered(plain)
    BY <1>10
  <2> HIDE DEF offered
  <2>2. CASE plain.gross \in {0, -100}
    BY <2>1, <2>2
  <2>3. CASE plain.exit \in 1..n /\ plain.gross \in {100, 200, 300} /\ plain.gross <= window[plain.exit].best
    <3>1. end(plain) = plain.exit /\ plain.exit \in 1..end(plain) /\ window[plain.exit].best \in Nat
      BY <1>2, <2>3
    <3>2. window[plain.exit].best <= offered(plain)
      BY <2>1, <3>1
    <3> QED
      BY <2>1, <2>3, <3>1, <3>2
  <2> QED
    BY <2>2, <2>3, PlainResult DEF n
<1>12. managed.gross <= offered(managed)
  <2>1. offered(managed) \in Nat /\ \A i \in 1..end(managed) : window[i].best <= offered(managed)
    BY <1>10
  <2>2. end(managed) = IF a.outcome = "open" THEN n ELSE a.at
    <3>1. a.outcome # "open" => a.at \in 1..n
      BY <1>1 DEF Walked, StillOpen, Lost, Evened, Earned
    <3>2. a.outcome # "open" => a.at # 0
      BY <1>2, <3>1
    <3> QED
      BY <1>1, <3>2 DEF n
  <2>3. a.booked \in {0, -100} \/ \E j \in 1..end(managed) : window[j].best >= a.booked
    <3> HIDE DEF end
    <3>1. CASE StillOpen(a, window, n)
      <4>1. end(managed) = n /\ (a.booked = 0 \/ (a.booked = 60 /\ \E j \in 1..n : window[j].best >= 200))
        BY <2>2, <3>1 DEF StillOpen
      <4>2. \A j \in 1..n : window[j].best >= 200 => window[j].best >= 60
        BY <1>2
      <4> QED
        BY <4>1, <4>2
    <3>2. CASE Lost(a, window, n)
      BY <3>2 DEF Lost
    <3>3. CASE Evened(a, window, n)
      <4>1. /\ end(managed) = a.at /\ a.at \in 1..n
            /\ a.booked = 0 \/ (a.booked = 60 /\ \E j \in 1..a.at - 1 : window[j].best >= 200)
        BY <2>2, <3>3 DEF Evened
      <4>2. \A j \in 1..a.at - 1 : j \in 1..a.at /\ j \in 1..n
        BY <1>2, <4>1
      <4>3. \A j \in 1..n : window[j].best >= 200 => window[j].best >= 60
        BY <1>2
      <4> QED
        BY <4>1, <4>2, <4>3
    <3>4. CASE Earned(a, window, n)
      <4>1. end(managed) = a.at /\ a.at \in 1..n /\ window[a.at].best >= 300 /\ a.booked = 270
        BY <2>2, <3>4 DEF Earned
      <4>2. a.at \in 1..a.at /\ (window[a.at].best >= 300 => window[a.at].best >= 270)
        BY <1>2, <4>1
      <4> QED
        BY <4>1, <4>2
    <3> QED
      BY <1>1, <3>1, <3>2, <3>3, <3>4 DEF Walked
  <2>4. end(managed) \in Nat /\ end(managed) <= n
    BY <1>9
  <2> HIDE DEF offered, end
  <2>5. CASE a.booked \in {0, -100}
    BY <1>1, <2>1, <2>5
  <2>6. CASE \E j \in 1..end(managed) : window[j].best >= a.booked
    <3>1. PICK j \in 1..end(managed) : window[j].best >= a.booked
      BY <2>6
    <3>2. j \in 1..n
      BY <1>2, <2>4
    <3>3. window[j].best \in Nat /\ window[j].best <= offered(managed) /\ a.booked \in Int
      BY <1>2, <1>7, <2>1, <3>2
    <3> QED
      BY <1>1, <2>1, <3>1, <3>3
  <2> QED
    BY <2>3, <2>5, <2>6
<1>13. \A i \in 1..end(managed) - 1 : window[i].worst > (IF Risen(window, i - 1) THEN 0 ELSE -100)
  <2>1. a.outcome # "open" => a.at \in 1..n
    BY <1>1 DEF Walked, StillOpen, Lost, Evened, Earned
  <2>2. end(managed) = IF a.outcome = "open" THEN n ELSE a.at
    BY <1>1, <1>2, <2>1 DEF n
  <2>3. end(managed) - 1 <= n /\ (a.outcome = "open" => Untouched(window, n))
        /\ (a.outcome # "open" => Untouched(window, a.at - 1))
    <3>1. a.outcome = "open" => Untouched(window, n)
      BY <1>1 DEF Walked, StillOpen, Lost, Evened, Earned
    <3>2. Earned(a, window, n) => Untouched(window, a.at - 1)
      <4> SUFFICES ASSUME Earned(a, window, n) PROVE Untouched(window, a.at - 1)
        OBVIOUS
      <4>1. a.at \in 1..n /\ Untouched(window, a.at)
        BY DEF Earned
      <4>2. a.at \in Nat /\ a.at - 1 \in Nat /\ a.at - 1 <= a.at
        BY <1>2, <4>1
      <4> QED
        BY <1>3, <4>1, <4>2
    <3>3. a.outcome # "open" => Untouched(window, a.at - 1)
      <4>1. Lost(a, window, n) => Untouched(window, a.at - 1)
        BY DEF Lost
      <4>2. Evened(a, window, n) => Untouched(window, a.at - 1)
        BY DEF Evened
      <4>3. StillOpen(a, window, n) => a.outcome = "open"
        BY DEF StillOpen
      <4> QED
        BY <1>1, <3>2, <4>1, <4>2, <4>3 DEF Walked
    <3>4. end(managed) - 1 <= n
      BY <1>2, <2>1, <2>2
    <3> QED
      BY <3>1, <3>3, <3>4
  <2>4. \A i \in 1..n - 1 : i \in 1..n
    BY <1>2
  <2> HIDE DEF end
  <2>5. CASE a.outcome = "open"
    BY <2>2, <2>3, <2>4, <2>5 DEF Untouched
  <2>6. CASE a.outcome # "open"
    BY <2>2, <2>3, <2>6 DEF Untouched
  <2> QED
    BY <2>5, <2>6
<1>14. plain.outcome = "LOSS" <=> managed.gross = -100
  BY <1>1, <1>6, <1>7, <1>8 DEF Lost
<1>15. plain.outcome = "LOSS" => managed.exit = plain.exit
  BY <1>1, <1>6 DEF Lost
<1>16. plain.outcome = "WIN" => managed.gross >= 0
  BY <1>1, <1>7, <1>14
<1> HIDE DEF end
<1>17. \A r \in {plain, managed} : r.gross <= offered(r)
  BY <1>11, <1>12
<1> QED
  BY <1>13, <1>14, <1>15, <1>16, <1>17 DEF Simulator!SimulationsAgree, Simulator!BREAKEVEN_AT, Risen, end

\* What runs has walked its candles both ways.
SimulatorKept ==
  part = "simulator" =>
    /\ window \in Seq(MCMoves)
    /\ \/ plain = Simulator!NoResult /\ managed = Simulator!NoResult /\ window = <<>>
       \/ plain = Simulator!Simulate(window) /\ managed = Simulator!SimulateManaged(window)

LEMMA SimulatorFrame ==
  [MCNext]_mc_vars => /\ part' = part
                      /\ (part = "simulator" /\ Simulator!WalkForward) \/ UNCHANGED simulator_vars
BY DEF MCNext, mc_vars, replay_vars, Watching, Deciding, Replaying, Limiting, simulator_vars

LEMMA SimulatorSteps == SimulatorKept /\ [MCNext]_mc_vars => SimulatorKept'
<1> SUFFICES ASSUME SimulatorKept, [MCNext]_mc_vars, part' = "simulator" PROVE SimulatorKept'
  BY DEF SimulatorKept
<1>1. part = "simulator" /\ (Simulator!WalkForward \/ UNCHANGED simulator_vars)
  BY SimulatorFrame
<1>2. CASE UNCHANGED simulator_vars
  BY <1>1, <1>2 DEF simulator_vars, SimulatorKept
<1>3. CASE Simulator!WalkForward
  <2>1. PICK c \in MCMoves : window' = Append(window, c)
    BY <1>3 DEF Simulator!WalkForward
  <2>2. window' \in Seq(MCMoves)
    BY <1>1, <2>1 DEF SimulatorKept
  <2>3. plain' = Simulator!Simulate(window') /\ managed' = Simulator!SimulateManaged(window')
    BY <1>3 DEF Simulator!WalkForward
  <2> QED
    BY <2>2, <2>3 DEF SimulatorKept
<1> QED
  BY <1>1, <1>2, <1>3

\* Before the first candle there is nothing to disagree about.
LEMMA NothingWalked ==
  ASSUME plain = Simulator!NoResult, managed = Simulator!NoResult, window = <<>>
  PROVE  Simulator!SimulationsAgree
<1>1. /\ plain.outcome = "BREAKEVEN" /\ plain.gross = 0 /\ plain.exit = 0
      /\ managed.outcome = "BREAKEVEN" /\ managed.gross = 0 /\ managed.exit = 0 /\ Len(window) = 0
  BY DEF Simulator!NoResult
<1>2. 1..0 = {} /\ 1..(0 - 1) = {}
  OBVIOUS
<1>3. Simulator!Max({window[i].best : i \in 1..0} \cup {0}) = 0
  <2>1. {window[i].best : i \in 1..0} \cup {0} = {0}
    BY <1>2
  <2> QED
    BY <2>1 DEF Simulator!Max
<1> QED
  BY <1>1, <1>2, <1>3, SMTT(30) DEF Simulator!SimulationsAgree

LEMMA SimulatorAgrees == SimulatorKept => (part = "simulator" => Simulator!SimulationsAgree)
BY WalksAgree, NothingWalked DEF SimulatorKept

LEMMA SimulatorStarts == MCInit => SimulatorKept
<1> SUFFICES ASSUME MCInit PROVE SimulatorKept
  OBVIOUS
<1>1. window = <<>> /\ plain = Simulator!NoResult /\ managed = Simulator!NoResult
  BY DEF MCInit, Simulator!SimulatorInit
<1>2. window \in Seq(MCMoves)
  BY <1>1
<1> QED
  BY <1>1, <1>2 DEF SimulatorKept

-----------------------------------------------------------------------------
(* The backtest.  What is booked of a candidate depends on the session, on    *)
(* the breakout and on the symbol only, so its verdicts are worked out once.  *)

LEMMA IndexRun ==
  ASSUME NEW clock \in {810, 825, 840, 855, 900}
  PROVE  LET zone == Backtest!Killzone("US30", clock)
         IN /\ clock < 840 => zone.name = "new_york_open" /\ zone.quality = 10 /\ zone.valid
            /\ clock >= 840 /\ clock < 900 =>
                 zone.name = "new_york_continuation" /\ zone.quality = 7 /\ zone.valid
            /\ clock = 900 => ~zone.valid
<1> DEFINE K == Backtest!Killzones
           open == {i \in DOMAIN K : "US30" \in K[i].symbols /\ Backtest!InWindow(clock, K[i].start, K[i].end)}
<1>1. /\ DOMAIN K = 1..5
      /\ K[1].symbols = Backtest!Majors /\ K[2].symbols = Backtest!Majors
      /\ K[3].symbols = Backtest!Everywhere /\ K[4].symbols = Backtest!Everywhere /\ K[5].symbols = Backtest!Everywhere
      /\ K[3].start = 750 /\ K[3].end = 840 /\ K[4].start = 840 /\ K[4].end = 900
      /\ K[5].start = 900 /\ K[5].end = 1379
      /\ K[3].name = "new_york_open" /\ K[3].quality = 10
      /\ K[4].name = "new_york_continuation" /\ K[4].quality = 7 /\ K[5].quality = 0
  BY DEF Backtest!Killzones, Backtest!Hhmm
<1>2. "US30" \notin Backtest!Majors /\ "US30" \in Backtest!Everywhere
  BY DEF Backtest!Majors, Backtest!Everywhere
<1> DEFINE slot == IF clock < 840 THEN 3 ELSE IF clock < 900 THEN 4 ELSE 5
<1>3. open = {slot}
  <2>0. \A i \in 1..5 : i = 1 \/ i = 2 \/ i = 3 \/ i = 4 \/ i = 5
    OBVIOUS
  <2> HIDE DEF K
  <2>1. \A i \in 1..5 : i \in open <=> i = slot
    BY <1>1, <1>2, <2>0 DEF Backtest!InWindow
  <2>2. (\A i \in open : i \in 1..5) /\ slot \in 1..5
    BY <1>1
  <2> HIDE DEF open, slot
  <2>3. ASSUME NEW i PROVE i \in open <=> i \in {slot}
    <3>1. CASE i \in 1..5
      BY <2>1, <3>1
    <3>2. CASE i \notin 1..5
      BY <2>2, <3>2
    <3> QED
      BY <3>1, <3>2
  <2> QED
    BY <2>3
<1>4. Backtest!Min({slot}) = slot
  <2>1. slot \in Int
    OBVIOUS
  <2> HIDE DEF slot
  <2>2. \A x \in {slot} : (x \in {slot} /\ \A y \in {slot} : x <= y) <=> x = slot
    BY <2>1
  <2> QED
    BY <2>1, <2>2 DEF Backtest!Min
<1>5. Backtest!FindActive("US30", clock) = [name |-> K[slot].name, quality |-> K[slot].quality]
  <2>1. Backtest!FindActive("US30", clock)
        = IF open = {} THEN Backtest!NoKillzone
          ELSE [name |-> K[Backtest!Min(open)].name, quality |-> K[Backtest!Min(open)].quality]
    BY DEF Backtest!FindActive
  <2> HIDE DEF open, K, slot
  <2> QED
    BY <1>3, <1>4, <2>1
<1>6. Backtest!Killzone("US30", clock)
      = [name |-> K[slot].name, quality |-> K[slot].quality, valid |-> K[slot].quality > 0]
  <2> HIDE DEF K, slot
  <2>1. Backtest!FindActive("US30", clock).name = K[slot].name /\ Backtest!FindActive("US30", clock).quality = K[slot].quality
    BY <1>5
  <2> QED
    BY <2>1 DEF Backtest!Killzone
<1> DEFINE zone == Backtest!Killzone("US30", clock)
<1>7. zone.name = K[slot].name /\ zone.quality = K[slot].quality /\ zone.valid = (K[slot].quality > 0)
  <2> HIDE DEF K, slot
  <2> QED
    BY <1>6
<1> HIDE DEF K, open, zone
<1>8. /\ clock < 840 => slot = 3
      /\ clock >= 840 /\ clock < 900 => slot = 4
      /\ clock = 900 => slot = 5
  OBVIOUS
<1> HIDE DEF slot
<1> DEFINE counts == K[slot].quality > 0
<1>9. /\ clock < 840 => K[slot].name = "new_york_open" /\ K[slot].quality = 10 /\ counts
      /\ clock >= 840 /\ clock < 900 => K[slot].name = "new_york_continuation" /\ K[slot].quality = 7 /\ counts
      /\ clock = 900 => ~counts
  BY <1>1, <1>8
<1>10. zone.valid = counts
  BY <1>7
<1> HIDE DEF counts
<1>11. /\ clock < 840 => zone.name = "new_york_open" /\ zone.quality = 10 /\ zone.valid
       /\ clock >= 840 /\ clock < 900 => zone.name = "new_york_continuation" /\ zone.quality = 7 /\ zone.valid
       /\ clock = 900 => ~zone.valid
  BY <1>7, <1>9, <1>10
<1> QED
  BY <1>11 DEF zone

\* What the brain makes up scores.
LEMMA MadeUpReading ==
  ASSUME NEW b \in Backtest!Breakouts
  PROVE  LET r == Backtest!HistoricalReading(b)
         IN /\ Backtest!Direction(r) = b.direction /\ b.direction \in {"bullish", "bearish"}
            /\ r.daily = b.direction /\ r.h4 = b.direction /\ r.sweep # "none" /\ r.mss
            /\ r.fvg.grade = (IF b.ratio >= 150 THEN "A" ELSE "B")
            /\ r.above # "none" \/ r.below # "none"
            /\ r.smt = "none" /\ Backtest!IctRejections(r) = {}
            /\ b.ratio \in Nat
<1> DEFINE r == Backtest!HistoricalReading(b)
<1>1. b.direction \in {"bullish", "bearish"} /\ b.ratio \in Nat
  BY ReplayAssumption DEF Backtest!Breakouts, Backtest!Directions
<1>2. /\ r.daily = b.direction /\ r.h4 = b.direction /\ r.mss /\ r.smt = "none" /\ r.order_block /\ r.returned
      /\ r.fvg.grade = (IF b.ratio >= 150 THEN "A" ELSE "B") /\ r.fvg.detected /\ r.fvg.direction = b.direction
      /\ r.ict_sweep = (IF b.direction = "bullish" THEN "sell_side" ELSE "buy_side")
      /\ r.sweep = (IF b.direction = "bullish" THEN "sell_side" ELSE "buy_side")
      /\ r.zone = (IF b.direction = "bullish" THEN "discount" ELSE "premium")
      /\ r.above = (IF b.direction = "bullish" THEN "internal" ELSE "none")
      /\ r.below = (IF b.direction = "bullish" THEN "none" ELSE "internal")
  BY DEF Backtest!HistoricalReading
<1> HIDE DEF r
<1>3. Backtest!MssDirection(r) = b.direction
  BY <1>1, <1>2 DEF Backtest!MssDirection, Backtest!ExpectedMssDirection
<1>4. Backtest!Direction(r) = b.direction
  BY <1>1, <1>3 DEF Backtest!Direction, Backtest!Directions
<1>5. Backtest!IctRejections(r) = {}
  <2>1. r.zone = (IF Backtest!MssDirection(r) = "bullish" THEN "discount" ELSE "premium")
    BY <1>2, <1>3
  <2> QED
    BY <1>2, <1>3, <2>1 DEF Backtest!IctRejections
<1> QED
  BY <1>1, <1>2, <1>4, <1>5 DEF r

LEMMA IndexTotal ==
  ASSUME NEW b \in Backtest!Breakouts, NEW zone, zone.quality \in {7, 10}
  PROVE  Backtest!TotalConfidence("US30", zone, Backtest!HistoricalReading(b))
         = (IF b.ratio >= 150 THEN 95 ELSE 91) + (IF zone.quality = 10 THEN 5 ELSE 4)
<1> DEFINE r == Backtest!HistoricalReading(b)
<1>1. /\ Backtest!Direction(r) = b.direction /\ b.direction \in {"bullish", "bearish"}
      /\ r.daily = b.direction /\ r.h4 = b.direction /\ r.sweep # "none" /\ r.mss
      /\ r.fvg.grade = (IF b.ratio >= 150 THEN "A" ELSE "B")
      /\ r.above # "none" \/ r.below # "none"
      /\ r.smt = "none"
  BY MadeUpReading
<1> HIDE DEF r
<1>2. Backtest!FvgQuality(r.fvg) = IF b.ratio >= 150 THEN 15 ELSE 11
  BY <1>1 DEF Backtest!FvgQuality
<1>3. Backtest!SessionQuality(zone) = IF zone.quality = 10 THEN 5 ELSE 4
  BY DEF Backtest!SessionQuality
<1>4. Backtest!ScoreSmt("US30", r) = 0
  BY <1>1 DEF Backtest!ScoreSmt, Backtest!SmtDetected
<1>5. /\ Backtest!Worth(15, r.daily = Backtest!Direction(r)) = 15
      /\ Backtest!Worth(20, r.h4 = Backtest!Direction(r)) = 20
      /\ Backtest!Worth(20, r.sweep # "none") = 20 /\ Backtest!Worth(20, r.mss) = 20
      /\ Backtest!Worth(5, Backtest!ClearTarget(r)) = 5
  BY <1>1 DEF Backtest!Worth, Backtest!ClearTarget
<1>6. Backtest!TotalConfidence("US30", zone, r)
      = Backtest!ClampScore(15 + 20 + 20 + 20 + (IF b.ratio >= 150 THEN 15 ELSE 11)
                            + (IF zone.quality = 10 THEN 5 ELSE 4) + 5 + 0)
  BY <1>2, <1>3, <1>4, <1>5 DEF Backtest!TotalConfidence
<1> QED
  BY <1>6 DEF Backtest!ClampScore, r

\* What the older guardrail admits the adaptive one admits, and what it admits
\* in the replay it admits live, but for a range.
NoLaxerOn(b, zone) ==
  LET d == Backtest!BrainDecision("US30", zone, b)
      live_pass == Backtest!Guardrail("US30", d.confidence, zone,
                                      [detected |-> FALSE, available |-> TRUE], d.phase, FALSE, FALSE).pass
  IN /\ ~d.blocked /\ (d.hard => d.adaptive)
     /\ live_pass => d.adaptive
     /\ d.adaptive /\ ~live_pass => d.phase = "range"

LEMMA IndexVerdicts ==
  ASSUME NEW b \in Backtest!Breakouts, NEW clock \in {810, 825, 840, 855},
         NEW zone, zone = Backtest!Killzone("US30", clock)
  PROVE  NoLaxerOn(b, zone)
<1>1. /\ clock < 840 => zone.name = "new_york_open" /\ zone.quality = 10 /\ zone.valid
      /\ clock >= 840 => zone.name = "new_york_continuation" /\ zone.quality = 7 /\ zone.valid
  BY IndexRun
<1>2. zone.quality \in {7, 10}
  BY <1>1
<1> DEFINE r == Backtest!HistoricalReading(b)
           total == Backtest!TotalConfidence("US30", zone, r)
           course == Backtest!ClassifyNarrativePhase(b.direction, zone, b.ratio)
           looked == [detected |-> FALSE, available |-> TRUE]
           adjusted == Backtest!AdjustedConfidence("US30", total, zone, Backtest!NotLooked, course)
           adjusted_live == Backtest!AdjustedConfidence("US30", total, zone, looked, course)
<1>3. total = (IF b.ratio >= 150 THEN 95 ELSE 91) + (IF zone.quality = 10 THEN 5 ELSE 4)
  BY <1>2, IndexTotal
<1>4. /\ Backtest!Direction(r) = b.direction /\ b.direction \in {"bullish", "bearish"}
      /\ Backtest!IctRejections(r) = {} /\ b.ratio \in Nat
  BY MadeUpReading
<1> DEFINE d == Backtest!BrainDecision("US30", zone, b)
<1>5. /\ d.confidence = total /\ d.phase = course
      /\ d.blocked = Backtest!HardRejected("US30", zone, r, "none", total)
      /\ d.adaptive = Backtest!Guardrail("US30", total, zone, Backtest!NotLooked, course, FALSE, FALSE).pass
      /\ d.hard = Backtest!HardGuardrail("US30", total, zone, Backtest!NotLooked, course).pass
  BY DEF Backtest!BrainDecision
<1> HIDE DEF d, r, total
<1>6. ~d.blocked
  <2>1. ~("US30" \in Backtest!ForexSymbols) /\ Backtest!MinimumConfidence("US30") = 90
    BY DEF Backtest!ForexSymbols, Backtest!MinimumConfidence
  <2>2. ~Backtest!ForexRejected("US30", r)
    BY <2>1 DEF Backtest!ForexRejected
  <2>3. ~(total < 90) /\ zone.valid /\ Backtest!Direction(r) # "none"
    BY <1>1, <1>2, <1>3, <1>4
  <2> QED
    BY <1>4, <1>5, <2>1, <2>2, <2>3 DEF Backtest!HardRejected
<1>7. /\ course \in {"range", "distribution", "expansion", "reversal"}
      /\ clock < 840 => course # "distribution"
      /\ course = "expansion" /\ clock < 840 => b.ratio >= 150
      /\ course = "range" /\ clock < 840 => b.ratio < 110
      /\ course = "range" => b.ratio < 150
  BY <1>1, <1>4 DEF Backtest!ClassifyNarrativePhase
<1> HIDE DEF course
<1>8. /\ Backtest!NotLooked.detected = FALSE /\ Backtest!NotLooked.available = FALSE
      /\ looked.detected = FALSE /\ looked.available = TRUE
  BY DEF Backtest!NotLooked
<1> HIDE DEF looked
<1>9. /\ ~Backtest!SymbolBlocked("US30") /\ Backtest!MinimumExecutionConfidence("US30") = 90
      /\ "US30" \notin Backtest!GuardedForex
  BY DEF Backtest!SymbolBlocked, Backtest!ObserverOnly, Backtest!DemoSandbox,
         Backtest!MinimumExecutionConfidence, Backtest!GuardedForex
<1>10. /\ zone.name \notin Backtest!BlockedKillzones /\ zone.name # "london_open"
       /\ zone.name \in Backtest!US30Killzones
  BY <1>1 DEF Backtest!BlockedKillzones, Backtest!US30Killzones
<1>11. /\ ~Backtest!RobustnessBlocked("US30", zone, Backtest!NotLooked)
       /\ ~Backtest!RobustnessBlocked("US30", zone, looked)
  BY <1>10 DEF Backtest!RobustnessBlocked
<1> DEFINE bonus == IF clock >= 840 THEN 5 ELSE 0
           ranged == IF course = "range" THEN 8 ELSE 0
           expanded == IF course = "expansion" THEN 5 ELSE 0
           spread == IF course = "distribution" THEN 5 ELSE 0
<1>12. /\ Backtest!BonusTotal("US30", zone, Backtest!NotLooked) = bonus
       /\ Backtest!BonusTotal("US30", zone, looked) = bonus
  BY <1>1, <1>8, <1>10 DEF Backtest!BonusTotal, Backtest!Worth
<1>13. Backtest!PenaltyTotal("US30", zone, Backtest!NotLooked, course) = ranged + expanded
  BY <1>8, <1>9, <1>10 DEF Backtest!PenaltyTotal, Backtest!Worth, Backtest!Unconfirmed
<1>14. Backtest!PenaltyTotal("US30", zone, looked, course) = ranged + 5 + spread + expanded
  BY <1>8, <1>9, <1>10 DEF Backtest!PenaltyTotal, Backtest!Worth, Backtest!Unconfirmed
<1>15. /\ adjusted = Backtest!ClampScore(total + bonus - (ranged + expanded))
       /\ adjusted_live = Backtest!ClampScore(total + bonus - (ranged + 5 + spread + expanded))
  BY <1>12, <1>13, <1>14 DEF Backtest!AdjustedConfidence
<1> HIDE DEF adjusted, adjusted_live
<1>16. d.adaptive <=> ~(adjusted < 90)
  <2> DEFINE stops == Backtest!HardBlocked("US30", zone, Backtest!NotLooked, FALSE, FALSE)
             verdict_on == Backtest!Guardrail("US30", total, zone, Backtest!NotLooked, course, FALSE, FALSE)
             low == adjusted < Backtest!MinimumExecutionConfidence("US30")
  <2>1. ~stops
    BY <1>1, <1>9, <1>11 DEF Backtest!HardBlocked
  <2>2. verdict_on = Backtest!Result("US30", adjusted, stops \/ low)
    BY ZenonT(40) DEF Backtest!Guardrail, Backtest!AdaptiveGuardrail, adjusted
  <2>6. low <=> adjusted < 90
    BY <1>9
  <2> HIDE DEF stops, low, verdict_on
  <2>3. Backtest!Result("US30", adjusted, stops \/ low).pass
        = ~(stops \/ low)
    BY DEF Backtest!Result
  <2>4. verdict_on.pass = ~(stops \/ low)
    BY <2>2, <2>3
  <2>5. d.adaptive = verdict_on.pass
    BY <1>5 DEF verdict_on
  <2> QED
    BY <2>1, <2>4, <2>5, <2>6, ZenonT(40)
<1>17. Backtest!Guardrail("US30", d.confidence, zone, looked, d.phase, FALSE, FALSE).pass <=> ~(adjusted_live < 90)
  <2> DEFINE stops == Backtest!HardBlocked("US30", zone, looked, FALSE, FALSE)
             verdict_on == Backtest!Guardrail("US30", total, zone, looked, course, FALSE, FALSE)
             low == adjusted_live < Backtest!MinimumExecutionConfidence("US30")
  <2>1. ~stops
    BY <1>1, <1>9, <1>11 DEF Backtest!HardBlocked
  <2>2. verdict_on = Backtest!Result("US30", adjusted_live, stops \/ low)
    BY ZenonT(40) DEF Backtest!Guardrail, Backtest!AdaptiveGuardrail, adjusted_live
  <2>6. low <=> adjusted_live < 90
    BY <1>9
  <2> HIDE DEF stops, low, verdict_on
  <2>3. Backtest!Result("US30", adjusted_live, stops \/ low).pass
        = ~(stops \/ low)
    BY DEF Backtest!Result
  <2>4. verdict_on.pass = ~(stops \/ low)
    BY <2>2, <2>3
  <2>5. Backtest!Guardrail("US30", d.confidence, zone, looked, d.phase, FALSE, FALSE).pass = verdict_on.pass
    BY <1>5 DEF verdict_on
  <2> QED
    BY <2>1, <2>4, <2>5, <2>6, ZenonT(40)
<1>18. d.hard => ~(total < 95) /\ course # "range"
  BY <1>5, ZenonT(40) DEF Backtest!HardGuardrail, Backtest!Result
<1>19. d.hard => d.adaptive
  BY <1>1, <1>2, <1>3, <1>4, <1>7, <1>15, <1>16, <1>18 DEF Backtest!ClampScore
<1>20. ~(adjusted_live < 90) => ~(adjusted < 90)
  BY <1>1, <1>2, <1>3, <1>4, <1>15 DEF Backtest!ClampScore
<1>21. ~(adjusted < 90) /\ adjusted_live < 90 => course = "range"
  BY <1>1, <1>2, <1>3, <1>4, <1>7, <1>15 DEF Backtest!ClampScore
<1> QED
  BY <1>5, <1>6, <1>16, <1>17, <1>19, <1>20, <1>21, ZenonT(40) DEF d, looked, NoLaxerOn

\* A replay never admits EURUSD, nor would the live path.
LEMMA ForexVerdicts ==
  ASSUME NEW b, NEW zone
  PROVE  LET d == Backtest!BrainDecision("EURUSD", zone, b)
         IN /\ ~d.hard /\ ~d.adaptive
            /\ ~Backtest!Guardrail("EURUSD", d.confidence, zone, [detected |-> FALSE, available |-> TRUE],
                                   d.phase, FALSE, FALSE).pass
<1>1. Backtest!SymbolBlocked("EURUSD")
  BY DEF Backtest!SymbolBlocked, Backtest!ObserverOnly, Backtest!DemoSandbox
<1>2. ASSUME NEW total, NEW look, NEW phase_of
      PROVE  /\ ~Backtest!Guardrail("EURUSD", total, zone, look, phase_of, FALSE, FALSE).pass
             /\ ~Backtest!HardGuardrail("EURUSD", total, zone, look, phase_of).pass
  <2>1. Backtest!HardBlocked("EURUSD", zone, look, FALSE, FALSE)
    BY <1>1 DEF Backtest!HardBlocked
  <2> DEFINE adjusted == Backtest!AdjustedConfidence("EURUSD", total, zone, look, phase_of)
             low == adjusted < Backtest!MinimumExecutionConfidence("EURUSD")
             stops == Backtest!HardBlocked("EURUSD", zone, look, FALSE, FALSE)
  <2>2. Backtest!Guardrail("EURUSD", total, zone, look, phase_of, FALSE, FALSE)
        = Backtest!Result("EURUSD", adjusted, stops \/ low)
    BY DEF Backtest!Guardrail, Backtest!AdaptiveGuardrail
  <2> HIDE DEF low, stops, adjusted
  <2>3. Backtest!Result("EURUSD", adjusted, stops \/ low).pass = ~(stops \/ low)
    BY DEF Backtest!Result
  <2>4. stops
    BY <2>1 DEF stops
  <2> DEFINE refused == \/ Backtest!SymbolBlocked("EURUSD") \/ Backtest!RobustnessBlocked("EURUSD", zone, look)
                        \/ total < 95 \/ phase_of = "range"
                        \/ "EURUSD" \in Backtest!GuardedForex /\ ~look.detected
  <2>5. Backtest!HardGuardrail("EURUSD", total, zone, look, phase_of) = Backtest!Result("EURUSD", total, refused)
    BY DEF Backtest!HardGuardrail
  <2>6. refused
    BY <1>1
  <2> HIDE DEF refused
  <2>7. Backtest!Result("EURUSD", total, refused).pass = ~refused
    BY DEF Backtest!Result
  <2> QED
    BY <2>2, <2>3, <2>4, <2>5, <2>6, <2>7
<1> DEFINE d == Backtest!BrainDecision("EURUSD", zone, b)
<1>3. /\ d.adaptive = Backtest!Guardrail("EURUSD", d.confidence, zone, Backtest!NotLooked, d.phase, FALSE, FALSE).pass
      /\ d.hard = Backtest!HardGuardrail("EURUSD", d.confidence, zone, Backtest!NotLooked, d.phase).pass
  BY DEF Backtest!BrainDecision
<1> HIDE DEF d
<1>4. ~d.adaptive /\ ~d.hard
  BY <1>2, <1>3
<1>5. ~Backtest!Guardrail("EURUSD", d.confidence, zone, [detected |-> FALSE, available |-> TRUE],
                          d.phase, FALSE, FALSE).pass
  BY <1>2
<1> QED
  BY <1>4, <1>5 DEF d

LEMMA PassTyped ==
  ASSUME NEW symbol, NEW total, NEW zone, NEW look, NEW phase_of
  PROVE  /\ Backtest!Guardrail(symbol, total, zone, look, phase_of, FALSE, FALSE).pass \in BOOLEAN
         /\ Backtest!HardGuardrail(symbol, total, zone, look, phase_of).pass \in BOOLEAN
<1>1. ASSUME NEW adjusted, NEW stops PROVE Backtest!Result(symbol, adjusted, stops).pass \in BOOLEAN
  BY DEF Backtest!Result
<1> QED
  BY <1>1 DEF Backtest!Guardrail, Backtest!AdaptiveGuardrail, Backtest!HardGuardrail

Phases == {"range", "distribution", "expansion", "reversal"}

LEMMA VerdictTyped ==
  ASSUME NEW b \in Backtest!Breakouts, NEW symbol, NEW zone
  PROVE  LET d == Backtest!BrainDecision(symbol, zone, b)
         IN /\ d.confidence \in Int /\ d.phase \in Phases
            /\ d.blocked \in BOOLEAN /\ d.adaptive \in BOOLEAN /\ d.hard \in BOOLEAN
<1> DEFINE r == Backtest!HistoricalReading(b)
           total == Backtest!TotalConfidence(symbol, zone, r)
           course == Backtest!ClassifyNarrativePhase(b.direction, zone, b.ratio)
           d == Backtest!BrainDecision(symbol, zone, b)
<1>1. b.direction \in {"bullish", "bearish"} /\ b.ratio \in Nat /\ r.smt = "none"
  BY MadeUpReading
<1>2. course \in Phases
  BY <1>1 DEF Backtest!ClassifyNarrativePhase, Phases
<1>3. total \in Int
  <2>1. \A n \in Int : Backtest!ClampScore(n) \in Int
    BY DEF Backtest!ClampScore
  <2>2. Backtest!FvgQuality(r.fvg) \in Int
    BY DEF Backtest!FvgQuality
  <2>3. Backtest!SessionQuality(zone) \in Int
    BY DEF Backtest!SessionQuality
  <2>4. Backtest!ScoreSmt(symbol, r) = 0
    BY <1>1 DEF Backtest!ScoreSmt, Backtest!SmtDetected
  <2>5. ASSUME NEW points \in Int, NEW holds PROVE Backtest!Worth(points, holds) \in Int
    BY DEF Backtest!Worth
  <2> DEFINE w1 == Backtest!Worth(15, r.daily = Backtest!Direction(r))
             w2 == Backtest!Worth(20, r.h4 = Backtest!Direction(r))
             w3 == Backtest!Worth(20, r.sweep # "none")
             w4 == Backtest!Worth(20, r.mss)
             w5 == Backtest!Worth(5, Backtest!ClearTarget(r))
             q1 == Backtest!FvgQuality(r.fvg)
             q2 == Backtest!SessionQuality(zone)
             q3 == Backtest!ScoreSmt(symbol, r)
  <2>6. w1 \in Int /\ w2 \in Int /\ w3 \in Int /\ w4 \in Int /\ w5 \in Int
    BY <2>5
  <2>7. total = Backtest!ClampScore(w1 + w2 + w3 + w4 + q1 + q2 + w5 + q3)
    BY DEF Backtest!TotalConfidence
  <2>8. q1 \in Int /\ q2 \in Int /\ q3 \in Int
    BY <2>2, <2>3, <2>4
  <2> HIDE DEF w1, w2, w3, w4, w5, q1, q2, q3, total
  <2>9. w1 + w2 + w3 + w4 + q1 + q2 + w5 + q3 \in Int
    BY <2>6, <2>8
  <2> QED
    BY <2>1, <2>7, <2>9
<1>4. /\ d.confidence = total /\ d.phase = course
      /\ d.blocked = Backtest!HardRejected(symbol, zone, r, "none", total)
      /\ d.adaptive = Backtest!Guardrail(symbol, total, zone, Backtest!NotLooked, course, FALSE, FALSE).pass
      /\ d.hard = Backtest!HardGuardrail(symbol, total, zone, Backtest!NotLooked, course).pass
  BY DEF Backtest!BrainDecision
<1> HIDE DEF d, total, course, r
<1>5. Backtest!HardRejected(symbol, zone, r, "none", total) \in BOOLEAN
  BY DEF Backtest!HardRejected
<1>6. d.adaptive \in BOOLEAN /\ d.hard \in BOOLEAN
  <2>1. Backtest!Guardrail(symbol, total, zone, Backtest!NotLooked, course, FALSE, FALSE).pass \in BOOLEAN
    BY PassTyped
  <2>2. Backtest!HardGuardrail(symbol, total, zone, Backtest!NotLooked, course).pass \in BOOLEAN
    BY PassTyped
  <2> QED
    BY <1>4, <2>1, <2>2
<1>7. d.confidence \in Int /\ d.phase \in Phases /\ d.blocked \in BOOLEAN
  BY <1>2, <1>3, <1>4, <1>5
<1> QED
  BY <1>6, <1>7 DEF d

-----------------------------------------------------------------------------
(* The backtest's books.                                                      *)
TradeRecords == [symbol : {"US30", "EURUSD"}, at : 1..5, ending : Endings, adaptive : BOOLEAN, hard : BOOLEAN]
LedgerRecords == [symbol : {"US30", "EURUSD"}, at : 1..5, phase : Phases, confidence : Int,
                  admitted : BOOLEAN, ending : Endings]

\* Live is no laxer than the replay, and stricter with a range only.
NoLaxer(l) == Backtest!LivePass(l) # l.admitted => l.admitted /\ l.phase = "range"

\* What a candidate adds to the books.
Booking(symbol, at_bar, l, t, recorded) ==
  /\ l \in LedgerRecords /\ t \in TradeRecords /\ recorded \in BOOLEAN
  /\ l.symbol = symbol /\ t.symbol = symbol /\ l.at = at_bar /\ t.at = at_bar /\ l.ending = t.ending
  /\ t.hard => t.adaptive
  /\ l.admitted <=> (recorded /\ t.adaptive)
  /\ NoLaxer(l)

BooksGrow(l, t, recorded) ==
  /\ ledgers' = Append(ledgers, l)
  /\ IF recorded THEN trades' = Append(trades, t) /\ occupied_until' = bar + HORIZON
     ELSE trades' = trades /\ occupied_until' = occupied_until

LEMMA PairsAre ==
  /\ <<"US30", "EURUSD">>[1] = "US30" /\ <<"US30", "EURUSD">>[2] = "EURUSD" /\ Len(<<"US30", "EURUSD">>) = 2
  /\ MCTimes[1] = 810 /\ MCTimes[2] = 825 /\ MCTimes[3] = 840 /\ MCTimes[4] = 855 /\ MCTimes[5] = 900
  /\ Len(MCTimes) = 5
BY DEF MCTimes

LEMMA CandidateBooked ==
  ASSUME Backtest!Candidate, pair \in 1..2, bar \in 1..5
  PROVE  \E l, t, recorded : /\ BooksGrow(l, t, recorded)
                             /\ Booking(IF pair = 1 THEN "US30" ELSE "EURUSD", bar, l, t, recorded)
<1> DEFINE symbol == IF pair = 1 THEN "US30" ELSE "EURUSD"
           zone == Backtest!Killzone(symbol, MCTimes[bar])
<1>1. Backtest!Symbol = symbol /\ Backtest!Session = zone /\ zone.valid
  <2>1. <<"US30", "EURUSD">>[pair] = symbol
    BY PairsAre
  <2>2. Backtest!Symbol = symbol
    BY <2>1 DEF Backtest!Symbol
  <2>3. Backtest!Session = zone
    BY <2>2 DEF Backtest!Session
  <2>4. Backtest!Session.valid
    BY DEF Backtest!Candidate, Backtest!Open
  <2> QED
    BY <2>2, <2>3, <2>4
<1> HIDE DEF zone
<1>2. PICK b \in Backtest!Breakouts :
        LET d == Backtest!BrainDecision(Backtest!Symbol, Backtest!Session, b)
            trade == [symbol |-> Backtest!Symbol, at |-> bar, ending |-> b.ending,
                      adaptive |-> d.adaptive, hard |-> d.hard]
        IN /\ ledgers' = Append(ledgers, Backtest!Ledger(d, b.ending))
           /\ IF d.blocked THEN UNCHANGED <<trades, occupied_until>>
              ELSE trades' = Append(trades, trade) /\ occupied_until' = bar + HORIZON
  BY DEF Backtest!Candidate
<1> DEFINE d == Backtest!BrainDecision(symbol, zone, b)
           passed == ~d.blocked /\ d.adaptive
           t == [symbol |-> symbol, at |-> bar, ending |-> b.ending, adaptive |-> d.adaptive, hard |-> d.hard]
           l == [symbol |-> symbol, at |-> bar, phase |-> d.phase, confidence |-> d.confidence,
                 admitted |-> passed, ending |-> b.ending]
<1>3. /\ d.confidence \in Int /\ d.phase \in Phases
      /\ d.blocked \in BOOLEAN /\ d.adaptive \in BOOLEAN /\ d.hard \in BOOLEAN
  BY VerdictTyped
<1> DEFINE live_pass == Backtest!Guardrail(symbol, d.confidence, zone, [detected |-> FALSE, available |-> TRUE],
                                           d.phase, FALSE, FALSE).pass
<1>4. live_pass \in BOOLEAN
  BY PassTyped
<1>5. /\ d.hard => d.adaptive
      /\ live_pass # passed => passed /\ d.phase = "range"
  <2>1. CASE pair = 1
    <3>1. symbol = "US30" /\ zone = Backtest!Killzone("US30", MCTimes[bar])
      BY <2>1 DEF zone
    <3>2. MCTimes[bar] \in {810, 825, 840, 855, 900}
      BY PairsAre
    <3>3. MCTimes[bar] # 900
      <4> SUFFICES ASSUME MCTimes[bar] = 900 PROVE FALSE
        OBVIOUS
      <4>1. ~Backtest!Killzone("US30", 900).valid
        BY IndexRun
      <4> QED
        BY <1>1, <3>1, <4>1
    <3> DEFINE clock == MCTimes[bar]
    <3>4. clock \in {810, 825, 840, 855} /\ zone = Backtest!Killzone("US30", clock)
      BY <3>1, <3>2, <3>3
    <3> HIDE DEF clock
    <3>5. NoLaxerOn(b, zone)
      BY <3>4, IndexVerdicts
    <3>6. /\ ~d.blocked /\ (d.hard => d.adaptive) /\ (live_pass => d.adaptive)
          /\ (d.adaptive /\ ~live_pass => d.phase = "range")
      BY <3>1, <3>5 DEF NoLaxerOn
    <3> HIDE DEF d, live_pass
    <3> QED
      BY <1>3, <1>4, <3>6
  <2>2. CASE pair # 1
    <3>1. symbol = "EURUSD"
      BY <2>2
    <3>2. ~d.hard /\ ~d.adaptive /\ ~live_pass
      BY <3>1, ForexVerdicts
    <3> HIDE DEF d, live_pass
    <3> QED
      BY <1>4, <3>2
  <2> QED
    BY <2>1, <2>2
<1>6. symbol \in {"US30", "EURUSD"} /\ b.ending \in Endings
  BY DEF Backtest!Breakouts
<1>7. BooksGrow(l, t, ~d.blocked)
  <2>1. Backtest!Ledger(d, b.ending) = l
    BY <1>1 DEF Backtest!Ledger
  <2>2. Backtest!BrainDecision(Backtest!Symbol, Backtest!Session, b) = d
    BY <1>1
  <2>3. [symbol |-> Backtest!Symbol, at |-> bar, ending |-> b.ending, adaptive |-> d.adaptive, hard |-> d.hard] = t
    BY <1>1
  <2> HIDE DEF d, l, t
  <2>4. /\ ledgers' = Append(ledgers, l)
        /\ IF d.blocked THEN UNCHANGED <<trades, occupied_until>>
           ELSE trades' = Append(trades, t) /\ occupied_until' = bar + HORIZON
    BY <1>2, <2>1, <2>2, <2>3
  <2> QED
    BY <2>4 DEF BooksGrow
<1>8. Backtest!LivePass(l) = live_pass
  <2>1. /\ l.symbol = symbol /\ l.confidence = d.confidence /\ l.at = bar /\ l.phase = d.phase
    OBVIOUS
  <2> HIDE DEF l, d, symbol
  <2> QED
    BY <2>1 DEF Backtest!LivePass, zone
<1> HIDE DEF symbol, live_pass, d
<1>9. passed \in BOOLEAN
  OBVIOUS
<1>10. (~d.blocked) \in BOOLEAN /\ (passed <=> (~d.blocked /\ d.adaptive))
  OBVIOUS
<1> HIDE DEF passed
<1>11. /\ l.symbol = symbol /\ t.symbol = symbol /\ l.at = bar /\ t.at = bar /\ l.ending = t.ending
       /\ t.hard = d.hard /\ t.adaptive = d.adaptive /\ l.admitted = passed /\ l.phase = d.phase
  OBVIOUS
<1>12. l \in LedgerRecords
  BY <1>3, <1>6, <1>9 DEF LedgerRecords
<1>13. t \in TradeRecords
  BY <1>3, <1>6 DEF TradeRecords
<1> HIDE DEF l, t
<1>14. NoLaxer(l)
  BY <1>5, <1>8, <1>11 DEF NoLaxer
<1>15. Booking(symbol, bar, l, t, ~d.blocked)
  BY <1>5, <1>10, <1>11, <1>12, <1>13, <1>14 DEF Booking
<1> QED
  BY <1>7, <1>15 DEF symbol

Admitted(ls) == {j \in DOMAIN ls : ls[j].admitted}
AdmittedWins(ls) == {j \in DOMAIN ls : ls[j].admitted /\ ls[j].ending = "WIN"}
Guarded(ts) == {i \in DOMAIN ts : ts[i].adaptive}
GuardedWins(ts) == {i \in DOMAIN ts : ts[i].adaptive /\ ts[i].ending = "WIN"}

BooksCounted ==
  /\ Cardinality(Admitted(ledgers)) = Cardinality(Guarded(trades))
  /\ Cardinality(AdmittedWins(ledgers)) = Cardinality(GuardedWins(trades))

LEMMA OneMore ==
  ASSUME NEW n \in Nat, NEW S \in SUBSET (1..n), NEW T \in SUBSET (1..n + 1),
         \A i \in 1..n : i \in T <=> i \in S
  PROVE  Cardinality(S) \in Nat /\ Cardinality(T) = Cardinality(S) + (IF n + 1 \in T THEN 1 ELSE 0)
<1>1. IsFiniteSet(1..n)
  BY FS_Interval
<1>2. IsFiniteSet(S) /\ Cardinality(S) \in Nat
  BY <1>1, FS_Subset, FS_CardinalityType
<1>3. n + 1 \notin S
  OBVIOUS
<1>4. CASE n + 1 \in T
  <2>1. T = S \cup {n + 1}
    <3>1. \A i \in 1..n + 1 : i \in 1..n \/ i = n + 1
      OBVIOUS
    <3> QED
      BY <1>4, <3>1
  <2>2. Cardinality(S \cup {n + 1}) = Cardinality(S) + 1
    BY <1>2, <1>3, FS_AddElement
  <2> QED
    BY <1>2, <1>4, <2>1, <2>2
<1>5. CASE n + 1 \notin T
  <2>1. T = S
    <3>1. \A i \in 1..n + 1 : i \in 1..n \/ i = n + 1
      OBVIOUS
    <3> QED
      BY <1>5, <3>1
  <2> QED
    BY <1>2, <1>5, <2>1
<1> QED
  BY <1>4, <1>5

LEMMA Appended ==
  ASSUME NEW X, NEW s \in Seq(X), NEW e \in X
  PROVE  /\ Append(s, e) \in Seq(X) /\ Len(s) \in Nat /\ Len(Append(s, e)) = Len(s) + 1
         /\ DOMAIN s = 1..Len(s) /\ DOMAIN Append(s, e) = 1..Len(s) + 1
         /\ \A i \in 1..Len(s) : Append(s, e)[i] = s[i]
         /\ Append(s, e)[Len(s) + 1] = e
OBVIOUS

\* A candidate is admitted by the ledger when its trade is recorded as guarded.
LEMMA BooksStayCounted ==
  ASSUME ledgers \in Seq(LedgerRecords), trades \in Seq(TradeRecords), BooksCounted,
         NEW symbol, NEW at_bar, NEW l, NEW t, NEW recorded,
         BooksGrow(l, t, recorded), Booking(symbol, at_bar, l, t, recorded)
  PROVE  BooksCounted'
<1>1. /\ l \in LedgerRecords /\ t \in TradeRecords /\ recorded \in BOOLEAN
      /\ l.ending = t.ending /\ (l.admitted <=> (recorded /\ t.adaptive))
  BY DEF Booking
<1> DEFINE n == Len(ledgers)
           m == Len(trades)
           more == Append(ledgers, l)
           traded_more == Append(trades, t)
           won == l.ending = "WIN"
           in == l.admitted
<1>2. /\ n \in Nat /\ DOMAIN ledgers = 1..n /\ DOMAIN more = 1..n + 1
      /\ (\A i \in 1..n : more[i] = ledgers[i]) /\ more[n + 1] = l
  BY <1>1, Appended
<1>3. /\ m \in Nat /\ DOMAIN trades = 1..m /\ DOMAIN traded_more = 1..m + 1
      /\ (\A i \in 1..m : traded_more[i] = trades[i]) /\ traded_more[m + 1] = t
  BY <1>1, Appended
<1>4. ledgers' = more /\ (recorded => trades' = traded_more) /\ (~recorded => trades' = trades)
  BY DEF BooksGrow
<1> HIDE DEF n, m, more, traded_more
<1>5. /\ Cardinality(Admitted(ledgers)) \in Nat
      /\ Cardinality(Admitted(more)) = Cardinality(Admitted(ledgers)) + (IF in THEN 1 ELSE 0)
  <2>1. Admitted(ledgers) \in SUBSET (1..n) /\ Admitted(more) \in SUBSET (1..n + 1)
    BY <1>2 DEF Admitted
  <2>2. \A i \in 1..n : i \in Admitted(more) <=> i \in Admitted(ledgers)
    BY <1>2 DEF Admitted
  <2>3. n + 1 \in Admitted(more) <=> in
    BY <1>2 DEF Admitted
  <2> HIDE DEF in
  <2>4. Cardinality(Admitted(ledgers)) \in Nat
        /\ Cardinality(Admitted(more)) = Cardinality(Admitted(ledgers)) + (IF n + 1 \in Admitted(more) THEN 1 ELSE 0)
    BY <1>2, <2>1, <2>2, OneMore
  <2> QED
    BY <2>3, <2>4
<1>6. /\ Cardinality(AdmittedWins(ledgers)) \in Nat
      /\ Cardinality(AdmittedWins(more)) = Cardinality(AdmittedWins(ledgers)) + (IF in /\ won THEN 1 ELSE 0)
  <2>1. AdmittedWins(ledgers) \in SUBSET (1..n) /\ AdmittedWins(more) \in SUBSET (1..n + 1)
    BY <1>2 DEF AdmittedWins
  <2>2. \A i \in 1..n : i \in AdmittedWins(more) <=> i \in AdmittedWins(ledgers)
    BY <1>2 DEF AdmittedWins
  <2>3. n + 1 \in AdmittedWins(more) <=> in /\ won
    BY <1>2 DEF AdmittedWins
  <2> HIDE DEF in, won
  <2>4. Cardinality(AdmittedWins(ledgers)) \in Nat
        /\ Cardinality(AdmittedWins(more)) = Cardinality(AdmittedWins(ledgers)) + (IF n + 1 \in AdmittedWins(more) THEN 1 ELSE 0)
    BY <1>2, <2>1, <2>2, OneMore
  <2> QED
    BY <2>3, <2>4
<1>7. Cardinality(Guarded(traded_more)) = Cardinality(Guarded(trades)) + (IF t.adaptive THEN 1 ELSE 0)
  <2>1. Guarded(trades) \in SUBSET (1..m) /\ Guarded(traded_more) \in SUBSET (1..m + 1)
    BY <1>3 DEF Guarded
  <2>2. \A i \in 1..m : i \in Guarded(traded_more) <=> i \in Guarded(trades)
    BY <1>3 DEF Guarded
  <2> DEFINE guarded == t.adaptive
  <2>3. m + 1 \in Guarded(traded_more) <=> guarded
    BY <1>3 DEF Guarded
  <2> HIDE DEF guarded
  <2>4. Cardinality(Guarded(traded_more)) = Cardinality(Guarded(trades)) + (IF m + 1 \in Guarded(traded_more) THEN 1 ELSE 0)
    BY <1>3, <2>1, <2>2, OneMore
  <2>5. Cardinality(Guarded(traded_more)) = Cardinality(Guarded(trades)) + (IF guarded THEN 1 ELSE 0)
    BY <2>3, <2>4
  <2> QED
    BY <2>5 DEF guarded
<1>8. Cardinality(GuardedWins(traded_more)) = Cardinality(GuardedWins(trades)) + (IF t.adaptive /\ won THEN 1 ELSE 0)
  <2>1. GuardedWins(trades) \in SUBSET (1..m) /\ GuardedWins(traded_more) \in SUBSET (1..m + 1)
    BY <1>3 DEF GuardedWins
  <2>2. \A i \in 1..m : i \in GuardedWins(traded_more) <=> i \in GuardedWins(trades)
    BY <1>3 DEF GuardedWins
  <2> DEFINE guarded == t.adaptive
  <2>3. m + 1 \in GuardedWins(traded_more) <=> guarded /\ won
    BY <1>1, <1>3 DEF GuardedWins
  <2> HIDE DEF guarded, won
  <2>4. Cardinality(GuardedWins(traded_more)) = Cardinality(GuardedWins(trades)) + (IF m + 1 \in GuardedWins(traded_more) THEN 1 ELSE 0)
    BY <1>3, <2>1, <2>2, OneMore
  <2>5. Cardinality(GuardedWins(traded_more)) = Cardinality(GuardedWins(trades)) + (IF guarded /\ won THEN 1 ELSE 0)
    BY <2>3, <2>4
  <2> QED
    BY <2>5 DEF guarded
<1> DEFINE guarded == t.adaptive
<1>9. /\ Cardinality(Guarded(traded_more)) = Cardinality(Guarded(trades)) + (IF guarded THEN 1 ELSE 0)
      /\ Cardinality(GuardedWins(traded_more)) = Cardinality(GuardedWins(trades)) + (IF guarded /\ won THEN 1 ELSE 0)
      /\ in <=> recorded /\ guarded
  BY <1>1, <1>7, <1>8
<1> HIDE DEF guarded, in, won
<1>10. /\ Cardinality(Admitted(more)) = Cardinality(Guarded(trades')) 
       /\ Cardinality(AdmittedWins(more)) = Cardinality(GuardedWins(trades'))
  <2>1. CASE recorded
    <3>1. trades' = traded_more /\ (in <=> guarded)
      BY <1>4, <1>9, <2>1
    <3> QED
      BY <1>5, <1>6, <1>9, <3>1 DEF BooksCounted
  <2>2. CASE ~recorded
    <3>1. trades' = trades /\ ~in
      BY <1>4, <1>9, <2>2
    <3> QED
      BY <1>5, <1>6, <3>1 DEF BooksCounted
  <2> QED
    BY <2>1, <2>2
<1>11. Cardinality(Admitted(ledgers')) = Cardinality(Guarded(trades'))
       /\ Cardinality(AdmittedWins(ledgers')) = Cardinality(GuardedWins(trades'))
  BY <1>4, <1>10
<1> QED
  BY <1>11 DEF BooksCounted, Admitted, AdmittedWins, Guarded, GuardedWins

\* Where the books' entries lie: none of the symbol that is scanned lies ahead,
\* and no candidate lies in the window of a recorded trade.
BooksPlaced ==
  /\ \A i \in DOMAIN trades :
       /\ pair = 1 => trades[i].symbol = "US30" /\ trades[i].at + HORIZON <= occupied_until
       /\ pair = 2 /\ trades[i].symbol = "EURUSD" => trades[i].at + HORIZON <= occupied_until
  /\ \A j \in DOMAIN ledgers :
       /\ pair = 1 => ledgers[j].symbol = "US30" /\ ledgers[j].at < bar
       /\ pair = 2 /\ ledgers[j].symbol = "EURUSD" => ledgers[j].at < bar
  /\ \A i \in DOMAIN trades, j \in DOMAIN ledgers : ~Backtest!InWindowOf(trades[i], ledgers[j])

BooksJudged ==
  /\ \A i \in DOMAIN trades : trades[i].hard => trades[i].adaptive
  /\ \A j \in DOMAIN ledgers : NoLaxer(ledgers[j])

SummaryAgrees ==
  summary # Backtest!NoSummary =>
    /\ summary.ledger.admitted = summary.adaptive.trades
    /\ summary.ledger.admitted_won = summary.adaptive.wins
    /\ summary.ledger.qaer + summary.ledger.frr <= 10000
    /\ summary.hard.trades <= summary.adaptive.trades

BooksTyped ==
  /\ pair \in 1..3 /\ bar \in 1..6 /\ (pair = 3 => bar = 1) /\ occupied_until \in Nat
  /\ ledgers \in Seq(LedgerRecords) /\ trades \in Seq(TradeRecords)
  /\ Len(ledgers) <= 5 * (pair - 1) + (bar - 1)

\* With at most ten candidates no rounding carries the two rates beyond the whole.
BacktestInv == BooksTyped /\ BooksPlaced /\ BooksJudged /\ BooksCounted /\ SummaryAgrees

BacktestKept == part = "backtest" => BacktestInv

LEMMA BooksStayTyped ==
  ASSUME BooksTyped, pair \in 1..2, bar \in 1..5, bar' = bar + 1, pair' = pair,
         NEW symbol, NEW l, NEW t, NEW recorded,
         BooksGrow(l, t, recorded), Booking(symbol, bar, l, t, recorded)
  PROVE  BooksTyped'
<1>1. l \in LedgerRecords /\ t \in TradeRecords /\ recorded \in BOOLEAN
  BY DEF Booking
<1>2. ledgers \in Seq(LedgerRecords) /\ trades \in Seq(TradeRecords) /\ Len(ledgers) <= 5 * (pair - 1) + (bar - 1)
  BY DEF BooksTyped
<1>3. ledgers' \in Seq(LedgerRecords) /\ Len(ledgers) \in Nat /\ Len(ledgers') = Len(ledgers) + 1
  BY <1>1, <1>2, Appended DEF BooksGrow
<1>4. trades' \in Seq(TradeRecords)
  <2>1. CASE recorded
    BY <1>1, <1>2, <2>1, Appended, SMTT(30) DEF BooksGrow
  <2>2. CASE ~recorded
    BY <1>2, <2>2 DEF BooksGrow
  <2> QED
    BY <2>1, <2>2
<1>5. occupied_until' \in Nat
  BY ReplayAssumption DEF BooksGrow, BooksTyped
<1>6. Len(ledgers') <= 5 * (pair' - 1) + (bar' - 1)
  BY <1>2, <1>3
<1> QED
  BY <1>3, <1>4, <1>5, <1>6 DEF BooksTyped

LEMMA BooksStayPlaced ==
  ASSUME BooksTyped, BooksPlaced, pair \in 1..2, bar \in 1..5, bar' = bar + 1, pair' = pair,
         bar > occupied_until, NEW l, NEW t, NEW recorded, BooksGrow(l, t, recorded),
         Booking(IF pair = 1 THEN "US30" ELSE "EURUSD", bar, l, t, recorded)
  PROVE  BooksPlaced'
<1> DEFINE symbol == IF pair = 1 THEN "US30" ELSE "EURUSD"
<1>1. /\ l \in LedgerRecords /\ t \in TradeRecords /\ recorded \in BOOLEAN
      /\ l.symbol = symbol /\ t.symbol = symbol /\ l.at = bar /\ t.at = bar
  BY DEF Booking
<1>2. /\ ledgers \in Seq(LedgerRecords) /\ trades \in Seq(TradeRecords) /\ occupied_until \in Nat /\ HORIZON \in Nat
  BY ReplayAssumption DEF BooksTyped
<1> DEFINE n == Len(ledgers)
           m == Len(trades)
<1>3. /\ n \in Nat /\ DOMAIN ledgers = 1..n /\ DOMAIN ledgers' = 1..n + 1
      /\ (\A j \in 1..n : ledgers'[j] = ledgers[j]) /\ ledgers'[n + 1] = l
  BY <1>1, <1>2, Appended DEF BooksGrow
<1>4. \A i \in DOMAIN trades : trades[i].at \in 1..5 /\ trades[i].symbol \in {"US30", "EURUSD"}
  <2> TAKE i \in DOMAIN trades
  <2>1. trades[i] \in TradeRecords
    BY <1>2
  <2> QED
    BY <2>1 DEF TradeRecords
<1>5. \A j \in DOMAIN ledgers : ledgers[j].at \in 1..5 /\ ledgers[j].symbol \in {"US30", "EURUSD"}
  <2> TAKE j \in DOMAIN ledgers
  <2>1. ledgers[j] \in LedgerRecords
    BY <1>2
  <2> QED
    BY <2>1 DEF LedgerRecords
<1>6. \A i \in DOMAIN trades' : (i \in DOMAIN trades /\ trades'[i] = trades[i]) \/ (recorded /\ trades'[i] = t)
  <2>1. CASE recorded
    <3>1. /\ m \in Nat /\ DOMAIN trades = 1..m /\ DOMAIN trades' = 1..m + 1
          /\ (\A i \in 1..m : trades'[i] = trades[i]) /\ trades'[m + 1] = t
      BY <1>1, <1>2, <2>1, Appended, SMTT(30) DEF BooksGrow
    <3> HIDE DEF m
    <3>2. \A i \in 1..m + 1 : i \in 1..m \/ i = m + 1
      BY <3>1
    <3> QED
      BY <2>1, <3>1, <3>2
  <2>2. CASE ~recorded
    BY <2>2 DEF BooksGrow
  <2> QED
    BY <2>1, <2>2
<1>7. \A j \in DOMAIN ledgers' : (j \in DOMAIN ledgers /\ ledgers'[j] = ledgers[j]) \/ ledgers'[j] = l
  <2> HIDE DEF n
  <2>1. \A j \in 1..n + 1 : j \in 1..n \/ j = n + 1
    BY <1>3
  <2> QED
    BY <1>3, <2>1
<1>8. /\ recorded => occupied_until' = bar + HORIZON
      /\ ~recorded => occupied_until' = occupied_until
      /\ occupied_until' >= occupied_until
  BY <1>2 DEF BooksGrow
<1>9. ASSUME NEW i \in DOMAIN trades'
      PROVE  /\ pair' = 1 => trades'[i].symbol = "US30" /\ trades'[i].at + HORIZON <= occupied_until'
             /\ pair' = 2 /\ trades'[i].symbol = "EURUSD" => trades'[i].at + HORIZON <= occupied_until'
  <2>1. CASE i \in DOMAIN trades /\ trades'[i] = trades[i]
    <3>1. trades[i].at \in Int /\ occupied_until' \in Int
      BY <1>2, <1>4, <1>8, <2>1
    <3> QED
      BY <1>2, <1>8, <2>1, <3>1 DEF BooksPlaced
  <2>2. CASE recorded /\ trades'[i] = t
    BY <1>1, <1>2, <1>8, <2>2
  <2> QED
    BY <1>6, <2>1, <2>2
<1>10. ASSUME NEW j \in DOMAIN ledgers'
       PROVE  /\ pair' = 1 => ledgers'[j].symbol = "US30" /\ ledgers'[j].at < bar'
              /\ pair' = 2 /\ ledgers'[j].symbol = "EURUSD" => ledgers'[j].at < bar'
  <2>1. CASE j \in DOMAIN ledgers /\ ledgers'[j] = ledgers[j]
    <3>1. ledgers[j].at \in Int
      BY <1>5, <2>1
    <3> QED
      BY <2>1, <3>1 DEF BooksPlaced
  <2>2. CASE ledgers'[j] = l
    BY <1>1, <2>2
  <2> QED
    BY <1>7, <2>1, <2>2
<1>11. ASSUME NEW i \in DOMAIN trades', NEW j \in DOMAIN ledgers'
       PROVE  ~Backtest!InWindowOf(trades'[i], ledgers'[j])
  <2>1. CASE i \in DOMAIN trades /\ trades'[i] = trades[i]
    <3>1. CASE j \in DOMAIN ledgers /\ ledgers'[j] = ledgers[j]
      BY <2>1, <3>1 DEF BooksPlaced
    <3>2. CASE ledgers'[j] = l
      <4>1. trades[i].symbol = symbol => trades[i].at + HORIZON <= occupied_until
        BY <2>1 DEF BooksPlaced
      <4>2. trades[i].at \in Int
        BY <1>4, <2>1
      <4> HIDE DEF symbol
      <4>3. ~(trades[i].symbol = l.symbol /\ l.at <= trades[i].at + HORIZON)
        BY <1>1, <1>2, <4>1, <4>2
      <4> QED
        BY <2>1, <3>2, <4>3 DEF Backtest!InWindowOf
    <3> QED
      BY <1>7, <3>1, <3>2
  <2>2. CASE recorded /\ trades'[i] = t
    <3>1. CASE j \in DOMAIN ledgers /\ ledgers'[j] = ledgers[j]
      <4>1. ledgers[j].symbol = symbol => ledgers[j].at < bar
        BY <3>1 DEF BooksPlaced
      <4>2. ledgers[j].at \in Int
        BY <1>5, <3>1
      <4> HIDE DEF symbol
      <4>3. ~(t.symbol = ledgers[j].symbol /\ t.at < ledgers[j].at)
        BY <1>1, <4>1, <4>2
      <4> QED
        BY <2>2, <3>1, <4>3 DEF Backtest!InWindowOf
    <3>2. CASE ledgers'[j] = l
      <4>1. ~(t.at < l.at)
        BY <1>1
      <4> QED
        BY <2>2, <3>2, <4>1 DEF Backtest!InWindowOf
    <3> QED
      BY <1>7, <3>1, <3>2
  <2> QED
    BY <1>6, <2>1, <2>2
<1> QED
  BY <1>9, <1>10, <1>11 DEF BooksPlaced

LEMMA BooksStayJudged ==
  ASSUME BooksTyped, BooksJudged, NEW symbol, NEW at_bar, NEW l, NEW t, NEW recorded,
         BooksGrow(l, t, recorded), Booking(symbol, at_bar, l, t, recorded)
  PROVE  BooksJudged'
<1>1. /\ l \in LedgerRecords /\ t \in TradeRecords /\ recorded \in BOOLEAN
      /\ NoLaxer(l) /\ (t.hard => t.adaptive)
      /\ ledgers \in Seq(LedgerRecords) /\ trades \in Seq(TradeRecords)
  BY DEF Booking, BooksTyped
<1> DEFINE n == Len(ledgers)
           m == Len(trades)
<1>2. /\ n \in Nat /\ DOMAIN ledgers = 1..n /\ DOMAIN ledgers' = 1..n + 1
      /\ (\A j \in 1..n : ledgers'[j] = ledgers[j]) /\ ledgers'[n + 1] = l
  BY <1>1, Appended DEF BooksGrow
<1>3. \A j \in DOMAIN ledgers' : NoLaxer(ledgers'[j])
  <2> HIDE DEF n
  <2>1. \A j \in 1..n + 1 : j \in 1..n \/ j = n + 1
    BY <1>2
  <2> QED
    BY <1>1, <1>2, <2>1 DEF BooksJudged
<1>4. \A i \in DOMAIN trades' : trades'[i].hard => trades'[i].adaptive
  <2>1. CASE recorded
    <3>1. /\ m \in Nat /\ DOMAIN trades = 1..m /\ DOMAIN trades' = 1..m + 1
          /\ (\A i \in 1..m : trades'[i] = trades[i]) /\ trades'[m + 1] = t
      BY <1>1, <2>1, Appended DEF BooksGrow
    <3> HIDE DEF m
    <3>2. \A i \in 1..m + 1 : i \in 1..m \/ i = m + 1
      BY <3>1
    <3> QED
      BY <1>1, <3>1, <3>2 DEF BooksJudged
  <2>2. CASE ~recorded
    BY <2>2 DEF BooksGrow, BooksJudged
  <2> QED
    BY <2>1, <2>2
<1> QED
  BY <1>3, <1>4 DEF BooksJudged, NoLaxer, Backtest!LivePass

\* Rounding to the nearest adds nothing to a whole of at most ten.
LEMMA RatesShare ==
  ASSUME NEW a \in Nat, NEW c \in Nat, NEW h \in 0..10, a + c <= h
  PROVE  Backtest!Rate(a, h) + Backtest!Rate(c, h) <= 10000
<1>1. CASE h = 0
  BY <1>1 DEF Backtest!Rate
<1>2. CASE h = 1
  BY <1>2 DEF Backtest!Rate
<1>3. CASE h = 2
  BY <1>3 DEF Backtest!Rate
<1>4. CASE h = 3
  BY <1>4 DEF Backtest!Rate
<1>5. CASE h = 4
  BY <1>5 DEF Backtest!Rate
<1>6. CASE h = 5
  BY <1>6 DEF Backtest!Rate
<1>7. CASE h = 6
  BY <1>7 DEF Backtest!Rate
<1>8. CASE h = 7
  BY <1>8 DEF Backtest!Rate
<1>9. CASE h = 8
  BY <1>9 DEF Backtest!Rate
<1>10. CASE h = 9
  BY <1>10 DEF Backtest!Rate
<1>11. CASE h = 10
  BY <1>11 DEF Backtest!Rate
<1> QED
  BY <1>1, <1>2, <1>3, <1>4, <1>5, <1>6, <1>7, <1>8, <1>9, <1>10, <1>11

LEMMA BacktestCardinality == \A S : Backtest!Cardinality(S) = Cardinality(S)
BY DEF Backtest!Cardinality, Cardinality

\* QAER counts admitted winners among the best candidates, FRR refused ones.
LEMMA RatesOfBooks ==
  ASSUME BooksTyped
  PROVE  LET s == Backtest!SummarizeLedgers(ledgers) IN s.qaer + s.frr <= 10000
<1> DEFINE high == {i \in DOMAIN ledgers : ledgers[i].confidence >= 70}
           won == {i \in DOMAIN ledgers : ledgers[i].ending = "WIN"}
           admitted_of == {i \in DOMAIN ledgers : ledgers[i].admitted}
           taken == (high \cap admitted_of) \cap won
           missed == (high \cap won) \ admitted_of
           s == Backtest!SummarizeLedgers(ledgers)
<1>1. /\ s.qaer = Backtest!Rate(Backtest!Cardinality(taken), Backtest!Cardinality(high))
      /\ s.frr = Backtest!Rate(Backtest!Cardinality(missed), Backtest!Cardinality(high))
  BY DEF Backtest!SummarizeLedgers
<1>2. /\ ledgers \in Seq(LedgerRecords) /\ Len(ledgers) \in Nat /\ DOMAIN ledgers = 1..Len(ledgers)
      /\ Len(ledgers) <= 10
  BY DEF BooksTyped
<1>3. high \in SUBSET DOMAIN ledgers /\ taken \in SUBSET high /\ missed \in SUBSET high /\ taken \cap missed = {}
  OBVIOUS
<1> HIDE DEF high, won, admitted_of, taken, missed, s
<1>4. IsFiniteSet(DOMAIN ledgers) /\ Cardinality(DOMAIN ledgers) = Len(ledgers)
  <2>1. IsFiniteSet(1..Len(ledgers))
        /\ Cardinality(1..Len(ledgers)) = (IF 1 > Len(ledgers) THEN 0 ELSE Len(ledgers) - 1 + 1)
    <3>1. 1 \in Int /\ Len(ledgers) \in Int
      BY <1>2
    <3> QED
      BY <3>1, FS_Interval
  <2> QED
    BY <1>2, <2>1
<1>5. IsFiniteSet(high) /\ Cardinality(high) \in Nat /\ Cardinality(high) <= 10
  BY <1>2, <1>3, <1>4, FS_Subset, FS_CardinalityType
<1>6. /\ IsFiniteSet(taken) /\ IsFiniteSet(missed)
      /\ Cardinality(taken) \in Nat /\ Cardinality(missed) \in Nat
  BY <1>3, <1>5, FS_Subset, FS_CardinalityType
<1>7. Cardinality(taken) + Cardinality(missed) <= Cardinality(high)
  <2>1. Cardinality(taken \cup missed) = Cardinality(taken) + Cardinality(missed) - Cardinality(taken \cap missed)
    BY <1>6, FS_Union
  <2>2. Cardinality(taken \cap missed) = 0
    BY <1>3, FS_EmptySet
  <2>3. taken \cup missed \in SUBSET high
    BY <1>3
  <2>4. Cardinality(taken \cup missed) <= Cardinality(high)
    BY <1>5, <2>3, FS_Subset
  <2> QED
    BY <1>5, <1>6, <2>1, <2>2, <2>4
<1> DEFINE a == Cardinality(taken)
           c == Cardinality(missed)
           h == Cardinality(high)
<1>8. a \in Nat /\ c \in Nat /\ h \in 0..10 /\ a + c <= h
  BY <1>5, <1>6, <1>7
<1>9. s.qaer = Backtest!Rate(a, h) /\ s.frr = Backtest!Rate(c, h)
  BY <1>1, BacktestCardinality
<1> HIDE DEF a, c, h
<1>10. Backtest!Rate(a, h) + Backtest!Rate(c, h) <= 10000
  BY <1>8, RatesShare
<1>11. s.qaer + s.frr <= 10000
  BY <1>9, <1>10
<1> QED
  BY <1>11 DEF s

LEMMA SummaryShown ==
  ASSUME BooksTyped, BooksCounted, BooksJudged, Backtest!Summarize
  PROVE  SummaryAgrees'
<1> DEFINE indices == DOMAIN trades
           hard_ones == {i \in indices : trades[i].hard}
           kept == Backtest!SummarizeLedgers(ledgers)
           guarded_metrics == Backtest!Metrics(trades, Guarded(trades))
           hard_metrics == Backtest!Metrics(trades, hard_ones)
<1>1. summary'.ledger = kept /\ summary'.adaptive = guarded_metrics /\ summary'.hard = hard_metrics
  BY DEF Backtest!Summarize, Guarded
<1>2. kept.admitted = Cardinality(Admitted(ledgers)) /\ kept.admitted_won = Cardinality(AdmittedWins(ledgers))
  <2> DEFINE won == {i \in DOMAIN ledgers : ledgers[i].ending = "WIN"}
  <2>1. Admitted(ledgers) \cap won = AdmittedWins(ledgers)
    BY DEF Admitted, AdmittedWins
  <2>2. /\ kept.admitted = Backtest!Cardinality(Admitted(ledgers))
        /\ kept.admitted_won = Backtest!Cardinality(Admitted(ledgers) \cap won)
    BY DEF Backtest!SummarizeLedgers, Admitted
  <2> HIDE DEF won, kept
  <2> QED
    BY <2>1, <2>2, BacktestCardinality
<1>3. guarded_metrics.trades = Cardinality(Guarded(trades)) /\ guarded_metrics.wins = Cardinality(GuardedWins(trades))
  <2>1. {i \in Guarded(trades) : trades[i].ending = "WIN"} = GuardedWins(trades)
    BY DEF Guarded, GuardedWins
  <2>2. /\ guarded_metrics.trades = Backtest!Cardinality(Guarded(trades))
        /\ guarded_metrics.wins = Backtest!Cardinality({i \in Guarded(trades) : trades[i].ending = "WIN"})
    BY DEF Backtest!Metrics
  <2> HIDE DEF guarded_metrics
  <2> QED
    BY <2>1, <2>2, BacktestCardinality
<1>4. hard_metrics.trades = Cardinality(hard_ones)
  <2>1. hard_metrics.trades = Backtest!Cardinality(hard_ones)
    BY DEF Backtest!Metrics
  <2> QED
    BY <2>1, BacktestCardinality
<1>5. Cardinality(hard_ones) <= Cardinality(Guarded(trades))
  <2>1. Len(trades) \in Nat /\ DOMAIN trades = 1..Len(trades)
    BY DEF BooksTyped
  <2>2. IsFiniteSet(DOMAIN trades)
    BY <2>1, FS_Interval
  <2>3. Guarded(trades) \in SUBSET DOMAIN trades /\ hard_ones \in SUBSET Guarded(trades)
    BY DEF Guarded, BooksJudged
  <2> HIDE DEF hard_ones
  <2>4. IsFiniteSet(Guarded(trades))
    BY <2>2, <2>3, FS_Subset
  <2> QED
    BY <2>3, <2>4, FS_Subset
<1>6. kept.qaer + kept.frr <= 10000
  BY RatesOfBooks
<1> HIDE DEF kept, guarded_metrics, hard_metrics, hard_ones
<1>7. /\ summary'.ledger.admitted = summary'.adaptive.trades
      /\ summary'.ledger.admitted_won = summary'.adaptive.wins
      /\ summary'.ledger.qaer + summary'.ledger.frr <= 10000
      /\ summary'.hard.trades <= summary'.adaptive.trades
  BY <1>1, <1>2, <1>3, <1>4, <1>5, <1>6 DEF BooksCounted
<1> QED
  BY <1>7 DEF SummaryAgrees

LEMMA BacktestFrame ==
  [MCNext]_mc_vars => /\ part' = part
                      /\ (part = "backtest" /\ Backtest!BacktestNext) \/ UNCHANGED backtest_vars
BY DEF MCNext, mc_vars, replay_vars, Watching, Deciding, Replaying, Limiting, backtest_vars

\* A step that books nothing.
LEMMA BooksUntouched ==
  ASSUME BooksJudged, BooksCounted, ledgers' = ledgers, trades' = trades
  PROVE  BooksJudged' /\ BooksCounted'
BY DEF BooksJudged, BooksCounted, Admitted, AdmittedWins, Guarded, GuardedWins, NoLaxer, Backtest!LivePass

LEMMA CandidateKeeps == BacktestInv /\ Backtest!Candidate => BacktestInv'
<1> SUFFICES ASSUME BacktestInv, Backtest!Candidate PROVE BacktestInv'
  OBVIOUS
<1>1. BooksTyped /\ BooksPlaced /\ BooksJudged /\ BooksCounted /\ SummaryAgrees
  BY DEF BacktestInv
<1>2. pair \in 1..2 /\ bar \in 1..5
  BY <1>1, PairsAre DEF BooksTyped, Backtest!Candidate, Backtest!Scanning
<1>3. bar > occupied_until /\ bar' = bar + 1 /\ pair' = pair /\ summary' = summary
  BY DEF Backtest!Candidate, Backtest!Open
<1> DEFINE symbol == IF pair = 1 THEN "US30" ELSE "EURUSD"
<1>4. PICK l, t, recorded : BooksGrow(l, t, recorded) /\ Booking(symbol, bar, l, t, recorded)
  BY <1>2, CandidateBooked
<1>5. BooksPlaced'
  BY <1>1, <1>2, <1>3, <1>4, BooksStayPlaced
<1> HIDE DEF symbol
<1>6. BooksTyped'
  BY <1>1, <1>2, <1>3, <1>4, BooksStayTyped
<1>7. BooksJudged'
  BY <1>1, <1>4, BooksStayJudged
<1>8. BooksCounted'
  <2>1. ledgers \in Seq(LedgerRecords) /\ trades \in Seq(TradeRecords)
    BY <1>1 DEF BooksTyped
  <2> QED
    BY <1>1, <1>4, <2>1, BooksStayCounted
<1>9. SummaryAgrees'
  BY <1>1, <1>3 DEF SummaryAgrees
<1> QED
  BY <1>5, <1>6, <1>7, <1>8, <1>9 DEF BacktestInv

LEMMA BacktestSteps == BacktestKept /\ [MCNext]_mc_vars => BacktestKept'
<1> SUFFICES ASSUME BacktestKept, [MCNext]_mc_vars, part' = "backtest" PROVE BacktestInv'
  BY DEF BacktestKept
<1>1. part = "backtest" /\ (Backtest!BacktestNext \/ UNCHANGED backtest_vars)
  BY BacktestFrame
<1>2. BacktestInv
  BY <1>1 DEF BacktestKept
<1>3. BooksTyped /\ BooksPlaced /\ BooksJudged /\ BooksCounted /\ SummaryAgrees
  BY <1>2 DEF BacktestInv
<1>4. ledgers \in Seq(LedgerRecords) /\ Len(ledgers) \in Nat /\ trades \in Seq(TradeRecords)
  BY <1>3 DEF BooksTyped
<1>5. \A j \in DOMAIN ledgers : ledgers[j].at \in Int
  <2> TAKE j \in DOMAIN ledgers
  <2>1. ledgers[j] \in LedgerRecords
    BY <1>4
  <2> QED
    BY <2>1 DEF LedgerRecords
<1>6. ASSUME ledgers' = ledgers, trades' = trades, summary' = summary, BooksTyped', BooksPlaced' PROVE BacktestInv'
  <2>1. SummaryAgrees'
    BY <1>3, <1>6 DEF SummaryAgrees
  <2>2. BooksJudged' /\ BooksCounted'
    BY <1>3, <1>6, BooksUntouched
  <2> QED
    BY <1>6, <2>1, <2>2 DEF BacktestInv
<1>7. CASE UNCHANGED backtest_vars
  <2>1. BooksTyped' /\ BooksPlaced'
    BY <1>3, <1>7 DEF backtest_vars, BooksTyped, BooksPlaced, Backtest!InWindowOf
  <2> QED
    BY <1>6, <1>7, <2>1 DEF backtest_vars
<1>8. CASE Backtest!SkipBar \/ Backtest!NoCandidate
  <2>1. /\ ledgers' = ledgers /\ trades' = trades /\ summary' = summary /\ pair' = pair /\ bar' = bar + 1
        /\ occupied_until' = occupied_until
    BY <1>8 DEF Backtest!SkipBar, Backtest!NoCandidate
  <2>2. bar \in 1..5
    BY <1>3, <1>8, PairsAre DEF Backtest!SkipBar, Backtest!NoCandidate, Backtest!Scanning, BooksTyped
  <2>3. BooksTyped'
    BY <1>3, <1>8, <2>1, <2>2, PairsAre DEF BooksTyped, Backtest!SkipBar, Backtest!NoCandidate, Backtest!Scanning
  <2>4. BooksPlaced'
    <3>1. \A j \in DOMAIN ledgers : ledgers[j].at < bar => ledgers[j].at < bar'
      BY <1>5, <2>1, <2>2
    <3> QED
      BY <1>3, <2>1, <3>1 DEF BooksPlaced, Backtest!InWindowOf
  <2> QED
    BY <1>6, <2>1, <2>3, <2>4
<1>9. CASE Backtest!Candidate
  BY <1>2, <1>9, CandidateKeeps
<1>10. CASE Backtest!NextSymbol
  <2>1. /\ ledgers' = ledgers /\ trades' = trades /\ summary' = summary /\ pair' = pair + 1 /\ bar' = 1
        /\ occupied_until' = 0
    BY <1>10 DEF Backtest!NextSymbol
  <2>2. pair \in 1..2 /\ bar = 6
    BY <1>3, <1>10, PairsAre DEF Backtest!NextSymbol, BooksTyped
  <2>3. BooksTyped'
    BY <1>3, <1>4, <2>1, <2>2 DEF BooksTyped
  <2>4. BooksPlaced'
    BY <1>3, <2>1, <2>2 DEF BooksPlaced, Backtest!InWindowOf
  <2> QED
    BY <1>6, <2>1, <2>3, <2>4
<1>11. CASE Backtest!Summarize
  <2>1. /\ ledgers' = ledgers /\ trades' = trades /\ pair' = pair /\ bar' = bar /\ occupied_until' = occupied_until
    BY <1>11 DEF Backtest!Summarize
  <2>2. BooksTyped' /\ BooksPlaced'
    BY <1>3, <2>1 DEF BooksTyped, BooksPlaced, Backtest!InWindowOf
  <2>3. BooksJudged' /\ BooksCounted'
    BY <1>3, <2>1, BooksUntouched
  <2>4. SummaryAgrees'
    BY <1>3, <1>11, SummaryShown
  <2> QED
    BY <2>2, <2>3, <2>4 DEF BacktestInv
<1> QED
  BY <1>1, <1>7, <1>8, <1>9, <1>10, <1>11 DEF Backtest!BacktestNext

LEMMA BacktestStarts == Backtest!BacktestInit => BacktestInv
<1> SUFFICES ASSUME Backtest!BacktestInit PROVE BacktestInv
  OBVIOUS
<1>1. /\ pair = 1 /\ bar = 1 /\ occupied_until = 0 /\ trades = <<>> /\ ledgers = <<>>
      /\ summary = Backtest!NoSummary
  BY DEF Backtest!BacktestInit
<1>2. DOMAIN trades = {} /\ DOMAIN ledgers = {} /\ Len(ledgers) = 0
  BY <1>1
<1>3. BooksTyped
  BY <1>1, <1>2 DEF BooksTyped
<1>4. BooksPlaced /\ BooksJudged
  BY <1>2 DEF BooksPlaced, BooksJudged
<1>5. BooksCounted
  <2>1. Admitted(ledgers) = {} /\ AdmittedWins(ledgers) = {} /\ Guarded(trades) = {} /\ GuardedWins(trades) = {}
    BY <1>2 DEF Admitted, AdmittedWins, Guarded, GuardedWins
  <2> QED
    BY <2>1 DEF BooksCounted
<1>6. SummaryAgrees
  BY <1>1 DEF SummaryAgrees
<1> QED
  BY <1>3, <1>4, <1>5, <1>6 DEF BacktestInv

LEMMA ReplayBooks == BacktestInv => Backtest!ReplayBooksAgree
<1> SUFFICES ASSUME BacktestInv PROVE Backtest!ReplayBooksAgree
  OBVIOUS
<1>1. BooksPlaced /\ BooksJudged /\ SummaryAgrees
  BY DEF BacktestInv
<1>2. \A i \in DOMAIN trades, j \in DOMAIN ledgers : ~Backtest!InWindowOf(trades[i], ledgers[j])
  BY <1>1 DEF BooksPlaced
<1>3. \A j \in DOMAIN ledgers : Backtest!LivePass(ledgers[j]) # ledgers[j].admitted =>
                                  ledgers[j].admitted /\ ledgers[j].phase = "range"
  BY <1>1 DEF BooksJudged, NoLaxer
<1> QED
  BY <1>1, <1>2, <1>3 DEF Backtest!ReplayBooksAgree, SummaryAgrees

-----------------------------------------------------------------------------
(* The replayed account.                                                      *)

\* What the two tapes say of their trades.
LEMMA TapeFacts ==
  ASSUME NEW t \in MCTapes
  PROVE  /\ DOMAIN t = {1, 2, 3}
         /\ \A i \in DOMAIN t : /\ t[i].entry \in Nat /\ t[i].exit \in Nat /\ t[i].entry < t[i].exit
                                /\ t[i].price \in Int /\ t[i].stop \in Int /\ t[i].points \in Int
         /\ \A i, k \in DOMAIN t : t[i].symbol = t[k].symbol /\ t[i].entry = t[k].entry => i = k
<1> DEFINE a == <<Trade("US30", 2, 4, 20, 15), Trade("US30", 3, 4, 20, -40), Trade("NAS100", 2, 4, 30, 9)>>
           b == <<Trade("US30", 1, 2, 20, 7), Trade("US30", 2, 3, 20, -12), Trade("US30", 3, 4, 20, 30)>>
<1>1. t = a \/ t = b
  BY DEF MCTapes
<1>2. /\ DOMAIN a = 1..3 /\ a[1] = Trade("US30", 2, 4, 20, 15) /\ a[2] = Trade("US30", 3, 4, 20, -40)
      /\ a[3] = Trade("NAS100", 2, 4, 30, 9)
  OBVIOUS
<1>3. /\ DOMAIN b = 1..3 /\ b[1] = Trade("US30", 1, 2, 20, 7) /\ b[2] = Trade("US30", 2, 3, 20, -12)
      /\ b[3] = Trade("US30", 3, 4, 20, 30)
  OBVIOUS
<1>4. 1..3 = {1, 2, 3}
  OBVIOUS
<1> HIDE DEF a, b
<1>5. CASE t = a
  BY <1>2, <1>4, <1>5 DEF Trade
<1>6. CASE t = b
  BY <1>3, <1>4, <1>6 DEF Trade
<1> QED
  BY <1>1, <1>5, <1>6

LEMMA BookCardinality == \A S : Book!Cardinality(S) = Cardinality(S)
BY DEF Book!Cardinality, Cardinality

\* The least and the greatest of some days.
LEMMA DaysOrdered ==
  ASSUME NEW S \in SUBSET (-9..9), S # {}
  PROVE  Book!Min(S) \in S /\ Book!Max(S) \in S
<1>1. \E m \in S : \A k \in S : m <= k
  <2> DEFINE T == {k + 9 : k \in S}
  <2>0. \A k \in S : k \in Int /\ k + 9 \in Nat
    OBVIOUS
  <2>1. T \in SUBSET Nat /\ T # {}
    BY <2>0
  <2> HIDE DEF T
  <2>2. PICK m \in T : \A k \in T : m <= k
    BY <2>1, LeastNat
  <2>3. PICK x \in S : m = x + 9
    BY DEF T
  <2>4. \A k \in S : x <= k
    <3> TAKE k \in S
    <3>1. m <= k + 9
      BY <2>2 DEF T
    <3> QED
      BY <2>0, <2>3, <3>1
  <2> QED
    BY <2>4
<1>2. \E m \in S : \A k \in S : k <= m
  <2> DEFINE T == {9 - k : k \in S}
  <2>0. \A k \in S : k \in Int /\ 9 - k \in Nat
    OBVIOUS
  <2>1. T \in SUBSET Nat /\ T # {}
    BY <2>0
  <2> HIDE DEF T
  <2>2. PICK m \in T : \A k \in T : m <= k
    BY <2>1, LeastNat
  <2>3. PICK x \in S : m = 9 - x
    BY DEF T
  <2>4. \A k \in S : k <= x
    <3> TAKE k \in S
    <3>1. m <= 9 - k
      BY <2>2 DEF T
    <3> QED
      BY <2>0, <2>3, <3>1
  <2> QED
    BY <2>4
<1>3. \A m, k \in S : k <= m <=> m >= k
  OBVIOUS
<1> QED
  BY <1>1, <1>2, <1>3 DEF Book!Min, Book!Max

LEMMA SpanInDays ==
  ASSUME NEW raw \in MCTapes, NEW breakout \in {{}, {1, 2, 3, 4}, {1, 3}, {1}}
  PROVE  Book!Span(raw, breakout).from \in Int /\ Book!Span(raw, breakout).to \in Int
<1> DEFINE entries == {raw[i].entry : i \in DOMAIN raw}
           exits == {raw[i].exit : i \in DOMAIN raw}
           days == IF breakout = {} THEN entries ELSE breakout
           to == Book!Min({Book!Max(days), Book!Max(exits)})
<1>1. entries \in SUBSET (0..4) /\ exits \in SUBSET (0..4) /\ entries # {} /\ exits # {}
  <2> DEFINE a == <<Trade("US30", 2, 4, 20, 15), Trade("US30", 3, 4, 20, -40), Trade("NAS100", 2, 4, 30, 9)>>
             b == <<Trade("US30", 1, 2, 20, 7), Trade("US30", 2, 3, 20, -12), Trade("US30", 3, 4, 20, 30)>>
  <2>1. raw = a \/ raw = b
    BY DEF MCTapes
  <2>2. /\ a[1] = Trade("US30", 2, 4, 20, 15) /\ a[2] = Trade("US30", 3, 4, 20, -40)
        /\ a[3] = Trade("NAS100", 2, 4, 30, 9)
    OBVIOUS
  <2>3. /\ b[1] = Trade("US30", 1, 2, 20, 7) /\ b[2] = Trade("US30", 2, 3, 20, -12)
        /\ b[3] = Trade("US30", 3, 4, 20, 30)
    OBVIOUS
  <2>4. DOMAIN raw = {1, 2, 3}
    BY TapeFacts
  <2> HIDE DEF a, b
  <2>5. \A i \in DOMAIN raw : raw[i].entry \in 0..4 /\ raw[i].exit \in 0..4
    BY <2>1, <2>2, <2>3, <2>4 DEF Trade
  <2> QED
    BY <2>4, <2>5
<1>2. days \in SUBSET (0..4) /\ days # {}
  BY <1>1
<1> HIDE DEF entries, exits, days
<1>3. /\ Book!Max(days) \in 0..4 /\ Book!Min(days) \in 0..4 /\ Book!Max(exits) \in 0..4
      /\ Book!Min(entries) \in 0..4
  <2>1. /\ days \in SUBSET (-9..9) /\ exits \in SUBSET (-9..9) /\ entries \in SUBSET (-9..9)
    BY <1>1, <1>2
  <2>2. Book!Max(days) \in days /\ Book!Min(days) \in days
    BY <1>2, <2>1, DaysOrdered
  <2>3. Book!Max(exits) \in exits /\ Book!Min(entries) \in entries
    BY <1>1, <2>1, DaysOrdered
  <2> QED
    BY <1>1, <1>2, <2>2, <2>3
<1>4. to \in 0..4
  <2> DEFINE S == {Book!Max(days), Book!Max(exits)}
  <2>1. S \in SUBSET (-9..9) /\ S \in SUBSET (0..4) /\ S # {}
    BY <1>3
  <2> HIDE DEF S
  <2>2. Book!Min(S) \in S
    BY <2>1, DaysOrdered
  <2> QED
    BY <2>1, <2>2 DEF S
<1>5. Book!Max({Book!Min(days), Book!Min(entries), to - 2}) \in Int
  <2> DEFINE S == {Book!Min(days), Book!Min(entries), to - 2}
  <2> HIDE DEF to
  <2>1. S \in SUBSET (-9..9) /\ S # {}
    BY <1>3, <1>4
  <2> HIDE DEF S
  <2>2. Book!Max(S) \in S
    BY <2>1, DaysOrdered
  <2> QED
    BY <2>1, <2>2 DEF S
<1>6. /\ Book!Span(raw, breakout).to = to
      /\ Book!Span(raw, breakout).from = Book!Max({Book!Min(days), Book!Min(entries), to - 2})
  BY DEF Book!Span, entries, exits, days
<1> QED
  BY <1>4, <1>5, <1>6

\* A sum over some trades is a number.
AccountFold(g, f, S) ==
  g = [s \in SUBSET S |-> IF s = {} THEN 0 ELSE f[CHOOSE x \in s : TRUE] + g[s \ {CHOOSE x \in s : TRUE}]]

LEMMA AccountSum ==
  ASSUME NEW S, IsFiniteSet(S), NEW f, \A x \in S : f[x] \in Int
  PROVE  (CHOOSE g : AccountFold(g, f, S))[S] \in Int
<1> DEFINE pick == [s \in SUBSET S |-> CHOOSE x \in s : TRUE]
           next == [p \in S \X Int |-> f[p[1]] + p[2]]
           Typed(g) == \A s \in SUBSET S : g[s] \in Int
<1>1. \A s \in SUBSET S : s # {} => pick[s] \in s /\ pick[s] = CHOOSE x \in s : TRUE
  OBVIOUS
<1>2. \A x \in S, v \in Int : next[<<x, v>>] = f[x] + v /\ f[x] + v \in Int
  OBVIOUS
<1> HIDE DEF pick, next
<1>3. PICK g : Folded(g, 0, pick, next, S)
  BY <1>1, FoldExists
<1>4. ASSUME NEW h, Folded(h, 0, pick, next, S) \/ AccountFold(h, f, S) PROVE Typed(h)
  <2> DEFINE wrong == {s \in SUBSET S : h[s] \notin Int}
  <2> SUFFICES ASSUME wrong # {} PROVE FALSE
    OBVIOUS
  <2>1. PICK s \in wrong : \A x \in s : s \ {x} \notin wrong
    <3>1. wrong \in SUBSET SUBSET S
      OBVIOUS
    <3> HIDE DEF wrong
    <3> QED
      BY <3>1, SmallestSet
  <2>2. s \in SUBSET S /\ h[s] \notin Int
    OBVIOUS
  <2>3. s # {}
    <3>1. Folded(h, 0, pick, next, S) => h[{}] = 0
      BY DEF Folded
    <3>2. AccountFold(h, f, S) => h[{}] = 0
      BY DEF AccountFold
    <3>3. h[{}] \in Int
      BY <1>4, <3>1, <3>2
    <3> QED
      BY <2>2, <3>3
  <2>4. /\ pick[s] \in s /\ pick[s] = CHOOSE x \in s : TRUE
    BY <1>1, <2>2, <2>3
  <2>5. h[s \ {pick[s]}] \in Int /\ pick[s] \in S
    BY <2>1, <2>2, <2>4
  <2>6. CASE Folded(h, 0, pick, next, S)
    <3>1. h[s] = next[<<pick[s], h[s \ {pick[s]}]>>]
      BY <2>2, <2>3, <2>6 DEF Folded
    <3> QED
      BY <1>2, <2>2, <2>5, <3>1
  <2>7. CASE AccountFold(h, f, S)
    <3>1. h[s] = f[CHOOSE x \in s : TRUE] + h[s \ {CHOOSE x \in s : TRUE}]
      BY <2>2, <2>3, <2>7 DEF AccountFold
    <3>2. h[s] = f[pick[s]] + h[s \ {pick[s]}]
      BY <2>4, <3>1
    <3>3. f[pick[s]] \in Int
      BY <2>5
    <3> QED
      BY <2>2, <2>5, <3>2, <3>3
  <2> QED
    BY <1>4, <2>6, <2>7
<1>5. Typed(g)
  BY <1>3, <1>4
<1>6. AccountFold(g, f, S)
  <2>1. \A s \in SUBSET S : s # {} =>
          next[<<pick[s], g[s \ {pick[s]}]>>] = f[CHOOSE x \in s : TRUE] + g[s \ {CHOOSE x \in s : TRUE}]
    <3> TAKE s \in SUBSET S
    <3> HAVE s # {}
    <3>1. pick[s] \in s /\ pick[s] = CHOOSE x \in s : TRUE
      BY <1>1
    <3>2. g[s \ {pick[s]}] \in Int /\ pick[s] \in S
      BY <1>5, <3>1
    <3>3. next[<<pick[s], g[s \ {pick[s]}]>>] = f[pick[s]] + g[s \ {pick[s]}]
      BY <1>2, <3>2
    <3> QED
      BY <3>1, <3>3
  <2> QED
    BY <1>3, <2>1 DEF Folded, AccountFold
<1> DEFINE it == CHOOSE h : AccountFold(h, f, S)
<1>7. AccountFold(it, f, S)
  BY <1>6
<1> HIDE DEF it
<1>8. Typed(it)
  BY <1>4, <1>7
<1>9. it[S] \in Int
  BY <1>8
<1> QED
  BY <1>9 DEF it

BookShape ==
  /\ taped \in MCTapes /\ span.from \in Int /\ span.to \in Int /\ date \in Int
  /\ today_bars \in [Book!TapeSymbols -> MCBars] /\ last_close \in [Book!TapeSymbols -> Int]
  /\ positions = [i \in DOMAIN positions |-> positions[i]]
  /\ DOMAIN positions \in SUBSET DOMAIN taped /\ \A i \in DOMAIN positions : positions[i] \in Int
  /\ consumed \in SUBSET DOMAIN taped
  /\ peak \in Int /\ peak >= 100 /\ marked \in Int

BookSums ==
  /\ stats = [champion |-> stats.champion, meanrev |-> stats.meanrev, filled |-> stats.filled,
              stopped |-> stats.stopped, exited |-> stats.exited]
  /\ stats.champion \in Int /\ stats.meanrev \in Int /\ stats.filled \in Int
  /\ stats.stopped \in Int /\ stats.exited \in Int
  /\ equity = 100 + stats.champion + stats.meanrev
  /\ stats.filled = Cardinality(DOMAIN positions) + stats.stopped + stats.exited

\* A trade is entered on its day, once, and is out by the day it ends.
BookPlaces ==
  /\ DOMAIN positions \cap consumed = {}
  /\ \A i \in (DOMAIN positions) \cup consumed :
       taped[i].entry <= date /\ (step # "mark" => taped[i].entry < date)
  /\ \A i \in DOMAIN positions : /\ taped[i].exit <= span.to /\ date <= taped[i].exit
                                 /\ step \in {"entries", "mark"} => date < taped[i].exit
  /\ \A i, k \in DOMAIN positions : taped[i].symbol = taped[k].symbol => i = k

BookEnd ==
  /\ outcome \in {"running", "blown", "report"}
  /\ outcome = "running" => date <= span.to
  /\ outcome = "blown" => {<<date, "internal_dd">>, <<date, "firm_dd">>} \subseteq hits

BookInv == BookShape /\ BookSums /\ BookPlaces /\ BookEnd

LEMMA TradesOfTape ==
  ASSUME BookShape
  PROVE  /\ IsFiniteSet(DOMAIN taped) /\ IsFiniteSet(DOMAIN positions)
         /\ \A i \in DOMAIN taped :
              /\ taped[i].entry \in Nat /\ taped[i].exit \in Nat /\ taped[i].entry < taped[i].exit
              /\ taped[i].price \in Int /\ taped[i].stop \in Int /\ taped[i].points \in Int
              /\ taped[i].symbol \in Book!TapeSymbols
         /\ \A i, k \in DOMAIN taped : taped[i].symbol = taped[k].symbol /\ taped[i].entry = taped[k].entry => i = k
<1>1. IsFiniteSet({1, 2, 3})
  <2>1. 1 \in Int /\ 3 \in Int
    OBVIOUS
  <2>2. IsFiniteSet(1..3)
    BY <2>1, FS_Interval
  <2>3. 1..3 = {1, 2, 3}
    OBVIOUS
  <2> QED
    BY <2>2, <2>3
<1>2. DOMAIN taped = {1, 2, 3}
  BY TapeFacts DEF BookShape
<1>3. IsFiniteSet(DOMAIN taped) /\ IsFiniteSet(DOMAIN positions)
  BY <1>1, <1>2, FS_Subset DEF BookShape
<1>4. \A i \in DOMAIN taped : taped[i].symbol \in Book!TapeSymbols
  BY DEF Book!TapeSymbols
<1> QED
  BY <1>3, <1>4, TapeFacts DEF BookShape

LEMMA BarsOfPoints == \A b \in MCBars : b.open \in Int /\ b.low \in Int /\ b.close \in Int
BY DEF MCBars

\* What the positions that were stopped, or are due, bring; and what the rest floats at.
LEMMA StoppedResult ==
  ASSUME BookShape
  PROVE  Book!MapThenSumSet(LAMBDA i : positions[i] * (Book!Fill(i) - taped[i].price - 1), Book!Stopped) \in Int
<1> DEFINE S == Book!Stopped
           f == [i \in S |-> positions[i] * (Book!Fill(i) - taped[i].price - 1)]
           Summing(g) == g = [s \in SUBSET S |-> IF s = {} THEN 0 ELSE positions[CHOOSE x \in s : TRUE] * (Book!Fill(CHOOSE x \in s : TRUE) - taped[CHOOSE x \in s : TRUE].price - 1) + g[s \ {CHOOSE x \in s : TRUE}]]
<1>1. S \in SUBSET DOMAIN positions
  BY DEF Book!Stopped, Book!Opened
<1>2. \A i \in S : f[i] \in Int
  <2> TAKE i \in S
  <2>1. i \in DOMAIN positions /\ i \in DOMAIN taped
    BY <1>1 DEF BookShape
  <2>2. /\ positions[i] \in Int /\ taped[i].price \in Int /\ taped[i].stop \in Int
        /\ today_bars[taped[i].symbol] \in MCBars
    BY <2>1, TradesOfTape DEF BookShape
  <2>3. Book!Fill(i) \in Int
    BY <2>2, BarsOfPoints DEF Book!Fill
  <2>4. \A a, b, c \in Int : a * (b - c - 1) \in Int
    OBVIOUS
  <2> QED
    BY <2>2, <2>3, <2>4
<1>3. IsFiniteSet(S)
  BY <1>1, TradesOfTape, FS_Subset
<1>4. ASSUME NEW g PROVE AccountFold(g, f, S) <=> Summing(g)
  <2>1. \A s \in SUBSET S : s # {} =>
          f[CHOOSE x \in s : TRUE] = positions[CHOOSE x \in s : TRUE] * (Book!Fill(CHOOSE x \in s : TRUE) - taped[CHOOSE x \in s : TRUE].price - 1)
    OBVIOUS
  <2>2. [s \in SUBSET S |-> IF s = {} THEN 0 ELSE f[CHOOSE x \in s : TRUE] + g[s \ {CHOOSE x \in s : TRUE}]]
        = [s \in SUBSET S |-> IF s = {} THEN 0 ELSE positions[CHOOSE x \in s : TRUE] * (Book!Fill(CHOOSE x \in s : TRUE) - taped[CHOOSE x \in s : TRUE].price - 1) + g[s \ {CHOOSE x \in s : TRUE}]]
    BY <2>1
  <2> QED
    BY <2>2 DEF AccountFold
<1>5. Book!MapThenSumSet(LAMBDA i : positions[i] * (Book!Fill(i) - taped[i].price - 1), S) = (CHOOSE g : Summing(g))[S]
  BY DEF Book!MapThenSumSet, Book!MapThenFoldSet
<1> HIDE DEF f, S
<1>6. (CHOOSE g : AccountFold(g, f, S))[S] \in Int
  BY <1>2, <1>3, AccountSum
<1> HIDE DEF Summing
<1>7. (CHOOSE g : Summing(g)) = (CHOOSE g : AccountFold(g, f, S))
  BY <1>4
<1> QED
  BY <1>5, <1>6, <1>7 DEF S

LEMMA DueResult ==
  ASSUME BookShape
  PROVE  Book!MapThenSumSet(LAMBDA i : positions[i] * taped[i].points, Book!Due) \in Int
<1> DEFINE S == Book!Due
           f == [i \in S |-> positions[i] * taped[i].points]
           Summing(g) == g = [s \in SUBSET S |-> IF s = {} THEN 0 ELSE positions[CHOOSE x \in s : TRUE] * taped[CHOOSE x \in s : TRUE].points + g[s \ {CHOOSE x \in s : TRUE}]]
<1>1. S \in SUBSET DOMAIN positions
  BY DEF Book!Due, Book!Opened
<1>2. \A i \in S : f[i] \in Int
  <2> TAKE i \in S
  <2>1. i \in DOMAIN positions /\ i \in DOMAIN taped
    BY <1>1 DEF BookShape
  <2>2. positions[i] \in Int /\ taped[i].points \in Int
    BY <2>1, TradesOfTape DEF BookShape
  <2>3. \A a, b \in Int : a * b \in Int
    OBVIOUS
  <2> QED
    BY <2>2, <2>3
<1>3. IsFiniteSet(S)
  BY <1>1, TradesOfTape, FS_Subset
<1>4. ASSUME NEW g PROVE AccountFold(g, f, S) <=> Summing(g)
  <2>1. \A s \in SUBSET S : s # {} =>
          f[CHOOSE x \in s : TRUE] = positions[CHOOSE x \in s : TRUE] * taped[CHOOSE x \in s : TRUE].points
    OBVIOUS
  <2>2. [s \in SUBSET S |-> IF s = {} THEN 0 ELSE f[CHOOSE x \in s : TRUE] + g[s \ {CHOOSE x \in s : TRUE}]]
        = [s \in SUBSET S |-> IF s = {} THEN 0 ELSE positions[CHOOSE x \in s : TRUE] * taped[CHOOSE x \in s : TRUE].points + g[s \ {CHOOSE x \in s : TRUE}]]
    BY <2>1
  <2> QED
    BY <2>2 DEF AccountFold
<1>5. Book!MapThenSumSet(LAMBDA i : positions[i] * taped[i].points, S) = (CHOOSE g : Summing(g))[S]
  BY DEF Book!MapThenSumSet, Book!MapThenFoldSet
<1> HIDE DEF f, S
<1>6. (CHOOSE g : AccountFold(g, f, S))[S] \in Int
  BY <1>2, <1>3, AccountSum
<1> HIDE DEF Summing
<1>7. (CHOOSE g : Summing(g)) = (CHOOSE g : AccountFold(g, f, S))
  BY <1>4
<1> QED
  BY <1>5, <1>6, <1>7 DEF S

\* What one position floats at.
FloatOf(held_now, closes, i) ==
  IF closes[taped[i].symbol] = 0 THEN 0 ELSE held_now[i] * (closes[taped[i].symbol] - taped[i].price)

LEMMA FloatingResult ==
  ASSUME BookShape, NEW closes \in [Book!TapeSymbols -> Int]
  PROVE  Book!Floating(positions, closes) \in Int
<1> DEFINE S == DOMAIN positions
           F(i) == FloatOf(positions, closes, i)
           f == [i \in S |-> F(i)]
           Summing(g) == g = [s \in SUBSET S |-> IF s = {} THEN 0 ELSE F(CHOOSE x \in s : TRUE) + g[s \ {CHOOSE x \in s : TRUE}]]
<1>2. \A i \in S : f[i] \in Int
  <2> TAKE i \in S
  <2>1. i \in DOMAIN taped
    BY DEF BookShape
  <2>2. positions[i] \in Int /\ taped[i].price \in Int /\ closes[taped[i].symbol] \in Int
    BY <2>1, TradesOfTape DEF BookShape
  <2>3. \A a, b, c \in Int : a * (b - c) \in Int
    OBVIOUS
  <2> QED
    BY <2>2, <2>3 DEF FloatOf
<1>3. IsFiniteSet(S)
  BY TradesOfTape
<1>4. ASSUME NEW g PROVE AccountFold(g, f, S) <=> Summing(g)
  <2>1. \A s \in SUBSET S : s # {} => f[CHOOSE x \in s : TRUE] = F(CHOOSE x \in s : TRUE)
    OBVIOUS
  <2> HIDE DEF F
  <2>2. [s \in SUBSET S |-> IF s = {} THEN 0 ELSE f[CHOOSE x \in s : TRUE] + g[s \ {CHOOSE x \in s : TRUE}]]
        = [s \in SUBSET S |-> IF s = {} THEN 0 ELSE F(CHOOSE x \in s : TRUE) + g[s \ {CHOOSE x \in s : TRUE}]]
    BY <2>1
  <2> QED
    BY <2>2 DEF AccountFold
<1>5. Book!Floating(positions, closes) = (CHOOSE g : Summing(g))[S]
  BY DEF Book!Floating, Book!MapThenSumSet, Book!MapThenFoldSet, FloatOf
<1> HIDE DEF f, S
<1>6. (CHOOSE g : AccountFold(g, f, S))[S] \in Int
  BY <1>2, <1>3, AccountSum
<1> HIDE DEF Summing
<1>7. (CHOOSE g : Summing(g)) = (CHOOSE g : AccountFold(g, f, S))
  BY <1>4
<1> QED
  BY <1>5, <1>6, <1>7 DEF S

\* What a step books of the engines' results and of the positions' ends.
LEMMA StatsBooked ==
  ASSUME NEW s, NEW a, NEW b,
         s = [champion |-> s.champion, meanrev |-> s.meanrev, filled |-> s.filled, stopped |-> s.stopped,
              exited |-> s.exited]
  PROVE  /\ [s EXCEPT !.meanrev = @ + a, !.stopped = @ + b]
            = [champion |-> s.champion, meanrev |-> s.meanrev + a, filled |-> s.filled,
               stopped |-> s.stopped + b, exited |-> s.exited]
         /\ [s EXCEPT !.meanrev = @ + a, !.exited = @ + b]
            = [champion |-> s.champion, meanrev |-> s.meanrev + a, filled |-> s.filled,
               stopped |-> s.stopped, exited |-> s.exited + b]
         /\ [s EXCEPT !.champion = @ + a]
            = [champion |-> s.champion + a, meanrev |-> s.meanrev, filled |-> s.filled,
               stopped |-> s.stopped, exited |-> s.exited]
         /\ [s EXCEPT !.filled = @ + a]
            = [champion |-> s.champion, meanrev |-> s.meanrev, filled |-> s.filled + a,
               stopped |-> s.stopped, exited |-> s.exited]
<1> DEFINE c == s.champion
           m == s.meanrev
           f == s.filled
           t == s.stopped
           e == s.exited
<1>1. s = [champion |-> c, meanrev |-> m, filled |-> f, stopped |-> t, exited |-> e]
  OBVIOUS
<1> HIDE DEF c, m, f, t, e
<1>2. [s EXCEPT !.meanrev = @ + a]
      = [champion |-> c, meanrev |-> m + a, filled |-> f, stopped |-> t, exited |-> e]
  <2>1. [[champion |-> c, meanrev |-> m, filled |-> f, stopped |-> t, exited |-> e] EXCEPT !.meanrev = @ + a]
        = [champion |-> c, meanrev |-> m + a, filled |-> f, stopped |-> t, exited |-> e]
    OBVIOUS
  <2> QED
    BY <1>1, <2>1 DEF m
<1>3. /\ [s EXCEPT !.meanrev = @ + a, !.stopped = @ + b] = [[s EXCEPT !.meanrev = @ + a] EXCEPT !.stopped = t + b]
      /\ [s EXCEPT !.meanrev = @ + a, !.exited = @ + b] = [[s EXCEPT !.meanrev = @ + a] EXCEPT !.exited = e + b]
  BY DEF t, e
<1>4. /\ [[champion |-> c, meanrev |-> m + a, filled |-> f, stopped |-> t, exited |-> e] EXCEPT !.stopped = t + b]
         = [champion |-> c, meanrev |-> m + a, filled |-> f, stopped |-> t + b, exited |-> e]
      /\ [[champion |-> c, meanrev |-> m + a, filled |-> f, stopped |-> t, exited |-> e] EXCEPT !.exited = e + b]
         = [champion |-> c, meanrev |-> m + a, filled |-> f, stopped |-> t, exited |-> e + b]
  OBVIOUS
<1>5. [[champion |-> c, meanrev |-> m, filled |-> f, stopped |-> t, exited |-> e] EXCEPT !.champion = @ + a]
         = [champion |-> c + a, meanrev |-> m, filled |-> f, stopped |-> t, exited |-> e]
  OBVIOUS
<1>6. [[champion |-> c, meanrev |-> m, filled |-> f, stopped |-> t, exited |-> e] EXCEPT !.filled = @ + a]
         = [champion |-> c, meanrev |-> m, filled |-> f + a, stopped |-> t, exited |-> e]
  OBVIOUS
<1>7. /\ [s EXCEPT !.meanrev = @ + a, !.stopped = @ + b]
         = [champion |-> c, meanrev |-> m + a, filled |-> f, stopped |-> t + b, exited |-> e]
      /\ [s EXCEPT !.meanrev = @ + a, !.exited = @ + b]
         = [champion |-> c, meanrev |-> m + a, filled |-> f, stopped |-> t, exited |-> e + b]
  BY <1>2, <1>3, <1>4
<1>8. /\ [s EXCEPT !.champion = @ + a]
         = [champion |-> c + a, meanrev |-> m, filled |-> f, stopped |-> t, exited |-> e]
      /\ [s EXCEPT !.filled = @ + a]
         = [champion |-> c, meanrev |-> m, filled |-> f + a, stopped |-> t, exited |-> e]
  BY <1>1, <1>5, <1>6
<1> QED
  BY <1>7, <1>8 DEF c, m, f, t, e

\* Some of the positions leave the book, for what they bring.
LEMMA PositionsLeave ==
  ASSUME BookInv, outcome = "running", NEW S \in SUBSET DOMAIN positions, NEW pnl \in Int,
         NEW a \in Nat, NEW b \in Nat, a + b = Cardinality(S),
         equity' = equity + pnl,
         stats' = [champion |-> stats.champion, meanrev |-> stats.meanrev + pnl, filled |-> stats.filled,
                   stopped |-> stats.stopped + a, exited |-> stats.exited + b],
         consumed' = consumed \cup S, positions' = Book!Without(S),
         step \in {"stops", "exits"}, step' \in {"champion", "entries"},
         step' = "entries" => \A i \in DOMAIN positions \ S : date < taped[i].exit,
         Book!Calendar
  PROVE  BookInv'
<1>1. UNCHANGED <<taped, champion_days, span, date, today_bars, last_close, peak, marked, hits, outcome>>
  BY DEF Book!Calendar
<1>2. /\ DOMAIN positions' = DOMAIN positions \ S
      /\ positions' = [i \in DOMAIN positions' |-> positions'[i]]
      /\ \A i \in DOMAIN positions' : positions'[i] = positions[i]
  BY DEF Book!Without, Book!Opened
<1>3. BookShape'
  <2>1. DOMAIN positions' \in SUBSET DOMAIN taped /\ consumed' \in SUBSET DOMAIN taped
    BY <1>2 DEF BookInv, BookShape
  <2>2. \A i \in DOMAIN positions' : positions'[i] \in Int
    BY <1>2 DEF BookInv, BookShape
  <2> QED
    BY <1>1, <1>2, <2>1, <2>2 DEF BookInv, BookShape, Book!TapeSymbols
<1>4. BookSums'
  <2>1. IsFiniteSet(DOMAIN positions)
    BY TradesOfTape DEF BookInv
  <2>2. Cardinality(DOMAIN positions \ S) = Cardinality(DOMAIN positions) - Cardinality((DOMAIN positions) \cap S)
    BY <2>1, FS_Difference
  <2>3. (DOMAIN positions) \cap S = S
    OBVIOUS
  <2>4. IsFiniteSet(S)
    BY <2>1, FS_Subset
  <2>5. Cardinality(S) \in Nat /\ Cardinality(DOMAIN positions) \in Nat
    BY <2>1, <2>4, FS_CardinalityType
  <2>6. Cardinality(DOMAIN positions') = Cardinality(DOMAIN positions) - Cardinality(S)
    BY <1>2, <2>2, <2>3
  <2>7. /\ stats.champion \in Int /\ stats.meanrev \in Int /\ stats.filled \in Int
        /\ stats.stopped \in Int /\ stats.exited \in Int
        /\ equity = 100 + stats.champion + stats.meanrev
        /\ stats.filled = Cardinality(DOMAIN positions) + stats.stopped + stats.exited
    BY DEF BookInv, BookSums
  <2> QED
    BY <2>5, <2>6, <2>7 DEF BookSums
<1>5. BookPlaces'
  <2>1. (DOMAIN positions') \cup consumed' = (DOMAIN positions) \cup consumed
    BY <1>2
  <2>2. DOMAIN positions' \cap consumed' = {}
    BY <1>2 DEF BookInv, BookPlaces
  <2>3. step # "mark" /\ step' # "mark"
    OBVIOUS
  <2>4. \A i \in (DOMAIN positions') \cup consumed' : taped'[i].entry <= date' /\ (step' # "mark" => taped'[i].entry < date')
    BY <1>1, <2>1, <2>3 DEF BookInv, BookPlaces
  <2>5. \A i \in DOMAIN positions' :
          /\ taped'[i].exit <= span'.to /\ date' <= taped'[i].exit
          /\ step' \in {"entries", "mark"} => date' < taped'[i].exit
    BY <1>1, <1>2 DEF BookInv, BookPlaces
  <2>6. \A i, k \in DOMAIN positions' : taped'[i].symbol = taped'[k].symbol => i = k
    BY <1>1, <1>2 DEF BookInv, BookPlaces
  <2> QED
    BY <2>2, <2>4, <2>5, <2>6 DEF BookPlaces
<1>6. BookEnd'
  BY <1>1 DEF BookInv, BookEnd
<1> QED
  BY <1>3, <1>4, <1>5, <1>6 DEF BookInv

LEMMA StopsBooked == BookInv /\ Book!StopPositions => BookInv'
<1> SUFFICES ASSUME BookInv, Book!StopPositions PROVE BookInv'
  OBVIOUS
<1> DEFINE pnl == Book!MapThenSumSet(LAMBDA i : positions[i] * (Book!Fill(i) - taped[i].price - 1), Book!Stopped)
<1>1. pnl \in Int
  BY StoppedResult DEF BookInv
<1>2. /\ equity' = equity + pnl
      /\ stats' = [champion |-> stats.champion, meanrev |-> stats.meanrev + pnl, filled |-> stats.filled,
                   stopped |-> stats.stopped + Cardinality(Book!Stopped), exited |-> stats.exited + 0]
      /\ consumed' = consumed \cup Book!Stopped /\ positions' = Book!Without(Book!Stopped)
      /\ step = "stops" /\ outcome = "running" /\ step' = "champion" /\ Book!Calendar
  <2>1. stats = [champion |-> stats.champion, meanrev |-> stats.meanrev, filled |-> stats.filled,
                stopped |-> stats.stopped, exited |-> stats.exited]
    BY DEF BookInv, BookSums
  <2>2. stats.stopped + 0 = stats.stopped /\ stats.exited + 0 = stats.exited
    BY DEF BookInv, BookSums
  <2>3. [stats EXCEPT !.meanrev = @ + pnl, !.stopped = @ + Cardinality(Book!Stopped)]
        = [champion |-> stats.champion, meanrev |-> stats.meanrev + pnl, filled |-> stats.filled,
           stopped |-> stats.stopped + Cardinality(Book!Stopped), exited |-> stats.exited]
    BY <2>1, StatsBooked, ZenonT(40)
  <2>4. Book!Cardinality(Book!Stopped) = Cardinality(Book!Stopped)
    BY BookCardinality
  <2>5. stats' = [stats EXCEPT !.meanrev = @ + pnl, !.stopped = @ + Cardinality(Book!Stopped)]
    BY <2>4 DEF Book!StopPositions
  <2>6. stats' = [champion |-> stats.champion, meanrev |-> stats.meanrev + pnl, filled |-> stats.filled,
                  stopped |-> stats.stopped + Cardinality(Book!Stopped), exited |-> stats.exited]
    BY <2>3, <2>5
  <2>7. /\ equity' = equity + pnl
        /\ consumed' = consumed \cup Book!Stopped /\ positions' = Book!Without(Book!Stopped)
        /\ step = "stops" /\ outcome = "running" /\ step' = "champion" /\ Book!Calendar
    BY DEF Book!StopPositions, Book!Running
  <2> QED
    BY <2>2, <2>6, <2>7
<1>3. Book!Stopped \in SUBSET DOMAIN positions
  BY DEF Book!Stopped, Book!Opened
<1> HIDE DEF pnl
<1>4. /\ Cardinality(Book!Stopped) \in Nat /\ 0 \in Nat /\ Cardinality(Book!Stopped) + 0 = Cardinality(Book!Stopped)
      /\ step \in {"stops", "exits"} /\ step' \in {"champion", "entries"} /\ step' # "entries"
  BY <1>2, <1>3, TradesOfTape, FS_Subset, FS_CardinalityType DEF BookInv
<1> QED
  BY <1>1, <1>2, <1>3, <1>4, PositionsLeave

LEMMA ExitsBooked == BookInv /\ Book!ExitScheduled => BookInv'
<1> SUFFICES ASSUME BookInv, Book!ExitScheduled PROVE BookInv'
  OBVIOUS
<1> DEFINE pnl == Book!MapThenSumSet(LAMBDA i : positions[i] * taped[i].points, Book!Due)
<1>1. pnl \in Int
  BY DueResult DEF BookInv
<1>2. /\ equity' = equity + pnl
      /\ stats' = [champion |-> stats.champion, meanrev |-> stats.meanrev + pnl, filled |-> stats.filled,
                   stopped |-> stats.stopped + 0, exited |-> stats.exited + Cardinality(Book!Due)]
      /\ consumed' = consumed \cup Book!Due /\ positions' = Book!Without(Book!Due)
      /\ step = "exits" /\ outcome = "running" /\ step' = "entries" /\ Book!Calendar
  <2>1. stats = [champion |-> stats.champion, meanrev |-> stats.meanrev, filled |-> stats.filled,
                stopped |-> stats.stopped, exited |-> stats.exited]
    BY DEF BookInv, BookSums
  <2>2. stats.stopped + 0 = stats.stopped /\ stats.exited + 0 = stats.exited
    BY DEF BookInv, BookSums
  <2>3. [stats EXCEPT !.meanrev = @ + pnl, !.exited = @ + Cardinality(Book!Due)]
        = [champion |-> stats.champion, meanrev |-> stats.meanrev + pnl, filled |-> stats.filled,
           stopped |-> stats.stopped, exited |-> stats.exited + Cardinality(Book!Due)]
    BY <2>1, StatsBooked
  <2>4. Book!Cardinality(Book!Due) = Cardinality(Book!Due)
    BY BookCardinality
  <2>5. stats' = [stats EXCEPT !.meanrev = @ + pnl, !.exited = @ + Cardinality(Book!Due)]
    BY <2>4 DEF Book!ExitScheduled
  <2>6. stats' = [champion |-> stats.champion, meanrev |-> stats.meanrev + pnl, filled |-> stats.filled,
                  stopped |-> stats.stopped, exited |-> stats.exited + Cardinality(Book!Due)]
    BY <2>3, <2>5
  <2>7. /\ equity' = equity + pnl
        /\ consumed' = consumed \cup Book!Due /\ positions' = Book!Without(Book!Due)
        /\ step = "exits" /\ outcome = "running" /\ step' = "entries" /\ Book!Calendar
    BY DEF Book!ExitScheduled, Book!Running
  <2> QED
    BY <2>2, <2>6, <2>7
<1>3. Book!Due \in SUBSET DOMAIN positions
  BY DEF Book!Due, Book!Opened
<1> HIDE DEF pnl
<1>4. /\ Cardinality(Book!Due) \in Nat /\ 0 \in Nat /\ 0 + Cardinality(Book!Due) = Cardinality(Book!Due)
      /\ step \in {"stops", "exits"} /\ step' \in {"champion", "entries"}
  BY <1>2, <1>3, TradesOfTape, FS_Subset, FS_CardinalityType DEF BookInv
<1>5. \A i \in DOMAIN positions \ Book!Due : date < taped[i].exit
  <2> TAKE i \in DOMAIN positions \ Book!Due
  <2>1. i \in DOMAIN positions /\ i \notin consumed /\ date <= taped[i].exit /\ i \in DOMAIN taped
    BY DEF BookInv, BookPlaces, BookShape
  <2>2. taped[i].exit # date
    BY <2>1 DEF Book!Due, Book!Opened
  <2>3. taped[i].exit \in Nat /\ date \in Int
    BY <2>1, TradesOfTape DEF BookInv, BookShape
  <2> QED
    BY <2>1, <2>2, <2>3
<1> QED
  BY <1>1, <1>2, <1>3, <1>4, <1>5, PositionsLeave

\* A breakout trade touches no position.
LEMMA ChampionBooked == BookInv /\ Book!TradeChampion => BookInv'
<1> SUFFICES ASSUME BookInv, Book!TradeChampion PROVE BookInv'
  OBVIOUS
<1>1. /\ UNCHANGED <<taped, champion_days, span, date, today_bars, last_close, peak, marked, hits, outcome>>
      /\ UNCHANGED <<positions, consumed>> /\ step = "champion" /\ step' = "exits"
  BY DEF Book!TradeChampion, Book!Calendar, Book!Running
<1>2. \E pnl \in Int : equity' = equity + pnl /\ stats' = [stats EXCEPT !.champion = @ + pnl]
  <2>1. CASE UNCHANGED <<equity, stats>>
    <3>1. /\ stats = [champion |-> stats.champion, meanrev |-> stats.meanrev, filled |-> stats.filled,
                      stopped |-> stats.stopped, exited |-> stats.exited]
          /\ equity = 100 + stats.champion + stats.meanrev
          /\ stats.champion \in Int /\ stats.meanrev \in Int
      BY DEF BookInv, BookSums
    <3>2. stats.champion + 0 = stats.champion /\ equity + 0 = equity
      BY <3>1
    <3>3. [stats EXCEPT !.champion = @ + 0]
          = [champion |-> stats.champion + 0, meanrev |-> stats.meanrev, filled |-> stats.filled,
             stopped |-> stats.stopped, exited |-> stats.exited]
      BY <3>1, StatsBooked
    <3>4. [stats EXCEPT !.champion = @ + 0] = stats
      BY <3>1, <3>2, <3>3
    <3> QED
      BY <2>1, <3>2, <3>4
  <2>2. CASE \E lots \in {0, 2, 9}, points \in {-10, 25} :
               LET pnl == IF lots > 5 THEN 0 ELSE lots * points
               IN equity' = equity + pnl /\ stats' = [stats EXCEPT !.champion = @ + pnl]
    <3>1. PICK lots \in {0, 2, 9}, points \in {-10, 25} :
               LET pnl == IF lots > 5 THEN 0 ELSE lots * points
               IN equity' = equity + pnl /\ stats' = [stats EXCEPT !.champion = @ + pnl]
      BY <2>2
    <3> DEFINE pnl == IF lots > 5 THEN 0 ELSE lots * points
    <3>2. pnl \in Int
      OBVIOUS
    <3> QED
      BY <3>1, <3>2
  <2> QED
    BY <2>1, <2>2 DEF Book!TradeChampion
<1>3. PICK pnl \in Int : equity' = equity + pnl /\ stats' = [stats EXCEPT !.champion = @ + pnl]
  BY <1>2
<1>4. BookShape' /\ BookPlaces' /\ BookEnd'
  BY <1>1 DEF BookInv, BookShape, BookPlaces, BookEnd, Book!TapeSymbols
<1>5. BookSums'
  <2>1. stats = [champion |-> stats.champion, meanrev |-> stats.meanrev, filled |-> stats.filled,
                stopped |-> stats.stopped, exited |-> stats.exited]
    BY DEF BookInv, BookSums
  <2>2. stats' = [champion |-> stats.champion + pnl, meanrev |-> stats.meanrev, filled |-> stats.filled,
                  stopped |-> stats.stopped, exited |-> stats.exited]
    BY <1>3, <2>1, StatsBooked
  <2> QED
    BY <1>1, <1>3, <2>2 DEF BookInv, BookSums
<1> QED
  BY <1>4, <1>5 DEF BookInv

\* What is taken of a day's entries: a symbol of which nothing is open.
LEMMA EntriesBooked == BookInv /\ Book!EnterPositions => BookInv'
<1> SUFFICES ASSUME BookInv, Book!EnterPositions PROVE BookInv'
  OBVIOUS
<1> DEFINE slots == {i \in Book!Entering : Book!Free(i)}
<1>1. PICK sized \in [slots -> {0, 2, 9}] :
        LET taken == {i \in DOMAIN sized : sized[i] \in 1..5}
        IN /\ positions' = [i \in Book!Opened \cup taken |-> IF i \in taken THEN sized[i] ELSE positions[i]]
           /\ consumed' = consumed \cup (DOMAIN sized \ taken)
           /\ stats' = [stats EXCEPT !.filled = @ + Book!Cardinality(taken)]
  BY DEF Book!EnterPositions
<1> DEFINE taken == {i \in DOMAIN sized : sized[i] \in 1..5}
<1>2. /\ UNCHANGED <<taped, champion_days, span, date, today_bars, last_close, peak, marked, hits, outcome, equity>>
      /\ outcome = "running" /\ step = "entries" /\ step' = "mark"
  BY DEF Book!EnterPositions, Book!Calendar, Book!Running
<1>3. /\ taken \in SUBSET slots /\ slots \in SUBSET DOMAIN taped
      /\ \A i \in slots : taped[i].entry = date /\ taped[i].exit <= span.to
  BY DEF Book!Entering, Book!Replayed
<1>4. \A i \in slots : \A k \in DOMAIN positions : taped[k].symbol # taped[i].symbol
  <2> TAKE i \in slots
  <2> DEFINE same == {k \in Book!Opened : taped[k].symbol = taped[i].symbol}
  <2>1. IsFiniteSet(same)
    BY TradesOfTape, FS_Subset DEF BookInv, Book!Opened
  <2>2. Cardinality(same) < 1
    BY BookCardinality DEF Book!Free
  <2> HIDE DEF same
  <2>3. Cardinality(same) \in Nat
    BY <2>1, FS_CardinalityType
  <2>4. Cardinality(same) = 0
    BY <2>2, <2>3
  <2>5. same = {}
    BY <2>1, <2>4, FS_EmptySet
  <2> QED
    BY <2>5 DEF same, Book!Opened
<1>5. /\ DOMAIN positions' = (DOMAIN positions) \cup taken
      /\ positions' = [i \in DOMAIN positions' |-> positions'[i]]
      /\ \A i \in DOMAIN positions' : positions'[i] = IF i \in taken THEN sized[i] ELSE positions[i]
      /\ consumed' = consumed \cup (slots \ taken)
      /\ stats' = [stats EXCEPT !.filled = @ + Book!Cardinality(taken)]
  <2>1. positions' = [i \in Book!Opened \cup taken |-> IF i \in taken THEN sized[i] ELSE positions[i]]
    BY <1>1
  <2>2. DOMAIN sized = slots
    BY <1>1
  <2>3. consumed' = consumed \cup (DOMAIN sized \ taken)
    BY <1>1
  <2>4. stats' = [stats EXCEPT !.filled = @ + Book!Cardinality(taken)]
    BY <1>1
  <2> HIDE DEF taken, slots
  <2> QED
    BY <2>1, <2>2, <2>3, <2>4 DEF Book!Opened
<1>6. \A i \in slots : i \notin DOMAIN positions /\ i \notin consumed
  <2> TAKE i \in slots
  <2>1. taped[i].entry \in Nat /\ taped[i].entry = date
    BY <1>3, TradesOfTape DEF BookInv
  <2>2. i \in (DOMAIN positions) \cup consumed => taped[i].entry < date
    BY <1>2 DEF BookInv, BookPlaces
  <2> QED
    BY <2>1, <2>2
<1>7. \A i \in taken : sized[i] \in Int
  OBVIOUS
<1> HIDE DEF taken, slots
<1>8. BookShape'
  <2>1. DOMAIN positions' \in SUBSET DOMAIN taped /\ consumed' \in SUBSET DOMAIN taped
    BY <1>3, <1>5 DEF BookInv, BookShape
  <2>2. \A i \in DOMAIN positions' : positions'[i] \in Int
    BY <1>5, <1>7 DEF BookInv, BookShape
  <2> QED
    BY <1>2, <1>5, <2>1, <2>2 DEF BookInv, BookShape, Book!TapeSymbols
<1>9. BookSums'
  <2>1. IsFiniteSet(DOMAIN positions) /\ IsFiniteSet(taken)
    BY <1>3, TradesOfTape, FS_Subset DEF BookInv
  <2>2. Cardinality((DOMAIN positions) \cup taken)
        = Cardinality(DOMAIN positions) + Cardinality(taken) - Cardinality((DOMAIN positions) \cap taken)
    BY <2>1, FS_Union
  <2>3. (DOMAIN positions) \cap taken = {}
    BY <1>3, <1>6
  <2>4. Cardinality({}) = 0
    BY FS_EmptySet
  <2>5. Cardinality(taken) \in Nat /\ Cardinality(DOMAIN positions) \in Nat
    BY <2>1, FS_CardinalityType
  <2>6. Cardinality(DOMAIN positions') = Cardinality(DOMAIN positions) + Cardinality(taken)
    <3>1. Cardinality((DOMAIN positions) \cap taken) = 0
      BY <2>3, <2>4
    <3>2. Cardinality((DOMAIN positions) \cup taken) = Cardinality(DOMAIN positions) + Cardinality(taken)
      BY <2>2, <2>5, <3>1
    <3> QED
      BY <1>5, <3>2
  <2>7. stats = [champion |-> stats.champion, meanrev |-> stats.meanrev, filled |-> stats.filled,
                stopped |-> stats.stopped, exited |-> stats.exited]
    BY DEF BookInv, BookSums
  <2>8. stats' = [champion |-> stats.champion, meanrev |-> stats.meanrev, filled |-> stats.filled + Cardinality(taken),
                  stopped |-> stats.stopped, exited |-> stats.exited]
    BY <1>5, <2>7, StatsBooked, BookCardinality
  <2>9. /\ stats.champion \in Int /\ stats.meanrev \in Int /\ stats.filled \in Int
        /\ stats.stopped \in Int /\ stats.exited \in Int
        /\ equity = 100 + stats.champion + stats.meanrev
        /\ stats.filled = Cardinality(DOMAIN positions) + stats.stopped + stats.exited
    BY DEF BookInv, BookSums
  <2> QED
    BY <1>2, <2>5, <2>6, <2>8, <2>9 DEF BookSums
<1>10. BookPlaces'
  <2>1. (DOMAIN positions') \cup consumed' = (DOMAIN positions) \cup consumed \cup slots
    BY <1>3, <1>5
  <2>2. DOMAIN positions' \cap consumed' = {}
    BY <1>3, <1>5, <1>6 DEF BookInv, BookPlaces
  <2>3. \A i \in (DOMAIN positions') \cup consumed' :
          taped'[i].entry <= date' /\ (step' # "mark" => taped'[i].entry < date')
    <3>1. \A i \in slots : taped[i].entry <= date
      BY <1>3, TradesOfTape DEF BookInv
    <3> QED
      BY <1>2, <2>1, <3>1 DEF BookInv, BookPlaces
  <2>4. \A i \in DOMAIN positions' :
          /\ taped'[i].exit <= span'.to /\ date' <= taped'[i].exit
          /\ step' \in {"entries", "mark"} => date' < taped'[i].exit
    <3> TAKE i \in DOMAIN positions'
    <3>1. CASE i \in taken
      <4>1. i \in DOMAIN taped /\ taped[i].entry = date /\ taped[i].exit <= span.to
        BY <1>3, <3>1
      <4>2. taped[i].entry < taped[i].exit /\ taped[i].entry \in Nat /\ taped[i].exit \in Nat
        BY <4>1, TradesOfTape DEF BookInv
      <4> QED
        BY <1>2, <4>1, <4>2
    <3>2. CASE i \in DOMAIN positions
      BY <1>2, <3>2 DEF BookInv, BookPlaces
    <3> QED
      BY <1>5, <3>1, <3>2
  <2>5. \A i, k \in DOMAIN positions' : taped'[i].symbol = taped'[k].symbol => i = k
    <3> SUFFICES ASSUME NEW i \in DOMAIN positions', NEW k \in DOMAIN positions', taped[i].symbol = taped[k].symbol
                 PROVE  i = k
      BY <1>2
    <3>1. CASE i \in taken /\ k \in taken
      <4>1. i \in DOMAIN taped /\ k \in DOMAIN taped /\ taped[i].entry = taped[k].entry
        BY <1>3, <3>1
      <4> QED
        BY <4>1, TradesOfTape DEF BookInv
    <3>2. CASE i \in DOMAIN positions /\ k \in DOMAIN positions
      BY <3>2 DEF BookInv, BookPlaces
    <3>3. CASE i \in taken /\ k \in DOMAIN positions
      BY <1>3, <1>4, <3>3
    <3>4. CASE i \in DOMAIN positions /\ k \in taken
      BY <1>3, <1>4, <3>4
    <3> QED
      BY <1>5, <3>1, <3>2, <3>3, <3>4
  <2> QED
    BY <2>2, <2>3, <2>4, <2>5 DEF BookPlaces
<1>11. BookEnd'
  BY <1>2 DEF BookInv, BookEnd
<1> QED
  BY <1>8, <1>9, <1>10, <1>11 DEF BookInv

\* The day's end: a position is not due that day, so the last day leaves none;
\* an account worth nothing is below any share of its peak.
LEMMA DayMarked == BookInv /\ Book!MarkToMarket => BookInv'
<1> SUFFICES ASSUME BookInv, Book!MarkToMarket PROVE BookInv'
  OBVIOUS
<1>1. /\ outcome = "running" /\ step = "mark"
      /\ last_close' = [s \in Book!TapeSymbols |-> Book!Closes(s)]
      /\ marked' = equity + Book!Floating(positions, last_close')
      /\ peak' = IF marked' > peak THEN marked' ELSE peak
      /\ UNCHANGED <<taped, champion_days, span, equity, positions, consumed, stats>>
  BY DEF Book!MarkToMarket, Book!Running
<1>2. hits' = hits \cup Book!Hits(peak' - marked', peak')
                   \cup (IF 100 * (marked - marked') >= 18 * marked THEN {<<date, "daily_loss">>} ELSE {})
  BY DEF Book!MarkToMarket
<1>3. \/ marked' <= 0 /\ outcome' = "blown" /\ UNCHANGED <<date, step, today_bars>>
      \/ /\ ~(marked' <= 0) /\ date < span.to
         /\ date' = date + 1 /\ step' = "stops"
         /\ today_bars' \in [Book!TapeSymbols -> MCBars] /\ UNCHANGED outcome
      \/ /\ ~(marked' <= 0) /\ ~(date < span.to)
         /\ outcome' = IF positions = <<>> THEN "report" ELSE "left_open"
         /\ UNCHANGED <<date, step, today_bars>>
  BY DEF Book!MarkToMarket
<1>4. last_close' \in [Book!TapeSymbols -> Int]
  <2>1. \A s \in Book!TapeSymbols : Book!Closes(s) \in Int
    <3> TAKE s \in Book!TapeSymbols
    <3>1. today_bars[s] \in MCBars /\ last_close[s] \in Int
      BY DEF BookInv, BookShape
    <3>2. today_bars[s].close \in Int
      BY <3>1, BarsOfPoints
    <3> QED
      BY <3>1, <3>2 DEF Book!Closes
  <2> QED
    BY <1>1, <2>1
<1>5. /\ equity \in Int /\ peak \in Int /\ peak >= 100 /\ marked \in Int /\ date \in Int /\ span.to \in Int
  BY DEF BookInv, BookSums, BookShape
<1>6. marked' \in Int
  <2>1. Book!Floating(positions, last_close') \in Int
    BY <1>4, FloatingResult DEF BookInv
  <2> QED
    BY <1>1, <1>5, <2>1
<1>7. peak' \in Int /\ peak' >= 100 /\ peak' >= marked'
  BY <1>1, <1>5, <1>6
<1>8. BookShape'
  <2>1. date' \in Int
    BY <1>3, <1>5
  <2>2. Book!TapeSymbols' = Book!TapeSymbols
    BY <1>1 DEF Book!TapeSymbols
  <2>3. today_bars' \in [Book!TapeSymbols -> MCBars]
    BY <1>3 DEF BookInv, BookShape
  <2> QED
    BY <1>1, <1>4, <1>6, <1>7, <2>1, <2>2, <2>3 DEF BookInv, BookShape
<1>9. BookSums'
  BY <1>1 DEF BookInv, BookSums
<1>10. \A i \in DOMAIN positions : taped[i].exit \in Nat /\ date < taped[i].exit /\ taped[i].exit <= span.to
  BY <1>1, TradesOfTape DEF BookInv, BookPlaces, BookShape
<1>11. BookPlaces'
  <2>1. CASE UNCHANGED <<date, step>>
    BY <1>1, <2>1 DEF BookInv, BookPlaces
  <2>2. CASE date' = date + 1 /\ step' = "stops"
    <3>1. \A i \in (DOMAIN positions) \cup consumed : taped[i].entry \in Nat /\ taped[i].entry <= date
      BY TradesOfTape DEF BookInv, BookPlaces, BookShape
    <3>2. \A i \in (DOMAIN positions) \cup consumed : taped[i].entry <= date + 1 /\ taped[i].entry < date + 1
      BY <1>5, <3>1
    <3>3. \A i \in DOMAIN positions : taped[i].exit <= span.to /\ date + 1 <= taped[i].exit
      BY <1>5, <1>10
    <3>4. step' \notin {"entries", "mark"}
      BY <2>2
    <3> QED
      BY <1>1, <2>2, <3>2, <3>3, <3>4 DEF BookInv, BookPlaces
  <2> QED
    BY <1>3, <2>1, <2>2
<1>12. BookEnd'
  <2>1. CASE marked' <= 0 /\ outcome' = "blown" /\ UNCHANGED <<date, step, today_bars>>
    <3>1. 100 * (peak' - marked') >= 50 * peak' /\ 100 * (peak' - marked') >= 60 * peak'
      <4>1. \A m, p \in Int : m <= 0 /\ p >= 100 => 100 * (p - m) >= 50 * p /\ 100 * (p - m) >= 60 * p
        OBVIOUS
      <4> QED
        BY <1>6, <1>7, <2>1, <4>1
    <3>2. {<<date, "internal_dd">>, <<date, "firm_dd">>} \subseteq Book!Hits(peak' - marked', peak')
      <4>1. <<"internal_dd", 50>> \in {w \in {<<"internal_dd", 50>>, <<"firm_dd", 60>>} : 100 * (peak' - marked') >= w[2] * peak'}
        BY <3>1
      <4>2. <<"firm_dd", 60>> \in {w \in {<<"internal_dd", 50>>, <<"firm_dd", 60>>} : 100 * (peak' - marked') >= w[2] * peak'}
        BY <3>1
      <4> QED
        BY <4>1, <4>2 DEF Book!Hits
    <3> QED
      BY <1>2, <2>1, <3>2 DEF BookEnd
  <2>2. CASE date < span.to /\ date' = date + 1 /\ UNCHANGED outcome
    BY <1>1, <1>5, <2>2 DEF BookEnd
  <2>3. CASE ~(date < span.to) /\ outcome' = IF positions = <<>> THEN "report" ELSE "left_open"
    <3>1. DOMAIN positions = {}
      <4> SUFFICES ASSUME NEW i \in DOMAIN positions PROVE FALSE
        OBVIOUS
      <4>1. taped[i].exit \in Nat /\ date < taped[i].exit /\ taped[i].exit <= span.to
        BY <1>10
      <4> QED
        BY <1>5, <2>3, <4>1
    <3>2. positions = <<>>
      <4>1. positions = [i \in DOMAIN positions |-> positions[i]]
        BY DEF BookInv, BookShape
      <4>2. [i \in {} |-> positions[i]] = <<>>
        OBVIOUS
      <4> QED
        BY <3>1, <4>1, <4>2
    <3> QED
      BY <2>3, <3>2 DEF BookEnd
  <2> QED
    BY <1>3, <2>1, <2>2, <2>3
<1> QED
  BY <1>8, <1>9, <1>11, <1>12 DEF BookInv

\* The account before its first day.
LEMMA BookStarts == Book!BookInit => BookInv
<1> SUFFICES ASSUME Book!BookInit PROVE BookInv
  OBVIOUS
<1>1. /\ taped \in MCTapes /\ span = Book!Span(taped, champion_days) /\ champion_days \in {{}, {1, 2, 3, 4}, {1, 3}, {1}}
      /\ date = span.from /\ step = "stops"
      /\ outcome = IF span.from > span.to THEN "report" ELSE "running"
      /\ today_bars \in [Book!TapeSymbols -> MCBars] /\ equity = 100 /\ peak = 100 /\ marked = 100
      /\ positions = <<>> /\ last_close = [s \in Book!TapeSymbols |-> 0]
      /\ consumed = {} /\ hits = {}
      /\ stats = [champion |-> 0, meanrev |-> 0, filled |-> 0, stopped |-> 0, exited |-> 0]
  BY DEF Book!BookInit
<1>2. span.from \in Int /\ span.to \in Int
  BY <1>1, SpanInDays
<1>3. DOMAIN positions = {} /\ positions = [i \in DOMAIN positions |-> positions[i]]
  BY <1>1
<1>4. BookShape
  <2>1. last_close \in [Book!TapeSymbols -> Int]
    BY <1>1
  <2> QED
    BY <1>1, <1>2, <1>3, <2>1 DEF BookShape
<1>5. BookSums
  BY <1>1, <1>3, FS_EmptySet DEF BookSums
<1>6. BookPlaces
  BY <1>1, <1>3 DEF BookPlaces
<1>7. BookEnd
  BY <1>1, <1>2 DEF BookEnd
<1> QED
  BY <1>4, <1>5, <1>6, <1>7 DEF BookInv

LEMMA BookFrame ==
  [MCNext]_mc_vars => /\ part' = part
                      /\ (part = "book" /\ Book!BookNext) \/ UNCHANGED book_vars
BY DEF MCNext, mc_vars, replay_vars, Watching, Deciding, Replaying, Limiting, book_vars

\* The account of what runs.
BookKept == part = "book" => BookInv

LEMMA BookSteps == BookKept /\ [MCNext]_mc_vars => BookKept'
<1> SUFFICES ASSUME BookKept, [MCNext]_mc_vars, part' = "book" PROVE BookInv'
  BY DEF BookKept
<1>1. part = "book" /\ (Book!BookNext \/ UNCHANGED book_vars)
  BY BookFrame
<1>2. BookInv
  BY <1>1 DEF BookKept
<1>3. CASE UNCHANGED book_vars
  BY <1>2, <1>3 DEF book_vars, BookInv, BookShape, BookSums, BookPlaces, BookEnd, Book!TapeSymbols
<1>4. CASE Book!BookNext
  BY <1>2, <1>4, StopsBooked, ChampionBooked, ExitsBooked, EntriesBooked, DayMarked DEF Book!BookNext
<1> QED
  BY <1>1, <1>3, <1>4

LEMMA AccountAddsUp == BookInv => Book!ReplayedAccountAddsUp
<1> SUFFICES ASSUME BookInv PROVE Book!ReplayedAccountAddsUp
  OBVIOUS
<1>1. /\ equity = 100 + stats.champion + stats.meanrev
      /\ stats.filled = Book!Cardinality(Book!Opened) + stats.stopped + stats.exited
  BY BookCardinality DEF BookInv, BookSums, Book!Opened
<1>2. ASSUME NEW i \in Book!Opened
      PROVE  /\ Book!Cardinality({k \in Book!Opened : taped[k].symbol = taped[i].symbol}) <= 1
             /\ date <= taped[i].exit
  <2>1. {k \in Book!Opened : taped[k].symbol = taped[i].symbol} = {i}
    BY <1>2 DEF BookInv, BookPlaces, Book!Opened
  <2>2. Cardinality({i}) = 1
    BY FS_Singleton
  <2>3. Book!Cardinality({k \in Book!Opened : taped[k].symbol = taped[i].symbol}) = 1
    BY <2>1, <2>2, BookCardinality
  <2>4. date <= taped[i].exit
    BY <1>2 DEF BookInv, BookPlaces, Book!Opened
  <2> QED
    BY <2>3, <2>4
<1>3. Book!Opened \cap consumed = {}
  BY DEF BookInv, BookPlaces, Book!Opened
<1>4. outcome # "left_open" /\ (outcome = "blown" => {<<date, "internal_dd">>, <<date, "firm_dd">>} \subseteq hits)
  BY DEF BookInv, BookEnd
<1> QED
  BY <1>1, <1>2, <1>3, <1>4 DEF Book!ReplayedAccountAddsUp

-----------------------------------------------------------------------------
(* The sizing walk and the study of the mean-reversion tape.  Their sums are  *)
(* compared element by element, whatever the tape.                            *)

\* The sum of f over S, as the studies form theirs.
SumOver(f, S) == (CHOOSE g : IsSum(g, f, S))[S]

LEMMA SumOverAdds ==
  ASSUME NEW S, IsFiniteSet(S), NEW f, \A x \in S : f[x] \in Int
  PROVE  \E i : AddsUp(i, f, S) /\ SumOver(f, S) = i[S]
<1> DEFINE i == CHOOSE g : IsSum(g, f, S)
<1>1. IsSum(i, f, S)
  BY SumExists
<1>2. SumOver(f, S) = i[S]
  BY DEF SumOver
<1> HIDE DEF i
<1>3. AddsUp(i, f, S)
  BY <1>1, SumByElement
<1> QED
  BY <1>2, <1>3

LEMMA SumOverType ==
  ASSUME NEW S, IsFiniteSet(S), NEW f, \A x \in S : f[x] \in Int
  PROVE  SumOver(f, S) \in Int
<1>1. PICK i : AddsUp(i, f, S) /\ SumOver(f, S) = i[S]
  BY SumOverAdds
<1>2. i[S] \in Int
  BY <1>1 DEF AddsUp
<1> QED
  BY <1>1, <1>2

\* What x adds to the sum of f over F.
Share(f, F, x) == IF x \in F THEN f[x] ELSE 0

\* One element less among some of them.
LEMMA ShareLess ==
  ASSUME NEW S, NEW F \in SUBSET S, NEW f, \A x \in F : f[x] \in Int, NEW i, AddsUp(i, f, F),
         NEW s \in SUBSET S, NEW x \in s
  PROVE  /\ i[s \cap F] = Share(f, F, x) + i[(s \ {x}) \cap F]
         /\ i[(s \ {x}) \cap F] \in Int /\ Share(f, F, x) \in Int
<1>1. s \cap F \in SUBSET F /\ (s \ {x}) \cap F \in SUBSET F
  OBVIOUS
<1>2. i[s \cap F] \in Int /\ i[(s \ {x}) \cap F] \in Int
  BY <1>1 DEF AddsUp
<1>3. CASE x \in F
  <2>1. (s \ {x}) \cap F = (s \cap F) \ {x} /\ x \in s \cap F
    BY <1>3
  <2>2. i[s \cap F] = f[x] + i[(s \cap F) \ {x}]
    BY <1>1, <2>1 DEF AddsUp
  <2>3. Share(f, F, x) = f[x] /\ f[x] \in Int
    BY <1>3 DEF Share
  <2> QED
    BY <1>2, <2>1, <2>2, <2>3
<1>4. CASE x \notin F
  <2>1. (s \ {x}) \cap F = s \cap F
    BY <1>4
  <2>2. Share(f, F, x) = 0
    BY <1>4 DEF Share
  <2>3. i[(s \ {x}) \cap F] = i[s \cap F]
    BY <2>1
  <2>4. \A n \in Int : n = 0 + n
    OBVIOUS
  <2>5. i[s \cap F] = 0 + i[s \cap F]
    BY <1>2, <2>4
  <2>6. i[s \cap F] = Share(f, F, x) + i[(s \ {x}) \cap F]
    BY <2>2, <2>3, <2>5
  <2>7. Share(f, F, x) \in Int
    BY <2>2
  <2> QED
    BY <1>2, <2>6, <2>7
<1> QED
  BY <1>3, <1>4

\* What is less for every element is less as a sum, small multiples of it too.
LEMMA SumsCompared ==
  ASSUME NEW S, IsFiniteSet(S), NEW F \in SUBSET S, NEW G \in SUBSET S, NEW f, NEW g,
         \A x \in F : f[x] \in Int, \A x \in G : g[x] \in Int, NEW a \in 1..3, NEW b \in 1..3,
         \A x \in S : a * Share(f, F, x) <= b * Share(g, G, x)
  PROVE  a * SumOver(f, F) <= b * SumOver(g, G)
<1>0. IsFiniteSet(F) /\ IsFiniteSet(G)
  BY FS_Subset
<1>1. PICK i : AddsUp(i, f, F) /\ SumOver(f, F) = i[F]
  BY <1>0, SumOverAdds
<1>2. PICK j : AddsUp(j, g, G) /\ SumOver(g, G) = j[G]
  BY <1>0, SumOverAdds
<1> DEFINE off == {s \in SUBSET S : ~(a * i[s \cap F] <= b * j[s \cap G])}
<1>3. off = {}
  <2> SUFFICES ASSUME off # {} PROVE FALSE
    OBVIOUS
  <2>1. PICK s \in off : \A x \in s : s \ {x} \notin off
    <3>1. off \in SUBSET SUBSET S
      OBVIOUS
    <3> HIDE DEF off
    <3> QED
      BY <3>1, SmallestSet
  <2>2. s \in SUBSET S /\ ~(a * i[s \cap F] <= b * j[s \cap G])
    OBVIOUS
  <2>3. CASE s = {}
    <3>1. s \cap F = {} /\ s \cap G = {}
      BY <2>3
    <3>2. i[s \cap F] = 0 /\ j[s \cap G] = 0
      BY <1>1, <1>2, <3>1 DEF AddsUp
    <3> QED
      BY <2>2, <3>2
  <2>4. CASE s # {}
    <3>1. PICK x \in s : TRUE
      BY <2>4
    <3> DEFINE p == Share(f, F, x)
               q == i[(s \ {x}) \cap F]
               u == Share(g, G, x)
               v == j[(s \ {x}) \cap G]
    <3>2. a * q <= b * v
      BY <2>1, <2>2, <3>1
    <3>3. i[s \cap F] = p + q /\ p \in Int /\ q \in Int
      <4>1. AddsUp(i, f, F) /\ s \in SUBSET S /\ x \in s /\ F \in SUBSET S /\ \A y \in F : f[y] \in Int
        BY <1>1, <1>2, <2>2, <3>1
      <4>2. /\ i[s \cap F] = Share(f, F, x) + i[(s \ {x}) \cap F]
            /\ i[(s \ {x}) \cap F] \in Int /\ Share(f, F, x) \in Int
        <5> HIDE DEF off, p, q, u, v
        <5> QED
          BY <4>1, ShareLess
      <4> QED
        BY <4>2
    <3>4. j[s \cap G] = u + v /\ u \in Int /\ v \in Int
      <4>1. AddsUp(j, g, G) /\ s \in SUBSET S /\ x \in s /\ G \in SUBSET S /\ \A y \in G : g[y] \in Int
        BY <1>1, <1>2, <2>2, <3>1
      <4>2. /\ j[s \cap G] = Share(g, G, x) + j[(s \ {x}) \cap G]
            /\ j[(s \ {x}) \cap G] \in Int /\ Share(g, G, x) \in Int
        <5> HIDE DEF off, p, q, u, v
        <5> QED
          BY <4>1, ShareLess
      <4> QED
        BY <4>2
    <3>5. a * p <= b * u
      BY <2>2, <3>1
    <3> HIDE DEF p, q, u, v
    <3>6. a * (p + q) <= b * (u + v)
      BY <3>2, <3>3, <3>4, <3>5
    <3> QED
      BY <2>2, <3>3, <3>4, <3>6
  <2> QED
    BY <2>3, <2>4
<1>4. S \cap F = F /\ S \cap G = G
  OBVIOUS
<1>5. a * i[S \cap F] <= b * j[S \cap G]
  BY <1>3
<1> QED
  BY <1>1, <1>2, <1>4, <1>5

LEMMA SumsProportional ==
  ASSUME NEW S, IsFiniteSet(S), NEW F \in SUBSET S, NEW G \in SUBSET S, NEW f, NEW g,
         \A x \in F : f[x] \in Int, \A x \in G : g[x] \in Int, NEW a \in 1..3, NEW b \in 1..3,
         \A x \in S : a * Share(f, F, x) = b * Share(g, G, x)
  PROVE  a * SumOver(f, F) = b * SumOver(g, G)
<1>1. IsFiniteSet(F) /\ IsFiniteSet(G)
  BY FS_Subset
<1>2. SumOver(f, F) \in Int /\ SumOver(g, G) \in Int
  BY <1>1, SumOverType
<1>3. \A x \in S : Share(f, F, x) \in Int /\ Share(g, G, x) \in Int
  BY DEF Share
<1>4. \A x \in S : a * Share(f, F, x) <= b * Share(g, G, x) /\ b * Share(g, G, x) <= a * Share(f, F, x)
  BY <1>3
<1>5. a * SumOver(f, F) <= b * SumOver(g, G)
  BY <1>4, SumsCompared
<1>6. b * SumOver(g, G) <= a * SumOver(f, F)
  BY <1>4, SumsCompared
<1> QED
  BY <1>2, <1>5, <1>6

\* A quotient is the number whose multiple is not a divisor away.
LEMMA QuotientIs ==
  ASSUME NEW a \in Int, NEW b \in Nat \ {0}, NEW q \in Int, b * q <= a, a < b * q + b
  PROVE  a \div b = q
<1> DEFINE r == a \div b
           rest == a % b
<1>1. r \in Int /\ rest \in Int /\ 0 <= rest /\ rest < b /\ a = b * r + rest
  OBVIOUS
<1> HIDE DEF r, rest
<1>2. \A x, y \in Int : x + 1 <= y => b * x + b <= b * y
  <2> TAKE x, y \in Int
  <2> HAVE x + 1 <= y
  <2>1. y - x - 1 \in Nat
    OBVIOUS
  <2>2. b * (y - x - 1) \in Nat
    BY <2>1
  <2>3. b * (y - x - 1) = b * y - b * x - b
    OBVIOUS
  <2> QED
    BY <2>2, <2>3
<1>3. b * r \in Int /\ b * q \in Int
  BY <1>1
<1>4. ~(r + 1 <= q)
  BY <1>1, <1>2, <1>3
<1>5. ~(q + 1 <= r)
  BY <1>1, <1>2, <1>3
<1>6. r = q
  BY <1>1, <1>4, <1>5
<1> QED
  BY <1>6 DEF r

\* Both sides of a quotient may be multiplied.
LEMMA SameQuotient ==
  ASSUME NEW a \in Int, NEW b \in Nat \ {0}, NEW c \in Int, NEW d \in Nat \ {0}, NEW h \in 1..3,
         2 * a = h * c, 2 * b = h * d
  PROVE  a \div b = c \div d
<1> DEFINE q == c \div d
           rest == c % d
<1>1. q \in Int /\ rest \in Int /\ 0 <= rest /\ rest < d /\ c = d * q + rest
  OBVIOUS
<1> HIDE DEF q, rest
<1>2. 2 * (b * q) = h * (d * q)
  <2>1. 2 * (b * q) = (2 * b) * q /\ h * (d * q) = (h * d) * q
    BY <1>1
  <2> QED
    BY <2>1
<1> DEFINE e == d * q
           p == b * q
<1>3. e \in Int /\ p \in Int /\ 2 * p = h * e /\ c = e + rest
  BY <1>1, <1>2
<1>4. e <= c /\ c < e + d
  BY <1>1, <1>3
<1> HIDE DEF e, p
<1>5. p <= a /\ a < p + b
  BY <1>3, <1>4
<1>6. b * q <= a /\ a < b * q + b
  BY <1>5 DEF p
<1> QED
  BY <1>1, <1>6, QuotientIs DEF q
\* What a book won and lost.
Gains(rrs) == {i \in DOMAIN rrs : rrs[i] > 0}
Losses(rrs) == {i \in DOMAIN rrs : rrs[i] < 0}
WonIn(rrs) == SumOver(rrs, Gains(rrs))
LostIn(rrs) == -SumOver(rrs, Losses(rrs))

LEMMA BookIs ==
  ASSUME NEW rrs
  PROVE  /\ Walk!Book(rrs).net = (WonIn(rrs) - LostIn(rrs) + 1) \div 2
         /\ Walk!Book(rrs).loss = LostIn(rrs)
         /\ Walk!Book(rrs).pf = IF LostIn(rrs) = 0 THEN (WonIn(rrs) + 1) \div 2
                                ELSE (200 * WonIn(rrs) + LostIn(rrs)) \div (2 * LostIn(rrs))
BY DEF Walk!Book, Walk!MapThenSumSet, Walk!MapThenFoldSet, WonIn, LostIn, Gains, Losses, SumOver, IsSum, Some

LEMMA WonAndLost ==
  ASSUME NEW S, IsFiniteSet(S), NEW rrs \in [S -> Int]
  PROVE  /\ WonIn(rrs) \in Nat /\ LostIn(rrs) \in Nat
         /\ Gains(rrs) \in SUBSET S /\ Losses(rrs) \in SUBSET S
<1>1. Gains(rrs) \in SUBSET S /\ Losses(rrs) \in SUBSET S
  BY DEF Gains, Losses
<1>2. IsFiniteSet(Gains(rrs)) /\ IsFiniteSet(Losses(rrs))
  BY <1>1, FS_Subset
<1>3. \A i \in S : rrs[i] \in Int
  OBVIOUS
<1>4. SumOver(rrs, Gains(rrs)) \in Int /\ SumOver(rrs, Losses(rrs)) \in Int
  BY <1>1, <1>2, <1>3, SumOverType
<1>5. SumOver(rrs, {}) = 0
  <2>1. IsFiniteSet({})
    BY FS_EmptySet
  <2>2. PICK i : AddsUp(i, rrs, {}) /\ SumOver(rrs, {}) = i[{}]
    BY <2>1, SumOverAdds
  <2> QED
    BY <2>2 DEF AddsUp
<1>6. \A i \in S : /\ Share(rrs, {}, i) = 0 /\ 0 <= Share(rrs, Gains(rrs), i)
                   /\ Share(rrs, Losses(rrs), i) <= 0
                   /\ Share(rrs, Gains(rrs), i) \in Int /\ Share(rrs, Losses(rrs), i) \in Int
  BY DEF Share, Gains, Losses
<1>7. 1 \in 1..3 /\ {} \in SUBSET S /\ \A x \in {} : rrs[x] \in Int
  OBVIOUS
<1>8. 1 * SumOver(rrs, {}) <= 1 * SumOver(rrs, Gains(rrs))
  <2>1. \A i \in S : 1 * Share(rrs, {}, i) <= 1 * Share(rrs, Gains(rrs), i)
    BY <1>6
  <2>2. \A x \in Gains(rrs) : rrs[x] \in Int
    BY <1>1, <1>3
  <2> QED
    BY <1>1, <1>7, <2>1, <2>2, SumsCompared
<1>9. 1 * SumOver(rrs, Losses(rrs)) <= 1 * SumOver(rrs, {})
  <2>1. \A i \in S : 1 * Share(rrs, Losses(rrs), i) <= 1 * Share(rrs, {}, i)
    BY <1>6
  <2>2. \A x \in Losses(rrs) : rrs[x] \in Int
    BY <1>1, <1>3
  <2> QED
    BY <1>1, <1>7, <2>1, <2>2, SumsCompared
<1> QED
  BY <1>1, <1>4, <1>5, <1>8, <1>9 DEF WonIn, LostIn

\* Trades at one and the same multiplier: the profit factor stays.
FlatOf(sized) == [i \in DOMAIN sized |-> 2 * sized[i].rr]
ScaledOf(sized) == [i \in DOMAIN sized |-> sized[i].rr * sized[i].by.halves]

LEMMA EvenlySized ==
  ASSUME NEW sized, IsFiniteSet(DOMAIN sized), NEW h \in 1..3,
         \A i \in DOMAIN sized : sized[i].rr \in Int /\ sized[i].by.halves = h
  PROVE  /\ 2 * WonIn(ScaledOf(sized)) = h * WonIn(FlatOf(sized))
         /\ 2 * LostIn(ScaledOf(sized)) = h * LostIn(FlatOf(sized))
         /\ WonIn(ScaledOf(sized)) \in Nat /\ LostIn(ScaledOf(sized)) \in Nat
         /\ WonIn(FlatOf(sized)) \in Nat /\ LostIn(FlatOf(sized)) \in Nat
<1> DEFINE S == DOMAIN sized
           f == ScaledOf(sized)
           e == FlatOf(sized)
<1>1. f \in [S -> Int] /\ e \in [S -> Int] /\ \A i \in S : 2 * f[i] = h * e[i] /\ (f[i] > 0 <=> e[i] > 0) /\ (f[i] < 0 <=> e[i] < 0)
  <2>1. ASSUME NEW i \in S
        PROVE  /\ f[i] \in Int /\ e[i] \in Int /\ 2 * f[i] = h * e[i]
               /\ (f[i] > 0 <=> e[i] > 0) /\ (f[i] < 0 <=> e[i] < 0)
    <3> DEFINE r == sized[i].rr
    <3>1. f[i] = r * h /\ e[i] = 2 * r /\ r \in Int
      BY DEF ScaledOf, FlatOf
    <3> HIDE DEF r, f, e
    <3>2. h = 1 \/ h = 2 \/ h = 3
      OBVIOUS
    <3> QED
      BY <3>1, <3>2
  <2>2. f = [i \in S |-> f[i]] /\ e = [i \in S |-> e[i]]
    BY DEF ScaledOf, FlatOf
  <2> HIDE DEF f, e, S
  <2> QED
    BY <2>1, <2>2
<1> HIDE DEF f, e, S
<1>2. IsFiniteSet(S)
  BY DEF S
<1>3. /\ WonIn(f) \in Nat /\ LostIn(f) \in Nat /\ Gains(f) \in SUBSET S /\ Losses(f) \in SUBSET S
      /\ WonIn(e) \in Nat /\ LostIn(e) \in Nat /\ Gains(e) \in SUBSET S /\ Losses(e) \in SUBSET S
  BY <1>1, <1>2, WonAndLost
<1>4. Gains(f) = Gains(e) /\ Losses(f) = Losses(e)
  BY <1>1 DEF Gains, Losses
<1>5. 2 \in 1..3 /\ \A i \in S : f[i] \in Int /\ e[i] \in Int
  BY <1>1
<1>6. ASSUME NEW F \in SUBSET S PROVE 2 * SumOver(f, F) = h * SumOver(e, F)
  <2>1. \A i \in S : 2 * Share(f, F, i) = h * Share(e, F, i)
    BY <1>1 DEF Share
  <2>2. \A i \in F : f[i] \in Int /\ e[i] \in Int
    BY <1>5
  <2> QED
    BY <1>2, <1>5, <2>1, <2>2, SumsProportional
<1>7. 2 * WonIn(f) = h * WonIn(e)
  BY <1>3, <1>4, <1>6 DEF WonIn
<1>8. 2 * SumOver(f, Losses(f)) = h * SumOver(e, Losses(e))
  BY <1>3, <1>4, <1>6
<1>9. LostIn(f) = -SumOver(f, Losses(f)) /\ LostIn(e) = -SumOver(e, Losses(e))
  BY DEF LostIn
<1>10. SumOver(f, Losses(f)) \in Int /\ SumOver(e, Losses(e)) \in Int
  <2>1. IsFiniteSet(Losses(f)) /\ IsFiniteSet(Losses(e))
    BY <1>2, <1>3, FS_Subset
  <2>2. \A i \in Losses(f) : f[i] \in Int
    BY <1>3, <1>5
  <2>3. \A i \in Losses(e) : e[i] \in Int
    BY <1>3, <1>5
  <2> QED
    BY <2>1, <2>2, <2>3, SumOverType
<1>11. 2 * LostIn(f) = h * LostIn(e)
  BY <1>8, <1>9, <1>10
<1> QED
  BY <1>3, <1>7, <1>11 DEF f, e

LEMMA EvenlyFactored ==
  ASSUME NEW sized, IsFiniteSet(DOMAIN sized), NEW h \in 1..3,
         \A i \in DOMAIN sized : sized[i].rr \in Int /\ sized[i].by.halves = h,
         LostIn(FlatOf(sized)) # 0
  PROVE  Walk!Book(ScaledOf(sized)).pf = Walk!Book(FlatOf(sized)).pf
<1> DEFINE w == WonIn(ScaledOf(sized))
           l == LostIn(ScaledOf(sized))
           v == WonIn(FlatOf(sized))
           m == LostIn(FlatOf(sized))
<1>1. /\ 2 * w = h * v /\ 2 * l = h * m /\ w \in Nat /\ l \in Nat /\ v \in Nat /\ m \in Nat /\ m # 0
  BY EvenlySized
<1>2. Walk!Book(ScaledOf(sized)).pf = IF l = 0 THEN (w + 1) \div 2 ELSE (200 * w + l) \div (2 * l)
  BY BookIs
<1>3. Walk!Book(FlatOf(sized)).pf = IF m = 0 THEN (v + 1) \div 2 ELSE (200 * v + m) \div (2 * m)
  BY BookIs
<1> HIDE DEF w, l, v, m
<1>4. l # 0
  BY <1>1
<1> DEFINE a == 200 * w + l
           b == 2 * l
           c == 200 * v + m
           d == 2 * m
<1>5. a \in Int /\ b \in Nat \ {0} /\ c \in Int /\ d \in Nat \ {0} /\ 2 * a = h * c /\ 2 * b = h * d
  <2>1. h = 1 \/ h = 2 \/ h = 3
    OBVIOUS
  <2> QED
    BY <1>1, <1>4, <2>1
<1>6. Walk!Book(ScaledOf(sized)).pf = a \div b /\ Walk!Book(FlatOf(sized)).pf = c \div d
  BY <1>1, <1>2, <1>3, <1>4
<1> HIDE DEF a, b, c, d
<1> QED
  BY <1>5, <1>6, SameQuotient, ZenonT(40)
\* The trades of a study in the order of time.
StudyTrades == [cell : {"us30_expansion", "nas100_range"}, rr : {-100, 4, 30}, quarter : Nat]
InTime(study) == \A i, k \in DOMAIN study : i <= k => study[i].quarter <= study[k].quarter
ResultsOf(study) == [i \in DOMAIN study |-> study[i].rr]

LEMMA WalkCardinality == \A S : Walk!Cardinality(S) = Cardinality(S)
BY DEF Walk!Cardinality, Cardinality

LEMMA StudyFinite ==
  ASSUME NEW study \in Seq(StudyTrades), NEW S \in SUBSET DOMAIN study
  PROVE  IsFiniteSet(S) /\ IsFiniteSet(DOMAIN study)
<1>1. DOMAIN study = 1..Len(study) /\ Len(study) \in Nat
  OBVIOUS
<1>2. IsFiniteSet(1..Len(study))
  BY <1>1, FS_Interval
<1> QED
  BY <1>1, <1>2, FS_Subset

LEMMA ResultsSummed ==
  ASSUME NEW study, NEW S \in SUBSET DOMAIN study
  PROVE  Walk!MapThenSumSet(LAMBDA i : study[i].rr, S) = SumOver(ResultsOf(study), S)
<1> DEFINE f == ResultsOf(study)
           Summing(g) == g = [s \in SUBSET S |-> IF s = {} THEN 0 ELSE study[Some(s)].rr + g[s \ {Some(s)}]]
<1>1. ASSUME NEW g PROVE IsSum(g, f, S) <=> Summing(g)
  <2>1. \A s \in SUBSET S : s # {} => f[Some(s)] = study[Some(s)].rr
    BY DEF Some, ResultsOf
  <2>2. [s \in SUBSET S |-> IF s = {} THEN 0 ELSE f[Some(s)] + g[s \ {Some(s)}]]
        = [s \in SUBSET S |-> IF s = {} THEN 0 ELSE study[Some(s)].rr + g[s \ {Some(s)}]]
    BY <2>1
  <2> QED
    BY <2>2 DEF IsSum
<1>2. Walk!MapThenSumSet(LAMBDA i : study[i].rr, S) = (CHOOSE g : Summing(g))[S]
  BY DEF Walk!MapThenSumSet, Walk!MapThenFoldSet, Some
<1> HIDE DEF Summing, f
<1>3. (CHOOSE g : Summing(g)) = (CHOOSE g : IsSum(g, f, S))
  BY <1>1
<1> QED
  BY <1>2, <1>3 DEF SumOver, f

\* Equal elements have equal sums.
LEMMA SumsEqual ==
  ASSUME NEW S, IsFiniteSet(S), NEW f, NEW g, \A x \in S : f[x] \in Int /\ g[x] = f[x]
  PROVE  SumOver(f, S) = SumOver(g, S)
<1>1. S \in SUBSET S /\ 1 \in 1..3 /\ \A x \in S : f[x] \in Int /\ g[x] \in Int
  OBVIOUS
<1>2. \A x \in S : 1 * Share(f, S, x) = 1 * Share(g, S, x)
  BY DEF Share
<1>3. 1 * SumOver(f, S) = 1 * SumOver(g, S)
  BY <1>1, <1>2, SumsProportional
<1>4. SumOver(f, S) \in Int /\ SumOver(g, S) \in Int
  BY <1>1, SumOverType
<1> QED
  BY <1>3, <1>4

\* Which trades are sized, and by what.
SizedIn(study) ==
  {i \in DOMAIN study : Walk!Cardinality(Walk!Before(study, study[i].quarter)) >= 1}

LEMMA SizedIs ==
  ASSUME NEW study \in Seq(StudyTrades)
  PROVE  /\ DOMAIN Walk!Sized(study) = SizedIn(study) /\ IsFiniteSet(DOMAIN Walk!Sized(study))
         /\ \A i \in SizedIn(study) :
              /\ Walk!Sized(study)[i].rr = study[i].rr
              /\ Walk!Sized(study)[i].by
                   = Walk!MultiplierFor(study, Walk!Training(study, study[i].quarter), study[i].cell)
<1>1. SizedIn(study) \in SUBSET DOMAIN study
  BY DEF SizedIn
<1>2. Walk!Sized(study)
      = [i \in SizedIn(study) |->
           [rr |-> study[i].rr,
            by |-> Walk!MultiplierFor(study, Walk!Training(study, study[i].quarter), study[i].cell)]]
  BY DEF Walk!Sized, SizedIn
<1>3. DOMAIN Walk!Sized(study) = SizedIn(study)
  BY <1>2
<1>4. IsFiniteSet(SizedIn(study))
  BY <1>1, StudyFinite
<1>5. ASSUME NEW i \in SizedIn(study)
      PROVE  Walk!Sized(study)[i]
             = [rr |-> study[i].rr,
                by |-> Walk!MultiplierFor(study, Walk!Training(study, study[i].quarter), study[i].cell)]
  BY <1>2
<1> QED
  BY <1>3, <1>4, <1>5

LEMMA MultiplierIs ==
  ASSUME NEW study, NEW among, NEW cell
  PROVE  /\ Walk!MultiplierFor(study, among, cell).halves \in 0..3
         /\ Walk!MultiplierFor(study, among, cell).label = "UNPROVEN" =>
              Walk!MultiplierFor(study, among, cell).halves = 1
<1>1. Walk!MultiplierFor(study, among, cell) \in
        {[label |-> "UNPROVEN", halves |-> 1], [label |-> "STRONG", halves |-> 3],
         [label |-> "POSITIVE", halves |-> 2], [label |-> "MARGINAL", halves |-> 1],
         [label |-> "STARVED", halves |-> 0]}
  BY DEF Walk!MultiplierFor
<1> QED
  BY <1>1

\* What the last trade earned is in nobody's table, nor in its own.
LEMMA LastUntold ==
  ASSUME NEW study \in Seq(StudyTrades), InTime(study), study # <<>>, NEW rr \in {-100, 4, 30},
         NEW i \in DOMAIN Walk!Sized(study)
  PROVE  Walk!Sized([study EXCEPT ![Len(study)].rr = rr])[i].by = Walk!Sized(study)[i].by
<1> DEFINE n == Len(study)
           other == [study EXCEPT ![n].rr = rr]
<1>1. n \in DOMAIN study /\ \A k \in DOMAIN study : k <= n /\ study[k] \in StudyTrades
  OBVIOUS
<1>2. /\ other \in Seq(StudyTrades) /\ DOMAIN other = DOMAIN study
      /\ \A k \in DOMAIN study : /\ other[k].cell = study[k].cell /\ other[k].quarter = study[k].quarter
                                 /\ k # n => other[k].rr = study[k].rr
  <2>1. [study[n] EXCEPT !.rr = rr] \in StudyTrades
        /\ [study[n] EXCEPT !.rr = rr].cell = study[n].cell
        /\ [study[n] EXCEPT !.rr = rr].quarter = study[n].quarter
    BY <1>1 DEF StudyTrades
  <2>2. /\ DOMAIN other = DOMAIN study /\ other[n] = [study[n] EXCEPT !.rr = rr]
        /\ \A k \in DOMAIN study : k # n => other[k] = study[k]
    BY <1>1
  <2>3. other \in Seq(StudyTrades)
    <3>1. other = [study EXCEPT ![n] = [study[n] EXCEPT !.rr = rr]]
      BY <1>1
    <3> DEFINE new == [study[n] EXCEPT !.rr = rr]
    <3> HIDE DEF new
    <3>2. new \in StudyTrades
      BY <2>1 DEF new
    <3>3. [study EXCEPT ![n] = new] \in Seq(StudyTrades)
      BY <1>1, <3>2
    <3> QED
      BY <3>1, <3>3 DEF new
  <2> HIDE DEF other, n
  <2> QED
    BY <2>1, <2>2, <2>3
<1> HIDE DEF other
<1>3. i \in SizedIn(study) /\ i \in DOMAIN study
  BY SizedIs DEF SizedIn
<1>4. i \in SizedIn(other)
  <2>1. Walk!Quarters(other) = Walk!Quarters(study)
    BY <1>2 DEF Walk!Quarters
  <2>2. Walk!Before(other, other[i].quarter) = Walk!Before(study, study[i].quarter)
    BY <1>2, <1>3, <2>1 DEF Walk!Before
  <2> QED
    BY <1>2, <1>3, <2>2 DEF SizedIn
<1> DEFINE q == study[i].quarter
           cell == study[i].cell
           own == {k \in Walk!Training(study, q) : study[k].cell = cell}
<1>5. Walk!Training(other, q) = Walk!Training(study, q)
  BY <1>2 DEF Walk!Training
<1>6. own \in SUBSET DOMAIN study /\ n \notin own
  <2>1. study[i].quarter <= study[n].quarter
    BY <1>1, <1>3 DEF InTime
  <2>2. study[i].quarter \in Nat /\ study[n].quarter \in Nat
    BY <1>1, <1>3 DEF StudyTrades
  <2> QED
    BY <2>1, <2>2 DEF Walk!Training
<1>7. own = {k \in Walk!Training(other, q) : other[k].cell = cell}
  BY <1>2, <1>5, <1>6 DEF Walk!Training
<1> HIDE DEF q, cell
<1>8. SumOver(ResultsOf(study), own) = SumOver(ResultsOf(other), own)
  <2>1. \A k \in own : ResultsOf(study)[k] \in Int /\ ResultsOf(other)[k] = ResultsOf(study)[k]
    <3> TAKE k \in own
    <3>1. k \in DOMAIN study /\ k # n
      BY <1>6
    <3>2. ResultsOf(study)[k] = study[k].rr /\ ResultsOf(other)[k] = other[k].rr
      BY <1>2, <3>1 DEF ResultsOf
    <3>3. study[k].rr \in Int /\ other[k].rr = study[k].rr
      BY <1>1, <1>2, <3>1, SMTT(30) DEF StudyTrades
    <3> QED
      BY <3>2, <3>3
  <2>2. IsFiniteSet(own)
    BY <1>6, StudyFinite
  <2> HIDE DEF own
  <2> QED
    BY <2>1, <2>2, SumsEqual
<1>9. Walk!Row(study, Walk!Training(study, q), cell)
      = [trades |-> Walk!Cardinality(own), net |-> SumOver(ResultsOf(study), own)]
  BY <1>6, ResultsSummed DEF Walk!Row
<1>10. Walk!Row(other, Walk!Training(other, q), cell)
       = [trades |-> Walk!Cardinality(own), net |-> SumOver(ResultsOf(other), own)]
  <2>1. own \in SUBSET DOMAIN other
    BY <1>2, <1>6
  <2>2. Walk!Row(other, Walk!Training(other, q), cell)
        = LET mine == {k \in Walk!Training(other, q) : other[k].cell = cell}
          IN [trades |-> Walk!Cardinality(mine), net |-> Walk!MapThenSumSet(LAMBDA k : other[k].rr, mine)]
    BY DEF Walk!Row
  <2>3. Walk!Row(other, Walk!Training(other, q), cell)
        = [trades |-> Walk!Cardinality(own), net |-> Walk!MapThenSumSet(LAMBDA k : other[k].rr, own)]
    BY <1>7, <2>2
  <2> HIDE DEF own
  <2> QED
    BY <2>1, <2>3, ResultsSummed
<1>11. Walk!Row(study, Walk!Training(study, q), cell) = Walk!Row(other, Walk!Training(other, q), cell)
  BY <1>8, <1>9, <1>10
<1>12. Walk!MultiplierFor(other, Walk!Training(other, q), cell)
       = Walk!MultiplierFor(study, Walk!Training(study, q), cell)
  BY <1>11 DEF Walk!MultiplierFor
<1>13. Walk!Sized(study)[i].by = Walk!MultiplierFor(study, Walk!Training(study, q), cell)
  BY <1>3, SizedIs DEF q, cell
<1>14. Walk!Sized(other)[i].by = Walk!MultiplierFor(other, Walk!Training(other, q), cell)
  <2>1. other[i].quarter = q /\ other[i].cell = cell
    BY <1>2, <1>3 DEF q, cell
  <2> QED
    BY <1>2, <1>4, <2>1, SizedIs
<1> QED
  BY <1>12, <1>13, <1>14 DEF other
\* The trades that are sized are whole.
LEMMA SizedWhole ==
  ASSUME NEW study \in Seq(StudyTrades)
  PROVE  /\ IsFiniteSet(DOMAIN Walk!Sized(study))
         /\ \A i \in DOMAIN Walk!Sized(study) :
              /\ Walk!Sized(study)[i].rr \in Int /\ Walk!Sized(study)[i].by.halves \in 0..3
              /\ Walk!Sized(study)[i].by.label = "UNPROVEN" => Walk!Sized(study)[i].by.halves = 1
<1>1. IsFiniteSet(DOMAIN Walk!Sized(study))
  BY SizedIs
<1>2. ASSUME NEW i \in DOMAIN Walk!Sized(study)
      PROVE  /\ Walk!Sized(study)[i].rr \in Int /\ Walk!Sized(study)[i].by.halves \in 0..3
             /\ Walk!Sized(study)[i].by.label = "UNPROVEN" => Walk!Sized(study)[i].by.halves = 1
  <2>1. i \in SizedIn(study) /\ i \in DOMAIN study
    BY <1>2, SizedIs DEF SizedIn
  <2>2. study[i].rr \in Int
    <3>1. study[i] \in StudyTrades
      BY <2>1
    <3> QED
      BY <3>1 DEF StudyTrades
  <2>3. /\ Walk!Sized(study)[i].rr = study[i].rr
        /\ Walk!Sized(study)[i].by
             = Walk!MultiplierFor(study, Walk!Training(study, study[i].quarter), study[i].cell)
    BY <2>1, SizedIs
  <2> QED
    BY <2>2, <2>3, MultiplierIs
<1> QED
  BY <1>1, <1>2

\* A verdict for the sized book told trades apart.
LEMMA ToldApart ==
  ASSUME NEW sized, IsFiniteSet(DOMAIN sized),
         \A i \in DOMAIN sized : sized[i].rr \in Int /\ sized[i].by.halves \in 0..3,
         Walk!SizingVerdict(Walk!Flat(sized), Walk!Scaled(sized)),
         Walk!Flat(sized).loss # 0, Walk!Scaled(sized).loss # 0
  PROVE  \E i, k \in DOMAIN sized : sized[i].by.halves # sized[k].by.halves
<1> SUFFICES ASSUME \A i, k \in DOMAIN sized : sized[i].by.halves = sized[k].by.halves PROVE FALSE
  OBVIOUS
<1>1. Walk!Flat(sized) = Walk!Book(FlatOf(sized)) /\ Walk!Scaled(sized) = Walk!Book(ScaledOf(sized))
  BY DEF Walk!Flat, Walk!Scaled, FlatOf, ScaledOf
<1>2. LostIn(FlatOf(sized)) # 0 /\ LostIn(ScaledOf(sized)) # 0
  BY <1>1, BookIs
<1>3. SumOver(ScaledOf(sized), {}) = 0 /\ SumOver(FlatOf(sized), {}) = 0
  <2>1. IsFiniteSet({})
    BY FS_EmptySet
  <2>2. PICK i : AddsUp(i, ScaledOf(sized), {}) /\ SumOver(ScaledOf(sized), {}) = i[{}]
    BY <2>1, SumOverAdds
  <2>3. PICK k : AddsUp(k, FlatOf(sized), {}) /\ SumOver(FlatOf(sized), {}) = k[{}]
    BY <2>1, SumOverAdds
  <2> QED
    BY <2>2, <2>3 DEF AddsUp
<1>4. DOMAIN sized # {}
  <2> SUFFICES ASSUME DOMAIN sized = {} PROVE FALSE
    OBVIOUS
  <2>1. Losses(FlatOf(sized)) = {}
    BY DEF Losses, FlatOf
  <2> QED
    BY <1>2, <1>3, <2>1 DEF LostIn
<1>5. PICK h \in 0..3 : \A i \in DOMAIN sized : sized[i].by.halves = h
  BY <1>4
<1>6. h # 0
  <2> SUFFICES ASSUME h = 0 PROVE FALSE
    OBVIOUS
  <2>1. \A i \in DOMAIN sized : ScaledOf(sized)[i] = 0
    <3> TAKE i \in DOMAIN sized
    <3>1. sized[i].rr \in Int /\ sized[i].by.halves = 0
      BY <1>5
    <3>2. ScaledOf(sized)[i] = sized[i].rr * sized[i].by.halves
      BY DEF ScaledOf
    <3>3. \A r \in Int : r * 0 = 0
      OBVIOUS
    <3> QED
      BY <3>1, <3>2, <3>3
  <2>2. Losses(ScaledOf(sized)) = {}
    <3>1. DOMAIN ScaledOf(sized) = DOMAIN sized
      BY DEF ScaledOf
    <3> QED
      BY <2>1, <3>1 DEF Losses
  <2> QED
    BY <1>2, <1>3, <2>2 DEF LostIn
<1>7. h \in 1..3 /\ \A i \in DOMAIN sized : sized[i].rr \in Int /\ sized[i].by.halves = h
  BY <1>5, <1>6
<1>8. Walk!Book(ScaledOf(sized)).pf = Walk!Book(FlatOf(sized)).pf
  BY <1>2, <1>7, EvenlyFactored
<1>9. Walk!Scaled(sized).pf > Walk!Flat(sized).pf
  BY DEF Walk!SizingVerdict
<1>10. Walk!Book(FlatOf(sized)).pf \in Int
  <2>1. WonIn(FlatOf(sized)) \in Nat /\ LostIn(FlatOf(sized)) \in Nat
    BY <1>7, EvenlySized
  <2>2. Walk!Book(FlatOf(sized)).pf
        = (200 * WonIn(FlatOf(sized)) + LostIn(FlatOf(sized))) \div (2 * LostIn(FlatOf(sized)))
    BY <1>2, BookIs
  <2> QED
    BY <1>2, <2>1, <2>2
<1> QED
  BY <1>1, <1>8, <1>9, <1>10

\* And one of them was of a proven cell.
LEMMA ProvenOnly ==
  ASSUME NEW sized, IsFiniteSet(DOMAIN sized),
         \A i \in DOMAIN sized : sized[i].rr \in Int /\ sized[i].by.halves = 1
  PROVE  ~Walk!SizingVerdict(Walk!Flat(sized), Walk!Scaled(sized))
<1> SUFFICES ASSUME Walk!SizingVerdict(Walk!Flat(sized), Walk!Scaled(sized)) PROVE FALSE
  OBVIOUS
<1>1. Walk!Flat(sized) = Walk!Book(FlatOf(sized)) /\ Walk!Scaled(sized) = Walk!Book(ScaledOf(sized))
  BY DEF Walk!Flat, Walk!Scaled, FlatOf, ScaledOf
<1>2. 1 \in 1..3
  OBVIOUS
<1> DEFINE w == WonIn(ScaledOf(sized))
           l == LostIn(ScaledOf(sized))
           v == WonIn(FlatOf(sized))
           m == LostIn(FlatOf(sized))
<1>3. /\ 2 * w = 1 * v /\ 2 * l = 1 * m
      /\ w \in Nat /\ l \in Nat /\ v \in Nat /\ m \in Nat
  BY <1>2, EvenlySized
<1>4. Walk!Book(ScaledOf(sized)).pf = IF l = 0 THEN (w + 1) \div 2 ELSE (200 * w + l) \div (2 * l)
  BY BookIs
<1>5. Walk!Book(FlatOf(sized)).pf = IF m = 0 THEN (v + 1) \div 2 ELSE (200 * v + m) \div (2 * m)
  BY BookIs
<1>6. Walk!Book(ScaledOf(sized)).pf > Walk!Book(FlatOf(sized)).pf
  BY <1>1 DEF Walk!SizingVerdict
<1>7. m # 0 => Walk!Book(ScaledOf(sized)).pf = Walk!Book(FlatOf(sized)).pf
  BY <1>2, EvenlyFactored
<1> HIDE DEF w, l, v, m
<1>8. CASE m = 0
  <2>1. l = 0 /\ v = 2 * w
    BY <1>3, <1>8
  <2>2. (v + 1) \div 2 = w
    BY <1>3, <2>1
  <2>3. (w + 1) \div 2 <= w
    BY <1>3
  <2>4. (w + 1) \div 2 > w
    BY <1>4, <1>5, <1>6, <1>8, <2>1, <2>2
  <2> QED
    BY <1>3, <2>3, <2>4
<1>9. CASE m # 0
  <2>1. (200 * v + m) \div (2 * m) \in Int
    BY <1>3, <1>9
  <2> QED
    BY <1>5, <1>6, <1>7, <1>9, <2>1
<1> QED
  BY <1>8, <1>9

\* When a quotient reaches a number.
LEMMA QuotientReaches ==
  ASSUME NEW a \in Int, NEW b \in Nat \ {0}
  PROVE  a \div b \in Int /\ (a \div b > 110 <=> a >= 111 * b)
<1> DEFINE q == a \div b
           rest == a % b
<1>1. q \in Int /\ rest \in Int /\ 0 <= rest /\ rest < b /\ a = b * q + rest
  OBVIOUS
<1> HIDE DEF q, rest
<1>2. CASE q > 110
  <2>1. q - 111 \in Nat
    BY <1>1, <1>2
  <2>2. b * (q - 111) \in Nat /\ b * (q - 111) = b * q - 111 * b
    BY <1>1, <2>1
  <2>3. a >= 111 * b
    BY <1>1, <2>2
  <2> QED
    BY <1>1, <1>2, <2>3 DEF q
<1>3. CASE ~(q > 110)
  <2>1. 110 - q \in Nat
    BY <1>1, <1>3
  <2>2. b * (110 - q) \in Nat /\ b * (110 - q) = 110 * b - b * q /\ b * q \in Int
    BY <1>1, <2>1
  <2>3. ~(a >= 111 * b)
    BY <1>1, <2>2
  <2> QED
    BY <1>1, <1>3, <2>3 DEF q
<1> QED
  BY <1>2, <1>3
\* What a study says of a tape.
Doubled(study) == [i \in DOMAIN study |-> 2 * study[i].rr]
OfQuarter(study, q) == {i \in DOMAIN study : study[i].quarter = q}
Positive(study) == {q \in Walk!Quarters(study) : Walk!QuarterNet(study, q) > 0}

LEMMA SummaryIs ==
  ASSUME NEW study
  PROVE  /\ Walk!Summarize(study).loss = LostIn(Doubled(study))
         /\ Walk!Summarize(study).promote
              <=> /\ Walk!Book(Doubled(study)).net > 0 /\ Walk!Book(Doubled(study)).pf > 110
                  /\ 2 * Cardinality(Positive(study)) > Cardinality(Walk!Quarters(study))
<1> DEFINE book == Walk!Book(Doubled(study))
<1>1. Walk!Summarize(study)
      = [loss |-> book.loss,
         promote |-> /\ book.net > 0 /\ book.pf > 110
                     /\ 2 * Walk!Cardinality(Positive(study)) > Walk!Cardinality(Walk!Quarters(study))]
  BY DEF Walk!Summarize, Doubled, Positive
<1>2. book.loss = LostIn(Doubled(study))
  BY BookIs
<1> HIDE DEF book
<1>3. /\ Walk!Cardinality(Positive(study)) = Cardinality(Positive(study))
      /\ Walk!Cardinality(Walk!Quarters(study)) = Cardinality(Walk!Quarters(study))
  BY WalkCardinality
<1> DEFINE good == /\ book.net > 0 /\ book.pf > 110
                   /\ 2 * Cardinality(Positive(study)) > Cardinality(Walk!Quarters(study))
<1>4. Walk!Summarize(study) = [loss |-> book.loss, promote |-> good]
  BY <1>1, <1>3
<1> HIDE DEF good
<1>5. Walk!Summarize(study).loss = book.loss /\ Walk!Summarize(study).promote = good
  BY <1>4
<1> QED
  BY <1>2, <1>5 DEF good, book

\* The same tape at the costs of a rollover.
LEMMA Dearer ==
  ASSUME NEW study \in Seq(StudyTrades)
  PROVE  LET dear == Walk!AtRollover(study)
         IN /\ DOMAIN dear = DOMAIN study
            /\ \A i \in DOMAIN study : /\ study[i].rr \in Int /\ dear[i].rr \in Int /\ dear[i].rr <= study[i].rr
                                       /\ dear[i].quarter = study[i].quarter
<1> DEFINE costs == [us30_expansion |-> 5, nas100_range |-> 2]
           dear == Walk!AtRollover(study)
<1>1. costs["us30_expansion"] = 5 /\ costs["nas100_range"] = 2
  OBVIOUS
<1>2. dear = [i \in DOMAIN study |-> [study[i] EXCEPT !.rr = @ - costs[study[i].cell]]]
  BY DEF Walk!AtRollover
<1> HIDE DEF costs, dear
<1>3. ASSUME NEW i \in DOMAIN study
      PROVE  /\ study[i].rr \in Int /\ dear[i].rr \in Int /\ dear[i].rr <= study[i].rr
             /\ dear[i].quarter = study[i].quarter
  <2>1. study[i] \in StudyTrades
    OBVIOUS
  <2>2. study[i].rr \in Int /\ costs[study[i].cell] \in {2, 5}
    BY <1>1, <2>1 DEF StudyTrades
  <2>3. dear[i] = [study[i] EXCEPT !.rr = study[i].rr - costs[study[i].cell]]
    BY <1>2
  <2>4. dear[i].rr = study[i].rr - costs[study[i].cell] /\ dear[i].quarter = study[i].quarter
    BY <2>1, <2>3 DEF StudyTrades
  <2> QED
    BY <2>2, <2>4
<1>4. DOMAIN dear = DOMAIN study
  BY <1>2
<1> QED
  BY <1>3, <1>4 DEF dear

LEMMA DearerBooks ==
  ASSUME NEW study \in Seq(StudyTrades)
  PROVE  LET cheap == Doubled(study)
             dear == Doubled(Walk!AtRollover(study))
         IN /\ WonIn(cheap) \in Nat /\ LostIn(cheap) \in Nat /\ WonIn(dear) \in Nat /\ LostIn(dear) \in Nat
            /\ WonIn(dear) <= WonIn(cheap) /\ LostIn(cheap) <= LostIn(dear)
<1> DEFINE S == DOMAIN study
           cheap == Doubled(study)
           dear == Doubled(Walk!AtRollover(study))
<1>1. /\ cheap \in [S -> Int] /\ dear \in [S -> Int]
      /\ \A i \in S : dear[i] <= cheap[i]
  <2>1. cheap = [i \in S |-> 2 * study[i].rr] /\ dear = [i \in S |-> 2 * Walk!AtRollover(study)[i].rr]
    BY Dearer DEF Doubled
  <2>2. \A i \in S : /\ study[i].rr \in Int /\ Walk!AtRollover(study)[i].rr \in Int
                     /\ Walk!AtRollover(study)[i].rr <= study[i].rr
    BY Dearer
  <2> HIDE DEF cheap, dear
  <2> QED
    BY <2>1, <2>2
<1>2. IsFiniteSet(S)
  BY StudyFinite
<1> HIDE DEF S, cheap, dear
<1>3. /\ WonIn(cheap) \in Nat /\ LostIn(cheap) \in Nat /\ Gains(cheap) \in SUBSET S /\ Losses(cheap) \in SUBSET S
      /\ WonIn(dear) \in Nat /\ LostIn(dear) \in Nat /\ Gains(dear) \in SUBSET S /\ Losses(dear) \in SUBSET S
  BY <1>1, <1>2, WonAndLost
<1>4. \A i \in S : /\ cheap[i] \in Int /\ dear[i] \in Int
                   /\ 1 * Share(dear, Gains(dear), i) <= 1 * Share(cheap, Gains(cheap), i)
                   /\ 1 * Share(dear, Losses(dear), i) <= 1 * Share(cheap, Losses(cheap), i)
  <2> TAKE i \in S
  <2>1. cheap[i] \in Int /\ dear[i] \in Int /\ dear[i] <= cheap[i] /\ i \in DOMAIN cheap /\ i \in DOMAIN dear
    BY <1>1
  <2>2. Share(dear, Gains(dear), i) = IF dear[i] > 0 THEN dear[i] ELSE 0
    BY <2>1 DEF Share, Gains
  <2>3. Share(cheap, Gains(cheap), i) = IF cheap[i] > 0 THEN cheap[i] ELSE 0
    BY <2>1 DEF Share, Gains
  <2>4. Share(dear, Losses(dear), i) = IF dear[i] < 0 THEN dear[i] ELSE 0
    BY <2>1 DEF Share, Losses
  <2>5. Share(cheap, Losses(cheap), i) = IF cheap[i] < 0 THEN cheap[i] ELSE 0
    BY <2>1 DEF Share, Losses
  <2> QED
    BY <2>1, <2>2, <2>3, <2>4, <2>5
<1>5. 1 \in 1..3
  OBVIOUS
<1>6. 1 * SumOver(dear, Gains(dear)) <= 1 * SumOver(cheap, Gains(cheap))
  <2>1. (\A x \in Gains(dear) : dear[x] \in Int) /\ (\A x \in Gains(cheap) : cheap[x] \in Int)
    BY <1>3, <1>4
  <2> QED
    BY <1>2, <1>3, <1>4, <1>5, <2>1, SumsCompared
<1>7. 1 * SumOver(dear, Losses(dear)) <= 1 * SumOver(cheap, Losses(cheap))
  <2>1. (\A x \in Losses(dear) : dear[x] \in Int) /\ (\A x \in Losses(cheap) : cheap[x] \in Int)
    BY <1>3, <1>4
  <2> QED
    BY <1>2, <1>3, <1>4, <1>5, <2>1, SumsCompared
<1>8. SumOver(dear, Losses(dear)) \in Int /\ SumOver(cheap, Losses(cheap)) \in Int
  <2>1. IsFiniteSet(Losses(dear)) /\ IsFiniteSet(Losses(cheap))
    BY <1>2, <1>3, FS_Subset
  <2>2. (\A x \in Losses(dear) : dear[x] \in Int) /\ (\A x \in Losses(cheap) : cheap[x] \in Int)
    BY <1>3, <1>4
  <2> QED
    BY <2>1, <2>2, SumOverType
<1>9. WonIn(dear) = SumOver(dear, Gains(dear)) /\ WonIn(cheap) = SumOver(cheap, Gains(cheap))
  BY DEF WonIn
<1>10. LostIn(dear) = -SumOver(dear, Losses(dear)) /\ LostIn(cheap) = -SumOver(cheap, Losses(cheap))
  BY DEF LostIn
<1>11. WonIn(dear) <= WonIn(cheap)
  BY <1>3, <1>6, <1>9
<1>12. LostIn(cheap) <= LostIn(dear)
  BY <1>7, <1>8, <1>10
<1> QED
  BY <1>3, <1>11, <1>12 DEF cheap, dear

\* A quarter is no better at dearer fills.
LEMMA DearerQuarters ==
  ASSUME NEW study \in Seq(StudyTrades)
  PROVE  /\ Walk!Quarters(Walk!AtRollover(study)) = Walk!Quarters(study)
         /\ IsFiniteSet(Walk!Quarters(study))
         /\ Positive(Walk!AtRollover(study)) \in SUBSET Positive(study)
<1> DEFINE dear == Walk!AtRollover(study)
<1>1. /\ DOMAIN dear = DOMAIN study
      /\ \A i \in DOMAIN study : /\ study[i].rr \in Int /\ dear[i].rr \in Int /\ dear[i].rr <= study[i].rr
                                 /\ dear[i].quarter = study[i].quarter
  BY Dearer
<1> HIDE DEF dear
<1>2. Walk!Quarters(dear) = Walk!Quarters(study)
  BY <1>1 DEF Walk!Quarters
<1>3. IsFiniteSet(Walk!Quarters(study))
  <2>1. IsFiniteSet(DOMAIN study)
    BY StudyFinite
  <2> DEFINE f == [i \in DOMAIN study |-> study[i].quarter]
  <2>2. f \in Surjection(DOMAIN study, Walk!Quarters(study))
    BY DEF Surjection, Walk!Quarters
  <2> HIDE DEF f
  <2> QED
    BY <2>1, <2>2, FS_Surjection
<1>4. ASSUME NEW q PROVE /\ Walk!QuarterNet(dear, q) <= Walk!QuarterNet(study, q)
                         /\ Walk!QuarterNet(dear, q) \in Int /\ Walk!QuarterNet(study, q) \in Int
  <2> DEFINE S == OfQuarter(study, q)
             f == ResultsOf(dear)
             g == ResultsOf(study)
  <2>1. S \in SUBSET DOMAIN study /\ S \in SUBSET DOMAIN dear /\ S = OfQuarter(dear, q)
    BY <1>1 DEF OfQuarter
  <2>2. IsFiniteSet(S)
    BY <2>1, StudyFinite
  <2>3. Walk!QuarterNet(study, q) = SumOver(g, S)
    BY <2>1, ResultsSummed DEF Walk!QuarterNet, OfQuarter
  <2>4. Walk!QuarterNet(dear, q) = SumOver(f, S)
    <3>1. Walk!QuarterNet(dear, q) = Walk!MapThenSumSet(LAMBDA i : dear[i].rr, OfQuarter(dear, q))
      BY DEF Walk!QuarterNet, OfQuarter
    <3>2. OfQuarter(dear, q) \in SUBSET DOMAIN dear
      BY DEF OfQuarter
    <3> QED
      BY <2>1, <3>1, <3>2, ResultsSummed
  <2>5. \A x \in S : f[x] \in Int /\ g[x] \in Int /\ f[x] <= g[x]
    BY <1>1, <2>1 DEF ResultsOf
  <2> HIDE DEF S, f, g
  <2>6. \A x \in S : 1 * Share(f, S, x) <= 1 * Share(g, S, x)
    BY <2>5 DEF Share
  <2>7. 1 \in 1..3 /\ S \in SUBSET S /\ (\A x \in S : f[x] \in Int) /\ (\A x \in S : g[x] \in Int)
    BY <2>5
  <2>8. 1 * SumOver(f, S) <= 1 * SumOver(g, S)
    BY <2>2, <2>6, <2>7, SumsCompared
  <2>9. SumOver(f, S) \in Int /\ SumOver(g, S) \in Int
    BY <2>2, <2>7, SumOverType
  <2> QED
    BY <2>3, <2>4, <2>8, <2>9
<1>5. Positive(dear) \in SUBSET Positive(study)
  <2>1. \A q : Walk!QuarterNet(dear, q) > 0 => Walk!QuarterNet(study, q) > 0
    BY <1>4
  <2> QED
    BY <1>2, <2>1 DEF Positive
<1> QED
  BY <1>2, <1>3, <1>5 DEF dear

\* What is promoted at dearer fills was promoted at ordinary ones.
LEMMA DearerRefuses ==
  ASSUME NEW study \in Seq(StudyTrades), Walk!Summarize(Walk!AtRollover(study)).promote,
         Walk!Summarize(study).loss # 0
  PROVE  Walk!Summarize(study).promote
<1> DEFINE w == WonIn(Doubled(study))
           l == LostIn(Doubled(study))
           v == WonIn(Doubled(Walk!AtRollover(study)))
           m == LostIn(Doubled(Walk!AtRollover(study)))
           cheap == Walk!Book(Doubled(study))
           dear == Walk!Book(Doubled(Walk!AtRollover(study)))
<1>1. w \in Nat /\ l \in Nat /\ v \in Nat /\ m \in Nat /\ v <= w /\ l <= m
  BY DearerBooks
<1>2. l # 0
  BY SummaryIs
<1>3. cheap.net = (w - l + 1) \div 2 /\ cheap.pf = (200 * w + l) \div (2 * l)
  BY <1>2, BookIs
<1>4. dear.net = (v - m + 1) \div 2 /\ dear.pf = (200 * v + m) \div (2 * m)
  <2>1. m # 0
    BY <1>1, <1>2
  <2> QED
    BY <2>1, BookIs
<1>5. /\ dear.net > 0 /\ dear.pf > 110
      /\ 2 * Cardinality(Positive(Walk!AtRollover(study))) > Cardinality(Walk!Quarters(study))
  BY SummaryIs, DearerQuarters
<1> HIDE DEF w, l, v, m, cheap, dear
<1>6. cheap.net > 0
  <2>1. (v - m + 1) \div 2 > 0
    BY <1>4, <1>5
  <2>2. v - m + 1 >= 2
    BY <1>1, <2>1
  <2>3. w - l + 1 >= 2
    BY <1>1, <2>2
  <2>4. (w - l + 1) \div 2 > 0
    BY <1>1, <2>3
  <2> QED
    BY <1>3, <2>4
<1>7. cheap.pf > 110
  <2>1. 2 * m \in Nat \ {0} /\ 200 * v + m \in Int /\ 2 * l \in Nat \ {0} /\ 200 * w + l \in Int
    BY <1>1, <1>2
  <2>2. 200 * v + m >= 111 * (2 * m)
    BY <1>4, <1>5, <2>1, QuotientReaches
  <2>3. 200 * w + l >= 111 * (2 * l)
    BY <1>1, <2>2
  <2> QED
    BY <1>3, <2>1, <2>3, QuotientReaches
<1>8. 2 * Cardinality(Positive(study)) > Cardinality(Walk!Quarters(study))
  <2>1. IsFiniteSet(Positive(study)) /\ IsFiniteSet(Walk!Quarters(study))
    <3>1. Positive(study) \in SUBSET Walk!Quarters(study)
      BY DEF Positive
    <3> QED
      BY <3>1, DearerQuarters, FS_Subset
  <2>2. /\ Cardinality(Positive(Walk!AtRollover(study))) <= Cardinality(Positive(study))
        /\ Cardinality(Positive(Walk!AtRollover(study))) \in Nat
    <3>1. Positive(Walk!AtRollover(study)) \in SUBSET Positive(study)
      BY DearerQuarters
    <3> QED
      BY <2>1, <3>1, FS_Subset, FS_CardinalityType
  <2>3. Cardinality(Positive(study)) \in Nat /\ Cardinality(Walk!Quarters(study)) \in Nat
    BY <2>1, FS_CardinalityType
  <2> QED
    BY <1>5, <2>2, <2>3
<1> QED
  BY <1>6, <1>7, <1>8, SummaryIs DEF cheap
\* The tape is in time, and what is reported is reported of the whole tape.
SizingReport(study) ==
  [study |-> "sizing",
   promote |-> Walk!SizingVerdict(Walk!Flat(Walk!Sized(study)), Walk!Scaled(Walk!Sized(study))),
   sized |-> Walk!Sized(study)]
RolloverReport(study) ==
  [study |-> "mean_reversion",
   promote |-> Walk!Summarize(study).promote /\ Walk!Summarize(Walk!AtRollover(study)).promote,
   plain |-> Walk!Summarize(study), stressed |-> Walk!Summarize(Walk!AtRollover(study))]

WalkInv ==
  /\ tape \in Seq(StudyTrades) /\ InTime(tape)
  /\ \/ report = Walk!NoReport
     \/ tape # <<>> /\ report = SizingReport(tape)
     \/ report = RolloverReport(tape)
WalkKept == part = "walk" => WalkInv

LEMMA TradeCollected == WalkInv /\ Walk!CollectTrade => WalkInv'
<1> SUFFICES ASSUME WalkInv, Walk!CollectTrade PROVE WalkInv'
  OBVIOUS
<1>1. report = Walk!NoReport /\ report' = report
  BY DEF Walk!CollectTrade
<1>2. PICK cell \in {"us30_expansion", "nas100_range"}, rr \in {-100, 4, 30}, later \in 0..1 :
        tape' = Append(tape, [cell |-> cell, rr |-> rr,
                              quarter |-> later + (IF tape = <<>> THEN 1 ELSE Walk!Last(tape).quarter)])
  BY DEF Walk!CollectTrade
<1> DEFINE q == later + (IF tape = <<>> THEN 1 ELSE Walk!Last(tape).quarter)
           new == [cell |-> cell, rr |-> rr, quarter |-> q]
<1>3. tape \in Seq(StudyTrades) /\ InTime(tape)
  BY DEF WalkInv
<1>4. q \in Nat /\ \A k \in DOMAIN tape : tape[k].quarter <= q
  <2>1. CASE tape = <<>>
    BY <2>1
  <2>2. CASE tape # <<>>
    <3>1. Len(tape) \in DOMAIN tape /\ \A k \in DOMAIN tape : k <= Len(tape) /\ tape[k] \in StudyTrades
      BY <1>3, <2>2
    <3>2. Walk!Last(tape) = tape[Len(tape)]
      BY DEF Walk!Last
    <3>3. tape[Len(tape)].quarter \in Nat /\ \A k \in DOMAIN tape : tape[k].quarter \in Nat
      BY <3>1 DEF StudyTrades
    <3>4. \A k \in DOMAIN tape : tape[k].quarter <= tape[Len(tape)].quarter
      BY <1>3, <3>1 DEF InTime
    <3> QED
      BY <2>2, <3>2, <3>3, <3>4
  <2> QED
    BY <2>1, <2>2
<1> HIDE DEF q
<1>5. new \in StudyTrades /\ new.quarter = q
  BY <1>4 DEF StudyTrades
<1>6. tape' = Append(tape, new)
  BY <1>2 DEF q
<1> HIDE DEF new
<1>7. /\ tape' \in Seq(StudyTrades) /\ DOMAIN tape' = 1..Len(tape) + 1 /\ tape'[Len(tape) + 1] = new
      /\ \A k \in DOMAIN tape : tape'[k] = tape[k]
      /\ DOMAIN tape = 1..Len(tape) /\ Len(tape) \in Nat
  BY <1>3, <1>5, <1>6
<1>8. InTime(tape')
  <2> SUFFICES ASSUME NEW i \in DOMAIN tape', NEW k \in DOMAIN tape', i <= k
               PROVE  tape'[i].quarter <= tape'[k].quarter
    BY DEF InTime
  <2>1. CASE k \in DOMAIN tape
    <3>1. i \in DOMAIN tape
      BY <1>7, <2>1
    <3> QED
      BY <1>3, <1>7, <2>1, <3>1 DEF InTime
  <2>2. CASE k \notin DOMAIN tape
    <3>1. k = Len(tape) + 1
      BY <1>7, <2>2
    <3>2. tape'[k].quarter = q
      BY <1>5, <1>7, <3>1
    <3>3. CASE i = k
      BY <1>4, <3>2, <3>3
    <3>4. CASE i # k
      <4>1. i \in DOMAIN tape
        BY <1>7, <3>1, <3>4
      <4> QED
        BY <1>4, <1>7, <3>2, <4>1
    <3> QED
      BY <3>3, <3>4
  <2> QED
    BY <2>1, <2>2
<1> QED
  BY <1>1, <1>7, <1>8 DEF WalkInv

LEMMA WalkFrame ==
  [MCNext]_mc_vars => /\ part' = part
                      /\ (part = "walk" /\ Walk!WalkNext) \/ UNCHANGED walk_vars
BY DEF MCNext, mc_vars, replay_vars, Watching, Deciding, Replaying, Limiting, walk_vars

LEMMA WalkSteps == WalkKept /\ [MCNext]_mc_vars => WalkKept'
<1> SUFFICES ASSUME WalkKept, [MCNext]_mc_vars, part' = "walk" PROVE WalkInv'
  BY DEF WalkKept
<1>1. part = "walk" /\ (Walk!WalkNext \/ UNCHANGED walk_vars)
  BY WalkFrame
<1>2. WalkInv
  BY <1>1 DEF WalkKept
<1>3. CASE UNCHANGED walk_vars
  BY <1>2, <1>3 DEF walk_vars, WalkInv, InTime, SizingReport, RolloverReport
<1>4. CASE Walk!CollectTrade
  BY <1>2, <1>4, TradeCollected
<1>5. CASE Walk!EvaluateWalk
  <2>1. tape # <<>> /\ tape' = tape
    BY <1>5 DEF Walk!EvaluateWalk
  <2>2. report' = SizingReport(tape)
    BY <1>5 DEF Walk!EvaluateWalk, SizingReport
  <2>3. tape' \in Seq(StudyTrades) /\ InTime(tape') /\ tape' # <<>> /\ report' = SizingReport(tape')
    BY <1>2, <2>1, <2>2 DEF WalkInv
  <2> QED
    BY <2>3 DEF WalkInv
<1>6. CASE Walk!EvaluateStudy
  <2>1. tape' = tape
    BY <1>6 DEF Walk!EvaluateStudy
  <2>2. report' = RolloverReport(tape)
    BY <1>6 DEF Walk!EvaluateStudy, RolloverReport
  <2>3. tape' \in Seq(StudyTrades) /\ InTime(tape') /\ report' = RolloverReport(tape')
    BY <1>2, <2>1, <2>2 DEF WalkInv
  <2> QED
    BY <2>3 DEF WalkInv
<1> QED
  BY <1>1, <1>3, <1>4, <1>5, <1>6 DEF Walk!WalkNext

LEMMA WalkStarts == Walk!WalkInit => WalkInv
<1> SUFFICES ASSUME Walk!WalkInit PROVE WalkInv
  OBVIOUS
<1>1. tape = <<>> /\ report = Walk!NoReport
  BY DEF Walk!WalkInit
<1>2. <<>> \in Seq(StudyTrades) /\ DOMAIN <<>> = {}
  OBVIOUS
<1>3. InTime(tape)
  BY <1>1, <1>2 DEF InTime
<1> QED
  BY <1>1, <1>2, <1>3 DEF WalkInv

\* The two halves of the walk's part of the invariant.
LEMMA OutOfSample == WalkInv => Walk!WalkIsOutOfSample
<1> SUFFICES ASSUME WalkInv, report.study = "sizing" PROVE Walk!WalkIsOutOfSample
  BY DEF Walk!WalkIsOutOfSample
<1>1. tape # <<>> /\ report = SizingReport(tape)
  <2>1. Walk!NoReport.study = "none" /\ RolloverReport(tape).study = "mean_reversion"
    BY DEF Walk!NoReport, RolloverReport
  <2> QED
    BY <2>1 DEF WalkInv
<1>2. tape \in Seq(StudyTrades) /\ InTime(tape)
  BY DEF WalkInv
<1> DEFINE sized == Walk!Sized(tape)
<1>3. /\ report.sized = sized
      /\ report.promote <=> Walk!SizingVerdict(Walk!Flat(sized), Walk!Scaled(sized))
  BY <1>1 DEF SizingReport
<1>4. /\ IsFiniteSet(DOMAIN sized)
      /\ \A i \in DOMAIN sized : /\ sized[i].rr \in Int /\ sized[i].by.halves \in 0..3
                                 /\ sized[i].by.label = "UNPROVEN" => sized[i].by.halves = 1
  BY <1>2, SizedWhole
<1>5. ASSUME NEW rr \in {-100, 4, 30}, NEW i \in DOMAIN sized
      PROVE  Walk!Sized([tape EXCEPT ![Len(tape)].rr = rr])[i].by = sized[i].by
  BY <1>1, <1>2, LastUntold
<1> HIDE DEF sized
<1>6. ASSUME report.promote
      PROVE  /\ \E i \in DOMAIN sized : sized[i].by.label # "UNPROVEN"
             /\ \/ \E i, j \in DOMAIN sized : sized[i].by.halves # sized[j].by.halves
                \/ Walk!Flat(sized).loss = 0 \/ Walk!Scaled(sized).loss = 0
  <2>1. Walk!SizingVerdict(Walk!Flat(sized), Walk!Scaled(sized))
    BY <1>3, <1>6
  <2>2. \E i \in DOMAIN sized : sized[i].by.label # "UNPROVEN"
    <3> SUFFICES ASSUME \A i \in DOMAIN sized : sized[i].by.label = "UNPROVEN" PROVE FALSE
      OBVIOUS
    <3>1. \A i \in DOMAIN sized : sized[i].rr \in Int /\ sized[i].by.halves = 1
      BY <1>4
    <3> QED
      BY <1>4, <2>1, <3>1, ProvenOnly
  <2>3. \/ \E i, j \in DOMAIN sized : sized[i].by.halves # sized[j].by.halves
        \/ Walk!Flat(sized).loss = 0 \/ Walk!Scaled(sized).loss = 0
    BY <1>4, <2>1, ToldApart
  <2> QED
    BY <2>2, <2>3
<1> QED
  BY <1>3, <1>5, <1>6, ZenonT(40) DEF Walk!WalkIsOutOfSample

LEMMA StressRefuses == WalkInv => Walk!StressOnlyRefuses
<1> SUFFICES ASSUME WalkInv, report.study = "mean_reversion", report.stressed.promote, report.plain.loss # 0
             PROVE  report.promote
  BY DEF Walk!StressOnlyRefuses
<1>1. report = RolloverReport(tape)
  <2>1. Walk!NoReport.study = "none" /\ SizingReport(tape).study = "sizing"
    BY DEF Walk!NoReport, SizingReport
  <2> QED
    BY <2>1 DEF WalkInv
<1>2. tape \in Seq(StudyTrades)
  BY DEF WalkInv
<1>3. /\ report.stressed = Walk!Summarize(Walk!AtRollover(tape)) /\ report.plain = Walk!Summarize(tape)
      /\ report.promote <=> Walk!Summarize(tape).promote /\ Walk!Summarize(Walk!AtRollover(tape)).promote
  BY <1>1 DEF RolloverReport
<1>4. Walk!Summarize(tape).promote
  BY <1>2, <1>3, DearerRefuses
<1> QED
  BY <1>3, <1>4

-----------------------------------------------------------------------------
\* The replays agree with themselves, whatever the bars ahead, the ratios and the
\* endings are: the two walks of a trade never contradict each other; the backtest's
\* ledger and trades are one book, of candidates outside each other's windows, laxer
\* than live with a range only; a sizing study is sized out of sample and stressing
\* it only refuses; and the replayed account adds up on every day.
THEOREM Replays == MCSpec => []ReplaysAgree
<1> DEFINE Kept == SimulatorKept /\ BacktestKept /\ WalkKept /\ BookKept
<1>1. MCInit => Kept
  <2> SUFFICES ASSUME MCInit PROVE Kept
    OBVIOUS
  <2>1. SimulatorKept
    BY SimulatorStarts
  <2>2. BacktestKept
    BY BacktestStarts DEF MCInit, BacktestKept
  <2>3. WalkKept
    BY WalkStarts DEF MCInit, WalkKept
  <2>4. BookKept
    BY BookStarts DEF MCInit, BookKept
  <2> QED
    BY <2>1, <2>2, <2>3, <2>4
<1>2. Kept /\ [MCNext]_mc_vars => Kept'
  <2> SUFFICES ASSUME Kept, [MCNext]_mc_vars PROVE Kept'
    OBVIOUS
  <2>1. SimulatorKept'
    BY SimulatorSteps
  <2>2. BacktestKept'
    BY BacktestSteps
  <2>3. WalkKept'
    BY WalkSteps
  <2>4. BookKept'
    BY BookSteps
  <2> QED
    BY <2>1, <2>2, <2>3, <2>4
<1>3. Kept => ReplaysAgree
  <2> SUFFICES ASSUME Kept PROVE ReplaysAgree
    OBVIOUS
  <2>1. part = "simulator" => Simulator!SimulationsAgree
    BY SimulatorAgrees
  <2>2. part = "backtest" => Backtest!ReplayBooksAgree
    BY ReplayBooks DEF BacktestKept
  <2>3. part = "walk" => Walk!WalkIsOutOfSample /\ Walk!StressOnlyRefuses
    BY OutOfSample, StressRefuses DEF WalkKept
  <2>4. part = "book" => Book!ReplayedAccountAddsUp
    BY AccountAddsUp DEF BookKept
  <2> QED
    BY <2>1, <2>2, <2>3, <2>4 DEF ReplaysAgree
<1> QED
  BY <1>1, <1>2, <1>3, PTL DEF MCSpec
=============================================================================
