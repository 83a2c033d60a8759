---------------------------- MODULE Parts_proofs ----------------------------
(***************************************************************************)
(* What the components of Parts keep, for every value of their constants:  *)
(* each has an inductive invariant of its own, and at the end each step of *)
(* the composition is shown to be a step of the component that runs or to  *)
(* leave it alone.                                                         *)
(***************************************************************************)
EXTENDS Parts, ConfigStore_proofs, FiniteSetTheorems, Sequences
-----------------------------------------------------------------------------
(***************************************************************************)
(* The hysteresis (HysteresisFeed): a slow-down has a whole window of      *)
(* readings below it.                                                      *)
(***************************************************************************)

\* What an update of a Hysteresis can be, with the conditions of each.
LEMMA HystCases ==
    ASSUME NEW h \in Feed!HystType(Temps), NEW t \in Temps
    PROVE  LET g == Feed!HystUpdate(h, t) IN
           \/ h.held = 0 /\ g = [h EXCEPT !.held = t]
           \/ h.held # 0 /\ t >= h.held /\ g = [h EXCEPT !.held = t, !.streak = 0]
           \/ /\ h.held # 0 /\ t + DOWN_MARGIN_C <= h.held
              /\ h.streak + 1 >= DOWN_CONFIRMATIONS
              /\ g = [held |-> Feed!StreakMaxWith(h, t), streak |-> 0,
                      streakMax |-> Feed!StreakMaxWith(h, t)]
           \/ /\ h.held # 0 /\ t + DOWN_MARGIN_C <= h.held
              /\ h.streak + 1 < DOWN_CONFIRMATIONS
              /\ g = [h EXCEPT !.streak = @ + 1,
                               !.streakMax = Feed!StreakMaxWith(h, t)]
           \/ /\ h.held # 0 /\ t < h.held /\ t + DOWN_MARGIN_C > h.held
              /\ g = [h EXCEPT !.streak = 0]
  <1> DEFINE d == DOWN_CONFIRMATIONS
             m == DOWN_MARGIN_C
  <1>0. /\ h.held \in Nat /\ h.streak \in Nat /\ t \in Nat \ {0}
        /\ d \in Nat \ {0} /\ m \in Nat \ {0}
    <2>1. d \in Nat \ {0} /\ m \in Nat \ {0} /\ Temps \subseteq Nat \ {0}
      BY FeedAssumption
    <2>2. h.held \in Temps \cup {0} /\ h.streak \in 0 .. (d - 1)
      BY DEF Feed!HystType, Feed!NoReading
    <2>3. \A a \in Temps : a \in Nat /\ a # 0
      BY <2>1
    <2>4. h.held \in Nat /\ t \in Nat \ {0}
      BY <2>2, <2>3
    <2>5. h.streak \in Nat
      BY <2>1, <2>2
    <2>6. QED
      BY <2>1, <2>4, <2>5
  <1>1. CASE h.held = 0
    <2>1. ~Feed!Lower(h, t)
      BY <1>0, <1>1 DEF Feed!Lower
    <2>2. QED
      BY <1>1, <2>1 DEF Feed!HystUpdate, Feed!NoReading
  <1>2. CASE h.held # 0 /\ t >= h.held
    <2>1. ~Feed!Lower(h, t)
      BY <1>0, <1>2 DEF Feed!Lower
    <2>2. QED
      BY <1>2, <2>1 DEF Feed!HystUpdate, Feed!NoReading
  <1>3. CASE h.held # 0 /\ t + m <= h.held
    <2>1. Feed!Lower(h, t) /\ ~(t >= h.held)
      BY <1>0, <1>3 DEF Feed!Lower
    <2>2. CASE h.streak + 1 >= d
      <3>1. ~(h.streak + 1 < d)
        BY <1>0, <2>2
      <3>2. QED
        BY <1>3, <2>1, <2>2, <3>1 DEF Feed!HystUpdate, Feed!NoReading
    <2>3. CASE h.streak + 1 < d
      <3>1. ~(h.streak + 1 >= d)
        BY <1>0, <2>3
      <3>2. QED
        BY <1>3, <2>1, <2>3, <3>1 DEF Feed!HystUpdate, Feed!NoReading
    <2>4. QED
      BY <1>0, <2>2, <2>3
  <1>4. CASE h.held # 0 /\ t < h.held /\ t + m > h.held
    <2>1. ~Feed!Lower(h, t) /\ ~(t >= h.held)
      BY <1>0, <1>4 DEF Feed!Lower
    <2>2. QED
      BY <1>4, <2>1 DEF Feed!HystUpdate, Feed!NoReading
  <1>5. QED
    BY <1>0, <1>1, <1>2, <1>3, <1>4

\* The reading j before the latest one of a window.
Ago(s, j) == s[Len(s) - j]

\* A reading comes last in the window, and those before it stay in their order.
LEMMA Remembers ==
    ASSUME NEW s \in Seq(Temps), Len(s) <= DOWN_CONFIRMATIONS, NEW t \in Temps,
           NEW r, r = Feed!Remember(s, t)
    PROVE  /\ r \in Seq(Temps) /\ Len(r) <= DOWN_CONFIRMATIONS
           /\ Len(r) = IF Len(s) < DOWN_CONFIRMATIONS THEN Len(s) + 1
                       ELSE DOWN_CONFIRMATIONS
           /\ Ago(r, 0) = t
           /\ \A j \in Nat : j + 1 < Len(r) => Ago(r, j + 1) = Ago(s, j)
  <1> USE FeedAssumption
  <1>0. Len(s) \in Nat
    OBVIOUS
  <1>1. CASE Len(s) < DOWN_CONFIRMATIONS
    <2>1. r = Append(s, t)
      BY <1>1 DEF Feed!Remember
    <2>2. QED
      BY <1>0, <1>1, <2>1 DEF Ago
  <1>2. CASE ~(Len(s) < DOWN_CONFIRMATIONS)
    <2>1. r = Append(Tail(s), t) /\ Len(s) = DOWN_CONFIRMATIONS
      BY <1>0, <1>2 DEF Feed!Remember
    <2>2. Tail(s) \in Seq(Temps) /\ Len(Tail(s)) = Len(s) - 1
      BY <2>1
    <2>3. \A i \in 1 .. Len(s) - 1 : Tail(s)[i] = s[i + 1]
      BY <2>1
    <2>4. QED
      BY <1>0, <2>1, <2>2, <2>3 DEF Ago
  <1>3. QED
    BY <1>1, <1>2

\* The streak is the run of lower readings that ends the window; it began at a
\* reading that is not lower, or with the window; streakMax is its hottest.
Streak ==
    /\ hyst.held = 0 => hyst.streak = 0
    /\ hyst.streak <= Len(since)
    /\ \A j \in Nat : j < hyst.streak =>
         Feed!Lower(hyst, Ago(since, j)) /\ Ago(since, j) <= hyst.streakMax
    /\ hyst.streak > 0 =>
         \E j \in Nat : j < hyst.streak /\ Ago(since, j) = hyst.streakMax
    /\ hyst.streak < Len(since) => ~Feed!Lower(hyst, Ago(since, hyst.streak))

FeedInv ==
    /\ hyst \in Feed!HystType(Temps)
    /\ since \in Seq(Temps) /\ Len(since) <= DOWN_CONFIRMATIONS
    /\ last \in Temps \cup {0} /\ last <= hyst.held
    /\ Streak

\* What Feed does to the window: it is kept, with the reading, while the value
\* that drives the curve is kept.
LEMMA FeedStep ==
    ASSUME FeedInv, NEW t \in Temps, Feed!Feed(t)
    PROVE  FeedInv' /\ Feed!SlowsDownConfirmed
  <1> DEFINE d == DOWN_CONFIRMATIONS
             m == DOWN_MARGIN_C
             r == Feed!Remember(since, t)
  <1>0. /\ hyst.held \in Temps \cup {0} /\ hyst.streak \in 0 .. (d - 1)
        /\ hyst.streakMax \in Temps \cup {0} /\ t \in Temps
        /\ d \in Nat \ {0} /\ m \in Nat \ {0} /\ Temps \subseteq Nat \ {0}
        /\ hyst = [held |-> hyst.held, streak |-> hyst.streak,
                   streakMax |-> hyst.streakMax]
        /\ since \in Seq(Temps) /\ Len(since) \in Nat /\ Len(since) <= d
    BY FeedAssumption DEF FeedInv, Feed!HystType, Feed!NoReading
  <1>a. \A a \in Temps : a \in Nat /\ a # 0
    BY <1>0
  <1>1. /\ hyst' = Feed!HystUpdate(hyst, t) /\ last' = t
        /\ since' = IF hyst'.held = hyst.held THEN r ELSE <<>>
    BY DEF Feed!Feed
  <1>2. /\ r \in Seq(Temps) /\ Len(r) \in Nat /\ Len(r) <= d
        /\ Len(r) = IF Len(since) < d THEN Len(since) + 1 ELSE d
        /\ Ago(r, 0) = t
        /\ \A j \in Nat : j + 1 < Len(r) => Ago(r, j + 1) = Ago(since, j)
    <2>1. \A q : q = r =>
               /\ q \in Seq(Temps) /\ Len(q) <= d
               /\ Len(q) = IF Len(since) < d THEN Len(since) + 1 ELSE d
               /\ Ago(q, 0) = t
               /\ \A j \in Nat : j + 1 < Len(q) => Ago(q, j + 1) = Ago(since, j)
      BY <1>0, Remembers
    <2>2. /\ r \in Seq(Temps) /\ Len(r) <= d
          /\ Len(r) = IF Len(since) < d THEN Len(since) + 1 ELSE d
          /\ Ago(r, 0) = t
          /\ \A j \in Nat : j + 1 < Len(r) => Ago(r, j + 1) = Ago(since, j)
      BY <2>1, Zenon
    <2>3. Len(r) \in Nat
      BY <2>2
    <2>4. QED
      BY <2>2, <2>3
  <1>3. since' \in Seq(Temps) /\ Len(since') <= d
    BY <1>0, <1>1, <1>2
  <1>4. CASE hyst.held = 0 /\ hyst' = [hyst EXCEPT !.held = t]
    <2>1. hyst' = [held |-> t, streak |-> 0, streakMax |-> hyst.streakMax]
      BY <1>0, <1>4 DEF FeedInv, Streak
    <2>2. hyst'.held # hyst.held /\ since' = <<>>
      BY <1>a, <1>1, <1>4, <2>1
    <2>3. QED
      BY <1>0, <1>a, <1>1, <1>3, <1>4, <2>1, <2>2
         DEF FeedInv, Streak, Feed!SlowsDownConfirmed, Feed!HystType, Feed!NoReading
  <1>5. CASE /\ hyst.held # 0 /\ t >= hyst.held
             /\ hyst' = [hyst EXCEPT !.held = t, !.streak = 0]
    <2>1. hyst' = [held |-> t, streak |-> 0, streakMax |-> hyst.streakMax]
      BY <1>0, <1>5
    <2>2. Streak'
      <3>1. CASE t = hyst.held
        <4>1. since' = r /\ hyst'.held = t
          BY <1>1, <2>1, <3>1
        <4>2. ~Feed!Lower(hyst', Ago(since', 0))
          BY <1>0, <1>a, <1>2, <4>1 DEF Feed!Lower
        <4>3. QED
          BY <1>0, <1>a, <1>2, <2>1, <4>1, <4>2 DEF Streak
      <3>2. CASE t # hyst.held
        BY <1>a, <1>1, <2>1, <3>2 DEF Streak
      <3>3. QED
        BY <3>1, <3>2
    <2>3. QED
      BY <1>0, <1>a, <1>1, <1>3, <1>5, <2>1, <2>2
         DEF FeedInv, Feed!SlowsDownConfirmed, Feed!HystType, Feed!NoReading
  <1>6. CASE /\ hyst.held # 0 /\ t < hyst.held /\ t + m > hyst.held
             /\ hyst' = [hyst EXCEPT !.streak = 0]
    <2>1. /\ hyst' = [held |-> hyst.held, streak |-> 0, streakMax |-> hyst.streakMax]
          /\ since' = r
      BY <1>0, <1>1, <1>6
    <2>2. ~Feed!Lower(hyst', Ago(since', 0))
      BY <1>0, <1>a, <1>2, <1>6, <2>1 DEF Feed!Lower
    <2>3. Streak'
      BY <1>0, <1>a, <1>2, <1>6, <2>1, <2>2 DEF Streak
    <2>4. hyst.held \in Nat /\ ~(hyst'.held < hyst.held)
      BY <1>0, <1>a, <2>1
    <2>5. hyst' \in Feed!HystType(Temps)
      BY <1>0, <2>1 DEF Feed!HystType, Feed!NoReading
    <2>6. last' \in Temps \cup {0} /\ last' <= hyst'.held
      BY <1>0, <1>a, <1>1, <1>6, <2>1, <2>4
    <2>7. QED
      BY <1>3, <2>3, <2>4, <2>5, <2>6
         DEF FeedInv, Feed!SlowsDownConfirmed
  <1>7. ASSUME hyst.held # 0, t + m <= hyst.held
        PROVE  \E top \in Temps :
               /\ top = Feed!StreakMaxWith(hyst, t)
               /\ top + m <= hyst.held /\ t <= top
               /\ \A j \in Nat : j < hyst.streak => Ago(since, j) <= top
               /\ (top = t \/ (hyst.streak > 0 /\ top = hyst.streakMax))
    <2>1. CASE hyst.streak = 0
      <3>1. Feed!StreakMaxWith(hyst, t) = t
        BY <2>1 DEF Feed!StreakMaxWith
      <3>2. t + m <= hyst.held /\ t <= t
        BY <1>0, <1>a, <1>7
      <3>3. \A j \in Nat : j < hyst.streak => Ago(since, j) <= t
        BY <2>1
      <3>4. QED
        BY <1>0, <3>1, <3>2, <3>3
    <2>2. CASE hyst.streak > 0
      <3>1. PICK j \in Nat : j < hyst.streak /\ Ago(since, j) = hyst.streakMax
        BY <2>2 DEF FeedInv, Streak
      <3>2. hyst.streakMax + m <= hyst.held
        BY <3>1 DEF FeedInv, Streak, Feed!Lower
      <3>3. hyst.streakMax \in Temps
        <4>1. Ago(since, j) \in Temps
          BY <1>0, <3>1 DEF FeedInv, Streak, Ago
        <4>2. QED
          BY <3>1, <4>1
      <3>4. \A i \in Nat : i < hyst.streak => Ago(since, i) <= hyst.streakMax
                                             /\ Ago(since, i) \in Nat
        <4>1. \A i \in Nat : i < hyst.streak => Ago(since, i) \in Temps
          BY <1>0 DEF FeedInv, Streak, Ago
        <4>2. QED
          BY <1>a, <4>1 DEF FeedInv, Streak
      <3>5. CASE t >= hyst.streakMax
        <4>1. Feed!StreakMaxWith(hyst, t) = t
          BY <1>0, <2>2, <3>5 DEF Feed!StreakMaxWith, Feed!HotterOf
        <4>2. \A i \in Nat : i < hyst.streak => Ago(since, i) <= t
          BY <1>0, <1>a, <3>3, <3>4, <3>5
        <4>3. t + m <= hyst.held /\ t <= t
          BY <1>0, <1>a, <1>7
        <4>4. QED
          BY <1>0, <4>1, <4>2, <4>3
      <3>6. CASE ~(t >= hyst.streakMax)
        <4>1. Feed!StreakMaxWith(hyst, t) = hyst.streakMax
          BY <1>0, <2>2, <3>6 DEF Feed!StreakMaxWith, Feed!HotterOf
        <4>2. QED
          BY <1>0, <1>a, <2>2, <3>2, <3>3, <3>4, <3>6, <4>1
      <3>7. QED
        BY <3>5, <3>6
    <2>3. QED
      BY <1>0, <2>1, <2>2
  <1>8. CASE /\ hyst.held # 0 /\ t + m <= hyst.held /\ hyst.streak + 1 >= d
             /\ hyst' = [held |-> Feed!StreakMaxWith(hyst, t), streak |-> 0,
                         streakMax |-> Feed!StreakMaxWith(hyst, t)]
    <2>1. PICK top \in Temps :
            /\ top = Feed!StreakMaxWith(hyst, t)
            /\ top + m <= hyst.held /\ t <= top
            /\ \A j \in Nat : j < hyst.streak => Ago(since, j) <= top
            /\ (top = t \/ (hyst.streak > 0 /\ top = hyst.streakMax))
      BY <1>7, <1>8
    <2>2. /\ hyst' = [held |-> top, streak |-> 0, streakMax |-> top]
          /\ top \in Nat /\ top # 0 /\ hyst.held \in Nat /\ top < hyst.held
          /\ hyst.streak = d - 1
      <3>1. hyst' = [held |-> top, streak |-> 0, streakMax |-> top]
        BY <1>8, <2>1
      <3>2. top \in Nat /\ top # 0 /\ hyst.held \in Nat
        BY <1>0, <1>a, <2>1
      <3>3. top < hyst.held
        BY <1>0, <2>1, <3>2
      <3>4. hyst.streak = d - 1
        <4>1. hyst.streak \in Nat /\ hyst.streak <= d - 1 /\ d \in Nat
          BY <1>0
        <4>2. hyst.streak + 1 >= d
          BY <1>8
        <4>3. QED
          BY <4>1, <4>2
      <3>5. QED
        BY <3>1, <3>2, <3>3, <3>4
    <2>3. since' = <<>>
      BY <1>1, <2>2
    <2>4. Streak'
      BY <1>0, <2>2, <2>3 DEF Streak
    <2>5. FeedInv'
      BY <1>0, <1>1, <1>3, <2>1, <2>2, <2>4 DEF FeedInv, Feed!HystType,
         Feed!NoReading
    <2>6. Len(r) = d
      BY <1>0, <1>2, <2>2 DEF FeedInv, Streak
    <2>7. ASSUME NEW i \in 1 .. d
          PROVE  r[i] + m <= hyst.held /\ r[i] <= top
      <3>1. d - i \in Nat /\ r[i] = Ago(r, d - i)
        BY <1>0, <2>6 DEF Ago
      <3>2. CASE i = d
        BY <1>0, <1>2, <1>8, <2>1, <3>1, <3>2
      <3>3. CASE i # d
        <4>1. PICK j \in Nat : j + 1 = d - i
          <5>1. d - i - 1 \in Nat /\ (d - i - 1) + 1 = d - i
            BY <1>0, <3>3
          <5>2. QED
            BY <5>1
        <4>2. j < hyst.streak /\ j + 1 < Len(r)
          BY <1>0, <2>2, <2>6, <4>1
        <4>3. r[i] = Ago(since, j)
          BY <1>2, <3>1, <4>1, <4>2
        <4>4. QED
          BY <2>1, <4>2, <4>3 DEF FeedInv, Streak, Feed!Lower
      <3>4. QED
        BY <3>2, <3>3
    <2>8. \E i \in 1 .. d : r[i] = top
      <3>1. CASE top = t
        <4>1. d - 0 = d /\ d \in 1 .. d
          BY <1>0
        <4>2. r[d] = t
          BY <1>2, <2>6, <4>1 DEF Ago
        <4>3. QED
          BY <3>1, <4>1, <4>2
      <3>2. CASE hyst.streak > 0 /\ top = hyst.streakMax
        <4>1. PICK j \in Nat : j < hyst.streak /\ Ago(since, j) = top
          BY <3>2 DEF FeedInv, Streak
        <4>2. j + 1 < Len(r) /\ d - (j + 1) \in 1 .. d
          BY <1>0, <2>2, <2>6, <4>1
        <4>3. Ago(r, j + 1) = top
          BY <1>2, <4>1, <4>2
        <4>4. QED
          BY <2>6, <4>2, <4>3 DEF Ago
      <3>3. QED
        BY <2>1, <3>1, <3>2
    <2>9. DOMAIN r = 1 .. d
      BY <1>2, <2>6
    <2>10. Feed!CooledBelow(r, hyst.held)
      BY <2>6, <2>7, <2>9 DEF Feed!CooledBelow, Feed!Readings
    <2>11. top \in Feed!Readings(r) /\ \A a \in Feed!Readings(r) : a <= top
      BY <2>7, <2>8, <2>9 DEF Feed!Readings
    <2>12. Feed!SlowsDownConfirmed
      BY <1>1, <2>2, <2>10, <2>11 DEF Feed!SlowsDownConfirmed
    <2>13. QED
      BY <2>5, <2>12
  <1>9. CASE /\ hyst.held # 0 /\ t + m <= hyst.held /\ hyst.streak + 1 < d
             /\ hyst' = [hyst EXCEPT !.streak = @ + 1,
                             !.streakMax = Feed!StreakMaxWith(hyst, t)]
    <2>1. PICK top \in Temps :
            /\ top = Feed!StreakMaxWith(hyst, t)
            /\ t <= top
            /\ \A j \in Nat : j < hyst.streak => Ago(since, j) <= top
            /\ (top = t \/ (hyst.streak > 0 /\ top = hyst.streakMax))
      BY <1>7, <1>9
    <2>2. /\ hyst' = [held |-> hyst.held, streak |-> hyst.streak + 1,
                      streakMax |-> top]
          /\ hyst.streak \in Nat /\ hyst.held \in Nat
          /\ since' = r
      <3>1. hyst' = [held |-> hyst.held, streak |-> hyst.streak + 1,
                     streakMax |-> top]
        BY <1>0, <1>9, <2>1
      <3>2. hyst.streak \in Nat /\ hyst.held \in Nat
        BY <1>0, <1>a
      <3>3. QED
        BY <1>1, <3>1, <3>2
    <2>3. /\ hyst'.held = hyst.held /\ hyst'.streak = hyst.streak + 1
          /\ hyst'.streakMax = top
      BY <2>2
    <2>4. hyst.streak <= Len(since) /\ hyst.streak + 1 <= Len(r)
      BY <1>0, <1>2, <1>9, <2>2 DEF FeedInv, Streak
    <2>5. ASSUME NEW j \in Nat, j < hyst.streak + 1
          PROVE  Feed!Lower(hyst', Ago(r, j)) /\ Ago(r, j) <= top
      <3>1. CASE j = 0
        BY <1>2, <1>9, <2>1, <2>3, <3>1 DEF Feed!Lower
      <3>2. CASE j # 0
        <4>1. j - 1 \in Nat /\ j - 1 < hyst.streak /\ (j - 1) + 1 = j
          BY <2>2, <2>5, <3>2
        <4>2. Ago(r, j) = Ago(since, j - 1)
          BY <1>2, <2>2, <2>4, <2>5, <4>1
        <4>3. QED
          BY <2>1, <2>3, <4>1, <4>2 DEF FeedInv, Streak, Feed!Lower
      <3>3. QED
        BY <3>1, <3>2
    <2>6. \E j \in Nat : j < hyst.streak + 1 /\ Ago(r, j) = top
      <3>1. CASE top = t
        BY <1>2, <2>2, <3>1
      <3>2. CASE hyst.streak > 0 /\ top = hyst.streakMax
        <4>1. PICK j \in Nat : j < hyst.streak /\ Ago(since, j) = top
          BY <3>2 DEF FeedInv, Streak
        <4>2. Ago(r, j + 1) = top /\ j + 1 \in Nat /\ j + 1 < hyst.streak + 1
          BY <1>2, <2>2, <2>4, <4>1
        <4>3. QED
          BY <4>2
      <3>3. QED
        BY <2>1, <3>1, <3>2
    <2>7. hyst.streak + 1 < Len(r) => ~Feed!Lower(hyst', Ago(r, hyst.streak + 1))
      <3> SUFFICES ASSUME hyst.streak + 1 < Len(r)
                   PROVE  ~Feed!Lower(hyst', Ago(r, hyst.streak + 1))
        OBVIOUS
      <3>1. Ago(r, hyst.streak + 1) = Ago(since, hyst.streak)
        BY <1>2, <2>2
      <3>2. hyst.streak < Len(since)
        BY <1>0, <1>2, <1>9, <2>2
      <3>3. QED
        BY <2>3, <3>1, <3>2 DEF FeedInv, Streak, Feed!Lower
    <2>8. Streak'
      BY <1>9, <2>2, <2>3, <2>4, <2>5, <2>6, <2>7 DEF Streak
    <2>9. hyst' \in Feed!HystType(Temps)
      BY <1>0, <1>9, <2>1, <2>2 DEF Feed!HystType, Feed!NoReading
    <2>10. last' \in Temps \cup {0} /\ last' <= hyst'.held
      BY <1>0, <1>a, <1>1, <1>9, <2>2, <2>3
    <2>11. ~(hyst'.held < hyst.held)
      BY <2>2, <2>3
    <2>12. QED
      BY <1>3, <2>8, <2>9, <2>10, <2>11 DEF FeedInv, Feed!SlowsDownConfirmed
  <1>10. hyst \in Feed!HystType(Temps)
    BY DEF FeedInv
  <1>11. QED
    BY <1>1, <1>4, <1>5, <1>6, <1>8, <1>9, <1>10, HystCases

LEMMA FeedNext ==
    FeedInv /\ [Feed!Next]_(Feed!vars) =>
        FeedInv' /\ (Feed!SlowsDownConfirmed \/ UNCHANGED Feed!vars)
  <1> SUFFICES ASSUME FeedInv, [Feed!Next]_(Feed!vars)
               PROVE  FeedInv' /\ (Feed!SlowsDownConfirmed \/ UNCHANGED Feed!vars)
    OBVIOUS
  <1>1. CASE Feed!Reset
    <2>1. hyst' = [held |-> 0, streak |-> 0, streakMax |-> 0] /\ since' = <<>> /\ last' = 0
      BY <1>1 DEF Feed!Reset, Feed!HystReset, Feed!NoReading
    <2>2. FeedInv'
      BY <2>1, FeedAssumption DEF FeedInv, Streak, Feed!HystType, Feed!NoReading
    <2>3. Feed!SlowsDownConfirmed
      BY <2>1 DEF Feed!SlowsDownConfirmed, Feed!NoReading
    <2>4. QED
      BY <2>2, <2>3
  <1>2. CASE UNCHANGED Feed!vars
    BY <1>2 DEF Feed!vars, FeedInv, Streak
  <1>3. QED
    BY <1>1, <1>2, FeedStep DEF Feed!Next

LEMMA FeedInit == Feed!Init => FeedInv
  BY FeedAssumption DEF Feed!Init, Feed!HystReset, Feed!NoReading, FeedInv,
     Streak, Feed!HystType

LEMMA FeedFollows == FeedInv => Feed!FollowsReadings
  <1> SUFFICES ASSUME FeedInv PROVE Feed!FollowsReadings
    OBVIOUS
  <1>1. hyst.held \in Nat /\ last \in Nat /\ last <= hyst.held
    <2>1. \A a \in Temps : a \in Nat
      BY FeedAssumption
    <2>2. QED
      BY <2>1 DEF FeedInv, Feed!HystType, Feed!NoReading
  <1>2. ASSUME Feed!CooledBelow(since, hyst.held) PROVE FALSE
    <2>1. Len(since) = DOWN_CONFIRMATIONS /\ since \in Seq(Temps)
      BY <1>2 DEF Feed!CooledBelow, FeedInv
    <2>2. hyst.streak \in Nat /\ hyst.streak < Len(since)
      BY <2>1, FeedAssumption DEF FeedInv, Feed!HystType
    <2>3. Ago(since, hyst.streak) \in Feed!Readings(since)
      BY <2>1, <2>2 DEF Feed!Readings, Ago
    <2>4. QED
      BY <1>2, <2>2, <2>3 DEF FeedInv, Streak, Feed!Lower, Feed!CooledBelow
  <1>3. QED
    BY <1>1, <1>2 DEF Feed!FollowsReadings
-----------------------------------------------------------------------------
(***************************************************************************)
(* The coalesced writes (ApplyQueue): the daemon has the value set last.   *)
(***************************************************************************)

\* A command for k is with worker w.
Owes(w, k) ==
    batch[w][k] # NoValue \/ (Queue!Waiting(w) /\ sent[w].key = k)

\* What is with a worker is the value asked for last.
CarriesAsked(w, k) ==
    /\ batch[w][k] # NoValue => batch[w][k] = asked[k]
    /\ Queue!Waiting(w) /\ sent[w].key = k => sent[w].value = asked[k]

\* At most one command for k is under way, of the value asked for last unless a
\* newer one waits; with none, that value is applied.
InOrder(k) ==
    /\ \A w \in Workers :
         ~(batch[w][k] # NoValue /\ Queue!Waiting(w) /\ sent[w].key = k)
    /\ \A w, x \in Workers : Owes(w, k) /\ Owes(x, k) => w = x
    /\ queue_pending[k] = NoValue =>
         /\ \A w \in Workers : CarriesAsked(w, k)
         /\ (\A w \in Workers : ~Owes(w, k)) => applied[k] = asked[k]

\* What waits is what was asked for; keys of which nothing is lost are in order.
Coalesced ==
    /\ \A k \in Keys : queue_pending[k] # NoValue => queue_pending[k] = asked[k]
    /\ \A c \in late : c.key \in doubtful
    /\ \A k \in Keys \ doubtful : InOrder(k)

QueueInv == Queue!TypeOK /\ Coalesced

LEMMA QueueTypeNext == Queue!TypeOK /\ [Queue!Next]_(Queue!vars) => Queue!TypeOK'
  <1> SUFFICES ASSUME Queue!TypeOK, [Queue!Next]_(Queue!vars) PROVE Queue!TypeOK'
    OBVIOUS
  <1> USE QueueAssumption DEF Queue!TypeOK
  <1>0. Queue!NoCommand \notin Queue!Commands
    <2>1. \A c \in Queue!Commands : DOMAIN c = {"key", "value"}
      BY DEF Queue!Commands
    <2>2. DOMAIN Queue!NoCommand = {"key"}
      BY DEF Queue!NoCommand
    <2>3. "value" \notin {"key"} /\ "value" \in {"key", "value"}
      OBVIOUS
    <2>4. QED
      BY <2>1, <2>2, <2>3
  <1>1. ASSUME NEW k \in Keys, NEW v \in Values, Queue!Set(k, v)
        PROVE  Queue!TypeOK'
    <2>1. queue_pending' \in [Keys -> Values \cup {NoValue}] /\ queue_pending'[k] = v
      BY <1>1 DEF Queue!Set
    <2>2. queue_pending' # Queue!Nothing
      BY <2>1 DEF Queue!Nothing
    <2>3. asked' \in [Keys -> Values] /\ doubtful' \subseteq Keys
          /\ changes' \in 0 .. Changes
      BY <1>1 DEF Queue!Set
    <2>4. QED
      BY <1>1, <2>1, <2>2, <2>3 DEF Queue!Set, Queue!Nothing
  <1>2. CASE Queue!Flush
    <2>1. queue_pending' = Queue!Nothing
          /\ Queue!Nothing \in [Keys -> Values \cup {NoValue}]
      BY <1>2 DEF Queue!Flush, Queue!Nothing
    <2>2. batch' \in [Workers -> [Keys -> Values \cup {NoValue}]]
      BY <1>2 DEF Queue!Flush
    <2>3. QED
      BY <1>2, <2>1, <2>2 DEF Queue!Flush, Queue!Nothing
  <1>3. CASE Queue!Late
    BY <1>3 DEF Queue!Late, Queue!Carry, Queue!Commands, Queue!Nothing
  <1>4. ASSUME NEW w \in Workers, Queue!Worker(w) PROVE Queue!TypeOK'
    <2>1. CASE Queue!Send(w)
      <3>1. PICK k \in Keys :
              /\ batch[w][k] # NoValue
              /\ sent' = [sent EXCEPT ![w] = [key |-> k, value |-> batch[w][k]]]
              /\ batch' = [batch EXCEPT ![w][k] = NoValue]
        BY <2>1 DEF Queue!Send
      <3>2. [key |-> k, value |-> batch[w][k]] \in Queue!Commands
        BY <3>1 DEF Queue!Commands
      <3>3. batch' \in [Workers -> [Keys -> Values \cup {NoValue}]]
        BY <3>1
      <3>4. sent' \in [Workers -> Queue!Commands \cup {Queue!NoCommand}]
        BY <3>1, <3>2
      <3>5. QED
        BY <2>1, <3>3, <3>4 DEF Queue!Send, Queue!Nothing
    <2>2. Queue!Waiting(w) => sent[w] \in Queue!Commands
      BY DEF Queue!Waiting
    <2>3. CASE Queue!Ok(w)
      BY <2>2, <2>3 DEF Queue!Ok, Queue!Carry, Queue!Commands, Queue!Nothing
    <2>4. CASE Queue!Refused(w)
      BY <2>2, <2>4 DEF Queue!Refused, Queue!Commands, Queue!Nothing
    <2>5. CASE Queue!TimedOut(w)
      BY <2>2, <2>5 DEF Queue!TimedOut, Queue!Commands, Queue!Nothing
    <2>6. QED
      BY <1>4, <2>1, <2>3, <2>4, <2>5 DEF Queue!Worker
  <1>5. CASE UNCHANGED Queue!vars
    BY <1>5 DEF Queue!vars, Queue!Nothing
  <1>6. QED
    BY <1>1, <1>2, <1>3, <1>4, <1>5 DEF Queue!Next

\* With nothing of k under way, nothing about it is with a worker or given up.
LEMMA UnderWayIs ==
    ASSUME NEW k
    PROVE  Queue!UnderWay(k) <=> \/ \E w \in Workers : Owes(w, k)
                                 \/ \E c \in late : c.key = k
  BY DEF Queue!UnderWay, Owes

LEMMA QueueUser ==
    ASSUME QueueInv, NEW k \in Keys, NEW v \in Values, Queue!Set(k, v)
    PROVE  Coalesced'
  <1> USE QueueAssumption DEF QueueInv, Queue!TypeOK, Queue!Set
  <1>1. \A j \in Keys : queue_pending'[j] # NoValue => queue_pending'[j] = asked'[j]
    BY DEF Coalesced
  <1>2. \A c \in late' : c.key \in doubtful'
    BY UnderWayIs DEF Coalesced
  <1>3. ASSUME NEW j \in Keys \ doubtful' PROVE InOrder(j)'
    <2>1. CASE j = k
      <3>1. queue_pending'[j] # NoValue
        BY <2>1
      <3>2. j \notin doubtful \/ \A w \in Workers : ~Owes(w, j)
        BY <1>3, <2>1, UnderWayIs
      <3>3. QED
        BY <3>1, <3>2 DEF Coalesced, InOrder, Owes, Queue!Waiting
    <2>2. CASE j # k
      <3>1. j \notin doubtful /\ queue_pending'[j] = queue_pending[j]
            /\ asked'[j] = asked[j]
        BY <1>3, <2>2
      <3>2. QED
        BY <3>1 DEF Coalesced, InOrder, Owes, CarriesAsked, Queue!Waiting
    <2>3. QED
      BY <2>1, <2>2
  <1>4. QED
    BY <1>1, <1>2, <1>3 DEF Coalesced

LEMMA QueueFlush ==
    ASSUME QueueInv, Queue!Flush
    PROVE  Coalesced'
  <1> USE QueueAssumption DEF QueueInv, Queue!TypeOK
  <1>1. PICK w \in Workers : Queue!Done(w) /\ batch' = [batch EXCEPT ![w] = queue_pending]
    BY DEF Queue!Flush
  <1>2. /\ queue_pending' = Queue!Nothing
        /\ doubtful' = doubtful \cup {k \in Keys : queue_pending[k] # NoValue
                                                     /\ Queue!UnderWay(k)}
        /\ UNCHANGED <<sent, late, applied, asked>>
    BY DEF Queue!Flush
  <1>3. \A k \in Keys : batch[w][k] = NoValue /\ ~Queue!Waiting(w)
    BY <1>1 DEF Queue!Done, Queue!Nothing
  <1>4. ASSUME NEW k \in Keys \ doubtful' PROVE InOrder(k)'
    <2>1. k \notin doubtful /\ InOrder(k)
      BY <1>2 DEF Coalesced
    <2>2. \A x \in Workers : x # w => batch'[x][k] = batch[x][k]
      BY <1>1
    <2>3. batch'[w][k] = queue_pending[k]
      BY <1>1
    <2>4. CASE queue_pending[k] = NoValue
      <3>1. \A x \in Workers : batch'[x][k] = batch[x][k]
        BY <1>3, <2>2, <2>3, <2>4
      <3>2. QED
        BY <1>2, <2>1, <2>4, <3>1 DEF InOrder, Owes, CarriesAsked, Queue!Waiting
    <2>5. CASE queue_pending[k] # NoValue
      <3>1. \A x \in Workers : ~Owes(x, k)
        BY <1>2, <2>5, UnderWayIs
      <3>2. \A x \in Workers : x # w => ~Owes(x, k)'
        BY <1>2, <2>2, <3>1 DEF Owes, Queue!Waiting
      <3>3. queue_pending[k] = asked[k]
        BY <2>5 DEF Coalesced
      <3>4. Owes(w, k)' /\ ~Queue!Waiting(w)' /\ CarriesAsked(w, k)'
        BY <1>2, <1>3, <2>3, <2>5, <3>3 DEF Owes, CarriesAsked, Queue!Waiting
      <3>5. \A x \in Workers : x # w => CarriesAsked(x, k)'
        BY <3>2 DEF Owes, CarriesAsked
      <3>6. QED
        BY <1>3, <3>2, <3>4, <3>5 DEF InOrder, Owes
    <2>6. QED
      BY <2>4, <2>5
  <1>5. QED
    BY <1>2, <1>4 DEF Coalesced, Queue!Nothing

LEMMA QueueWorker ==
    ASSUME QueueInv, NEW w \in Workers, Queue!Worker(w)
    PROVE  Coalesced'
  <1> USE QueueAssumption DEF QueueInv, Queue!TypeOK
  <1>0. Queue!Waiting(w) => sent[w] \in Queue!Commands /\ sent[w].key \in Keys
    BY DEF Queue!Waiting, Queue!Commands
  <1>1. CASE Queue!Send(w)
    <2>1. PICK k \in Keys :
            /\ batch[w][k] # NoValue
            /\ sent' = [sent EXCEPT ![w] = [key |-> k, value |-> batch[w][k]]]
            /\ batch' = [batch EXCEPT ![w][k] = NoValue]
      BY <1>1 DEF Queue!Send
    <2>2. [key |-> k, value |-> batch[w][k]] # Queue!NoCommand
      BY DEF Queue!NoCommand
    <2>3. ~Queue!Waiting(w) /\ UNCHANGED <<queue_pending, late, applied, asked, doubtful>>
      BY <1>1 DEF Queue!Send
    <2>4. /\ \A j \in Keys : ~(batch'[w][j] # NoValue /\ Queue!Waiting(w)' /\ sent'[w].key = j)
          /\ \A j \in Keys : Owes(w, j)' <=> Owes(w, j)
          /\ \A j \in Keys : CarriesAsked(w, j) => CarriesAsked(w, j)'
      BY <2>1, <2>2, <2>3 DEF Owes, CarriesAsked, Queue!Waiting
    <2>5. \A x \in Workers : x # w => batch'[x] = batch[x] /\ sent'[x] = sent[x]
      BY <2>1
    <2>6. \A x \in Workers, j \in Keys :
             x # w => /\ Owes(x, j)' <=> Owes(x, j)
                      /\ CarriesAsked(x, j)' <=> CarriesAsked(x, j)
                      /\ Queue!Waiting(x)' <=> Queue!Waiting(x)
      BY <2>3, <2>5 DEF Owes, CarriesAsked, Queue!Waiting
    <2>7. \A j \in Keys : InOrder(j) => InOrder(j)'
      BY <2>3, <2>4, <2>5, <2>6 DEF InOrder
    <2>8. QED
      BY <2>3, <2>7 DEF Coalesced
  <1>2. /\ sent' = [sent EXCEPT ![w] = Queue!NoCommand]
        /\ Queue!Waiting(w) /\ UNCHANGED <<queue_pending, batch, asked>>
        => \A j \in Keys :
             /\ InOrder(j)
             /\ \/ applied'[j] = applied[j] /\ sent[w].key # j
                \/ applied'[j] = sent[w].value /\ sent[w].key = j
             => InOrder(j)'
    <2> SUFFICES ASSUME sent' = [sent EXCEPT ![w] = Queue!NoCommand],
                        Queue!Waiting(w), UNCHANGED <<queue_pending, batch, asked>>,
                        NEW j \in Keys, InOrder(j),
                        \/ applied'[j] = applied[j] /\ sent[w].key # j
                        \/ applied'[j] = sent[w].value /\ sent[w].key = j
                 PROVE  InOrder(j)'
      OBVIOUS
    <2>0. UNCHANGED <<queue_pending, batch, asked>> /\ Queue!Waiting(w)
          /\ InOrder(j) /\ sent' = [sent EXCEPT ![w] = Queue!NoCommand]
          /\ (\/ applied'[j] = applied[j] /\ sent[w].key # j
              \/ applied'[j] = sent[w].value /\ sent[w].key = j)
      OBVIOUS
    <2>1. \A x \in Workers : /\ Queue!Waiting(x)' => Queue!Waiting(x) /\ sent'[x] = sent[x]
                             /\ x # w => sent'[x] = sent[x]
      BY <2>0 DEF Queue!Waiting
    <2>2. \A x \in Workers : Owes(x, j)' => Owes(x, j)
      BY <2>0, <2>1 DEF Owes
    <2>3. \A x \in Workers : CarriesAsked(x, j) => CarriesAsked(x, j)'
      BY <2>0, <2>1 DEF CarriesAsked
    <2>4. CASE sent[w].key # j
      <3>1. \A x \in Workers : Owes(x, j) => Owes(x, j)'
        BY <2>0, <2>1, <2>4 DEF Owes, Queue!Waiting
      <3>2. QED
        BY <2>0, <2>1, <2>2, <2>3, <2>4, <3>1 DEF InOrder
    <2>5. CASE sent[w].key = j
      <3>1. queue_pending[j] = NoValue => applied'[j] = asked[j]
        BY <2>0, <2>5 DEF InOrder, CarriesAsked
      <3>2. QED
        BY <2>0, <2>1, <2>2, <2>3, <3>1 DEF InOrder
    <2>6. QED
      BY <2>4, <2>5
  <1>3. CASE Queue!Ok(w)
    <2>1. \A j \in Keys : \/ applied'[j] = applied[j] /\ sent[w].key # j
                          \/ applied'[j] = sent[w].value /\ sent[w].key = j
      BY <1>0, <1>3 DEF Queue!Ok, Queue!Carry
    <2>2. \A j \in Keys \ doubtful : InOrder(j)'
      BY <1>2, <1>3, <2>1 DEF Queue!Ok, Coalesced, InOrder, Owes, CarriesAsked,
                              Queue!Waiting
    <2>3. QED
      BY <1>3, <2>2 DEF Queue!Ok, Coalesced
  <1>4. CASE Queue!Refused(w) \/ Queue!TimedOut(w)
    <2>1. /\ doubtful' = doubtful \cup {sent[w].key} /\ Queue!Waiting(w)
          /\ sent' = [sent EXCEPT ![w] = Queue!NoCommand]
          /\ late' \subseteq late \cup {sent[w]}
          /\ UNCHANGED <<queue_pending, batch, applied, asked>>
      BY <1>4 DEF Queue!Refused, Queue!TimedOut
    <2>2. \A j \in Keys \ doubtful' : j \notin doubtful /\ InOrder(j) /\ applied'[j] = applied[j] /\ sent[w].key # j
      BY <2>1 DEF Coalesced
    <2>3. \A j \in Keys \ doubtful' : InOrder(j)'
      BY <1>2, <2>1, <2>2 DEF InOrder, Owes, CarriesAsked, Queue!Waiting
    <2>4. QED
      BY <2>1, <2>3 DEF Coalesced
  <1>5. QED
    BY <1>1, <1>3, <1>4 DEF Queue!Worker

LEMMA QueueLate ==
    ASSUME QueueInv, Queue!Late
    PROVE  Coalesced'
  <1> USE DEF QueueInv, Queue!TypeOK
  <1>1. PICK c \in late : late' = late \ {c} /\ (Queue!Carry(c) \/ UNCHANGED applied)
    BY DEF Queue!Late
  <1>2. UNCHANGED <<queue_pending, batch, sent, asked, doubtful>>
    BY DEF Queue!Late
  <1>3. \A k \in Keys \ doubtful : applied'[k] = applied[k]
    BY <1>1 DEF Queue!Carry, Coalesced
  <1>4. \A k \in Keys \ doubtful : InOrder(k) => InOrder(k)'
    BY <1>2, <1>3 DEF InOrder, Owes, CarriesAsked, Queue!Waiting
  <1>5. QED
    BY <1>1, <1>2, <1>4 DEF Coalesced

LEMMA QueueNext == QueueInv /\ [Queue!Next]_(Queue!vars) => QueueInv'
  <1> SUFFICES ASSUME QueueInv, [Queue!Next]_(Queue!vars) PROVE Coalesced'
    BY QueueTypeNext DEF QueueInv
  <1>1. CASE UNCHANGED Queue!vars
    BY <1>1 DEF QueueInv, Queue!vars, Coalesced, InOrder, Owes, CarriesAsked,
                Queue!Waiting
  <1>2. QED
    BY <1>1, QueueUser, QueueFlush, QueueWorker, QueueLate DEF Queue!Next

LEMMA QueueInit == Queue!Init => QueueInv
  <1> SUFFICES ASSUME Queue!Init PROVE QueueInv
    OBVIOUS
  <1> USE QueueAssumption DEF Queue!Init, Queue!Nothing
  <1>1. Queue!TypeOK
    <2>1. batch \in [Workers -> [Keys -> Values \cup {NoValue}]]
      OBVIOUS
    <2>2. /\ queue_pending \in [Keys -> Values \cup {NoValue}]
          /\ armed \in BOOLEAN /\ armed = (queue_pending # Queue!Nothing)
      OBVIOUS
    <2>3. sent \in [Workers -> Queue!Commands \cup {Queue!NoCommand}]
      OBVIOUS
    <2>4. QED
      BY <2>1, <2>2, <2>3 DEF Queue!TypeOK
  <1>2. \A w \in Workers, k \in Keys : ~Owes(w, k) /\ CarriesAsked(w, k) /\ ~Queue!Waiting(w)
    BY DEF Owes, CarriesAsked, Queue!Waiting
  <1>3. Coalesced
    BY <1>2 DEF Coalesced, InOrder
  <1>4. QED
    BY <1>1, <1>3 DEF QueueInv

LEMMA QueueSafe == QueueInv => Queue!LatestApplied
  BY UnderWayIs DEF QueueInv, Coalesced, InOrder, Queue!LatestApplied
-----------------------------------------------------------------------------
(***************************************************************************)
(* The pollers (Ticker): timers follow the window and the page.            *)
(***************************************************************************)
LEMMA AtMostOne ==
    /\ Pollers!Cardinality({}) <= 1
    /\ \A t : Pollers!Cardinality({t}) <= 1
  <1>1. \A S : Pollers!Cardinality(S) = Cardinality(S)
    BY DEF Pollers!Cardinality, Cardinality
  <1>2. Cardinality({}) = 0
    BY FS_EmptySet
  <1>3. ASSUME NEW t PROVE Cardinality({t}) = 1
    BY FS_Singleton
  <1>4. ASSUME NEW n, n \in {0, 1} PROVE n <= 1
    BY <1>4
  <1>5. \A t : Pollers!Cardinality({t}) = 1
    BY <1>1, <1>3
  <1>6. Pollers!Cardinality({}) = 0
    BY <1>1, <1>2
  <1>7. QED
    BY <1>5, <1>6

\* An interval is one of the program's, and depends on nothing but the window,
\* the page and the poller.
LEMMA WantedType ==
    ASSUME Pollers!TypeOK, NEW t \in Tickers
    PROVE  Pollers!wanted(t) \in {0, 1, 5, 10}
  BY DEF Pollers!TypeOK, Pollers!wanted, Pollers!Slower, Pollers!Bases,
         Pollers!BACKGROUND_INTERVAL

LEMMA WantedLater ==
    ASSUME Pollers!TypeOK, activity' \in Pollers!Activities, NEW t \in Tickers,
           UNCHANGED <<base, owner>>
    PROVE  Pollers!wanted(t)' \in {0, 1, 5, 10}
  BY DEF Pollers!TypeOK, Pollers!wanted, Pollers!Slower, Pollers!Bases,
         Pollers!BACKGROUND_INTERVAL

\* A poller that has not begun has nothing to catch up with.
PollersInv ==
    /\ Pollers!TypeOK /\ Pollers!TimersFollow
    /\ \A t \in Tickers : state[t] = "unborn" => fresh[t]

\* Whatever moves the window or the page, every poller is synced to it.
LEMMA PollersSync ==
    ASSUME PollersInv, Pollers!sync_all,
           activity' \in Pollers!Activities, page' \in Pages,
           UNCHANGED <<state, base, owner, running>>
    PROVE  PollersInv'
  <1> USE DEF PollersInv
  <1>1. \A t \in Tickers : Pollers!wanted(t)' \in {0, 1, 5, 10}
    BY WantedLater
  <1>2. source' \in [Tickers -> {0, 1, 5, 10}]
    BY <1>1 DEF Pollers!sync_all, Pollers!TypeOK
  <1>3. fresh' \in [Tickers -> BOOLEAN] /\ idle' \subseteq Tickers
    BY DEF Pollers!sync_all, Pollers!TypeOK
  <1>4. Pollers!TypeOK'
    BY <1>2, <1>3 DEF Pollers!TypeOK
  <1>5. ASSUME NEW t \in Tickers
        PROVE  source'[t] = IF state'[t] = "live" THEN Pollers!wanted(t)' ELSE 0
    BY DEF Pollers!sync_all, Pollers!TimersFollow
  <1>6. ASSUME NEW t \in Tickers, source'[t] # 0, ~fresh'[t]
        PROVE  t \in idle'
    <2>1. state[t] = "live" /\ Pollers!wanted(t)' # 0
      BY <1>5, <1>6
    <2>2. CASE Pollers!woken(t)
      BY <2>2 DEF Pollers!sync_all
    <2>3. CASE ~Pollers!woken(t)
      <3>1. ~fresh[t]
        BY <1>6, <2>3 DEF Pollers!sync_all, Pollers!TypeOK
      <3>2. source[t] # 0
        BY <2>1, <2>3 DEF Pollers!woken
      <3>3. QED
        BY <3>1, <3>2 DEF Pollers!TimersFollow, Pollers!sync_all
    <2>4. QED
      BY <2>2, <2>3
  <1>7. Pollers!TimersFollow'
    BY <1>5, <1>6 DEF Pollers!TimersFollow
  <1>8. \A t \in Tickers : state'[t] = "unborn" => fresh'[t]
    BY DEF Pollers!sync_all, Pollers!woken, Pollers!TypeOK
  <1>9. QED
    BY <1>4, <1>7, <1>8

LEMMA PollersOwn ==
    ASSUME PollersInv, NEW t \in Tickers,
           \/ Pollers!ticker_local(t) \/ Pollers!Fire(t)
           \/ Pollers!Continues(t) \/ Pollers!Breaks(t)
    PROVE  PollersInv'
  <1> USE DEF PollersInv, Pollers!TypeOK
  <1>0. /\ UNCHANGED <<activity, page, base, owner>>
        /\ \A u \in Tickers : Pollers!wanted(u)' = Pollers!wanted(u)
    BY DEF Pollers!ticker_local, Pollers!Fire, Pollers!Continues,
           Pollers!Breaks, Pollers!wanted
  <1>1. CASE Pollers!ticker_local(t)
    <2>1. Pollers!wanted(t) \in {0, 1, 5, 10}
      BY WantedType
    <2>2. Pollers!TypeOK'
      BY <1>1, <2>1 DEF Pollers!ticker_local
    <2>3. ASSUME NEW u \in Tickers
          PROVE  /\ source'[u] = IF state'[u] = "live" THEN Pollers!wanted(u)' ELSE 0
                 /\ source'[u] # 0 /\ ~fresh'[u] => u \in idle'
      <3>1. CASE u = t
        BY <1>0, <1>1, <3>1 DEF Pollers!ticker_local
      <3>2. CASE u # t
        BY <1>0, <1>1, <3>2 DEF Pollers!ticker_local, Pollers!TimersFollow
      <3>3. QED
        BY <3>1, <3>2
    <2>4. \A u \in Tickers : state'[u] = "unborn" => fresh'[u]
      BY <1>1 DEF Pollers!ticker_local
    <2>5. QED
      BY <2>2, <2>3, <2>4 DEF Pollers!TimersFollow
  <1>2. CASE Pollers!Fire(t)
    <2>1. Pollers!TypeOK'
      <3>1. idle' \subseteq Tickers
        BY <1>2 DEF Pollers!Fire
      <3>2. fresh' \in [Tickers -> BOOLEAN]
        BY <1>2 DEF Pollers!Fire
      <3>3. running' = {} \/ running' = {t}
        BY <1>2 DEF Pollers!Fire
      <3>4. running' \subseteq Tickers /\ Pollers!Cardinality(running') <= 1
        BY <3>3, AtMostOne
      <3>5. QED
        BY <1>2, <3>1, <3>2, <3>4 DEF Pollers!Fire
    <2>2. Pollers!TimersFollow'
      BY <1>0, <1>2 DEF Pollers!Fire, Pollers!TimersFollow
    <2>3. \A u \in Tickers : state'[u] = "unborn" => fresh'[u]
      BY <1>2 DEF Pollers!Fire
    <2>4. QED
      BY <2>1, <2>2, <2>3
  <1>3. CASE Pollers!Continues(t)
    <2>1. Pollers!TypeOK'
      BY <1>3, AtMostOne DEF Pollers!Continues
    <2>2. Pollers!TimersFollow'
      BY <1>0, <1>3 DEF Pollers!Continues, Pollers!TimersFollow
    <2>3. \A u \in Tickers : state'[u] = "unborn" => fresh'[u]
      BY <1>3 DEF Pollers!Continues
    <2>4. QED
      BY <2>1, <2>2, <2>3
  <1>4. CASE Pollers!Breaks(t)
    <2>1. Pollers!TypeOK'
      BY <1>4, AtMostOne DEF Pollers!Breaks
    <2>2. Pollers!TimersFollow'
      BY <1>0, <1>4 DEF Pollers!Breaks, Pollers!TimersFollow
    <2>3. \A u \in Tickers : state'[u] = "unborn" => fresh'[u]
      BY <1>4 DEF Pollers!Breaks
    <2>4. QED
      BY <2>1, <2>2, <2>3
  <1>5. QED
    BY <1>1, <1>2, <1>3, <1>4

LEMMA PollersNext ==
    PollersInv /\ [Pollers!Next]_(Pollers!vars) => PollersInv'
  <1> SUFFICES ASSUME PollersInv, [Pollers!Next]_(Pollers!vars) PROVE PollersInv'
    OBVIOUS
  <1>1. CASE Pollers!set_activity \/ Pollers!set_visible_page
    <2>1. /\ activity' \in Pollers!Activities /\ page' \in Pages
          /\ UNCHANGED <<state, base, owner, running>> /\ Pollers!sync_all
      BY <1>1 DEF Pollers!set_activity, Pollers!set_visible_page, PollersInv,
                  Pollers!TypeOK
    <2>2. QED
      BY <2>1, PollersSync
  <1>2. CASE UNCHANGED Pollers!vars
    BY <1>2 DEF Pollers!vars, PollersInv, Pollers!TypeOK, Pollers!TimersFollow,
                Pollers!wanted
  <1>3. QED
    BY <1>1, <1>2, PollersOwn DEF Pollers!Next

LEMMA PollersInit == Pollers!Init => PollersInv
  BY AtMostOne DEF Pollers!Init, PollersInv, Pollers!TypeOK,
                   Pollers!TimersFollow, Pollers!Activities
-----------------------------------------------------------------------------
(***************************************************************************)
(* Updates (Updater): what is installed is all there, and a staged daemon  *)
(* of another release is to be refreshed.                                  *)
(***************************************************************************)
Busy == {"download", "curl", "verify", "install"}

\* An AppImage that two were never at the download of at once is not written to
\* by anybody when it is about to be installed, or by then.
Alone(u) ==
    /\ <<info[u], "download">> \notin orphans
    /\ \A w \in Updaters \ {u} : fd[w] = "download" => info[w] # info[u]

Verified ==
    \A u \in Updaters :
        update_at[u] \in Busy /\ kind = "AppImage" /\ info[u] \notin shared =>
            /\ Alone(u)
            /\ update_at[u] = "install" => file[info[u]] # "growing"

\* Who writes to the AppImage came from a download that two were at.
Written ==
    \/ \E w \in Updaters : fd[w] = "app"
    \/ \E r \in 1 .. Newest : <<r, "app">> \in orphans
Overwritten == Written => kind = "AppImage" /\ app.release \in shared

\* Only the window refreshes the staged daemon, and by the marker.
Restaging ==
    \A u \in Updaters : update_at[u] \in {"restage", "clear"} =>
        /\ u = Window /\ staged # 0
        /\ update_at[u] = "restage" /\ ~forgotten => marker

Downloads == Verified /\ Overwritten /\ Install!WholeApp
Markers == Restaging /\ Install!RestageToCome
InstallInv == Install!TypeOK /\ Downloads /\ Markers

UpdatePoints == {"off", "idle", "download", "curl", "verify", "install", "mark",
                 "restage", "clear"}
FilePlaces == {"start", "download", "app", "gone", "nowhere"}

\* TypeOK, with the types of the functions that steps change.
InstallTypes ==
    /\ update_at \in [Updaters -> UpdatePoints]
    /\ info \in [Updaters -> 1 .. Newest \cup {0}]
    /\ runs \in [Updaters -> 1 .. Newest]
    /\ fd \in [Updaters -> FilePlaces]
    /\ file \in [1 .. Newest -> {"absent", "growing", "whole"}]
    /\ orphans \subseteq Install!Orphans
    /\ app \in [release : 1 .. Newest, whole : BOOLEAN]

\* Where a process is, there is a release it is about, and a curl at "curl".
InstallPoints ==
    \A u \in Updaters :
        /\ update_at[u] \in {"download", "curl", "verify", "install", "mark"}
             => info[u] \in 1 .. Newest
        /\ fd[u] = "nowhere" <=> update_at[u] # "curl"

\* The rest of TypeOK.
InstallRest ==
    /\ kind \in {"AppImage", "Package"} /\ latest \in 1 .. Newest
    /\ staged \in 1 .. Newest \cup {0} /\ marker \in BOOLEAN
    /\ shared \subseteq 1 .. Newest /\ forgotten \in BOOLEAN

\* TypeOK, as the three of it that steps are shown to keep.
LEMMA InstallTyped ==
    Install!TypeOK <=> InstallTypes /\ InstallPoints /\ InstallRest
  <1>1. (\A u \in Updaters :
           update_at[u] \in {"download", "curl", "verify", "install", "mark"}
             => info[u] # 0) /\ InstallTypes
        => \A u \in Updaters :
             update_at[u] \in {"download", "curl", "verify", "install", "mark"}
               => info[u] \in 1 .. Newest
    BY DEF InstallTypes
  <1>2. InstallPoints => \A u \in Updaters :
          update_at[u] \in {"download", "curl", "verify", "install", "mark"}
             => info[u] # 0
    BY UpdateAssumption DEF InstallPoints
  <1>3. (\A u \in Updaters : (fd[u] = "nowhere") = (update_at[u] # "curl"))
        <=> \A u \in Updaters : fd[u] = "nowhere" <=> update_at[u] # "curl"
    OBVIOUS
  <1>4. QED
    BY <1>1, <1>2, <1>3 DEF Install!TypeOK, InstallTypes, InstallPoints,
       InstallRest, Install!Releases, Install!Nowhere, UpdatePoints, FilePlaces

\* The same, after a step.
LEMMA InstallTypedLater ==
    InstallTypes' /\ InstallPoints' /\ InstallRest' => Install!TypeOK'
  BY InstallTyped, PTL

\* A process that goes to another point.
LEMMA UpdateGoto ==
    ASSUME InstallTypes, NEW u \in Updaters, NEW p \in UpdatePoints,
           Install!Goto(u, p)
    PROVE  /\ update_at' \in [Updaters -> UpdatePoints] /\ update_at'[u] = p
           /\ \A w \in Updaters : w # u => update_at'[w] = update_at[w]
  BY DEF Install!Goto, InstallTypes

\* A process that is done with its update.
LEMMA UpdateDone ==
    ASSUME InstallTypes, NEW u \in Updaters, Install!Done(u)
    PROVE  /\ update_at' \in [Updaters -> UpdatePoints]
           /\ update_at'[u] \in {"idle", "off"}
           /\ \A w \in Updaters : w # u => update_at'[w] = update_at[w]
           /\ info' \in [Updaters -> 1 .. Newest \cup {0}]
           /\ runs' \in [Updaters -> 1 .. Newest]
           /\ \A w \in Updaters : w # u => info'[w] = info[w]
  <1> USE UpdateAssumption DEF InstallTypes
  <1>1. CASE u = Window
    <2>1. Install!Goto(u, "idle") /\ UNCHANGED <<runs, info>>
      BY <1>1 DEF Install!Done
    <2>2. QED
      BY <2>1, UpdateGoto DEF UpdatePoints
  <1>2. CASE u # Window
    <2>1. /\ Install!Goto(u, "off")
          /\ runs' = [runs EXCEPT ![u] = 1] /\ info' = [info EXCEPT ![u] = 0]
      BY <1>2 DEF Install!Done
    <2>2. 1 \in 1 .. Newest
      OBVIOUS
    <2>3. QED
      BY <2>1, <2>2, UpdateGoto DEF UpdatePoints
  <1>3. QED
    BY <1>1, <1>2

\* A file that is removed by its name.
LEMMA UpdateRemove ==
    ASSUME InstallTypes, NEW u \in Updaters, info[u] \in 1 .. Newest,
           Install!Remove(u)
    PROVE  /\ file' \in [1 .. Newest -> {"absent", "growing", "whole"}]
           /\ \A r \in 1 .. Newest : file'[r] \in {file[r], "absent"}
           /\ file'[info[u]] = "absent"
           /\ fd' \in [Updaters -> FilePlaces] /\ fd'[u] = "nowhere"
           /\ \A w \in Updaters : w # u =>
                /\ fd'[w] = "nowhere" <=> fd[w] = "nowhere"
                /\ fd'[w] = "download" => fd[w] = "download" /\ info[w] # info[u]
                /\ fd'[w] = "app" => fd[w] = "app"
           /\ orphans' \subseteq orphans /\ <<info[u], "download">> \notin orphans'
  BY DEF Install!Remove, Install!Nowhere, InstallTypes, FilePlaces

\* What a curl writes is in the file it has open.
LEMMA UpdateWrites ==
    ASSUME InstallTypes, NEW r \in 1 .. Newest, NEW place, NEW whole \in BOOLEAN,
           Install!Writes(r, place, whole)
    PROVE  /\ file' \in [1 .. Newest -> {"absent", "growing", "whole"}]
           /\ \A q \in 1 .. Newest :
                file'[q] = file[q] \/ whole \/ (place = "download" /\ q = r)
           /\ whole => \A q \in 1 .. Newest : file'[q] \in {file[q], "whole"}
           /\ app' \in [release : 1 .. Newest, whole : BOOLEAN]
           /\ app'.release = app.release
           /\ app'.whole = app.whole \/ (place = "app" /\ app'.whole = whole)
  <1>1. CASE place = "download"
    <2>1. app' = app
      BY <1>1 DEF Install!Writes
    <2>2. file' = [file EXCEPT ![r] = IF whole THEN "whole" ELSE "growing"]
      BY <1>1 DEF Install!Writes
    <2>3. QED
      BY <1>1, <2>1, <2>2 DEF InstallTypes
  <1>2. CASE place = "app"
    <2>1. file' = file /\ app' = [app EXCEPT !.whole = whole]
      BY <1>2 DEF Install!Writes
    <2>2. /\ app' \in [release : 1 .. Newest, whole : BOOLEAN]
          /\ app'.release = app.release /\ app'.whole = whole
      BY <2>1 DEF InstallTypes
    <2>3. QED
      BY <1>2, <2>1, <2>2 DEF InstallTypes
  <1>3. CASE place \notin {"download", "app"}
    <2>1. file' = file /\ app' = app
      BY <1>3 DEF Install!Writes
    <2>2. QED
      BY <2>1 DEF InstallTypes
  <1>4. QED
    BY <1>1, <1>2, <1>3

\* A step after which nobody has a download open, is at one or is to install one
\* but who was, and no file is any more unfinished.
LEMMA DownloadsKept ==
    ASSUME InstallInv, UNCHANGED <<kind, shared>>,
           app'.release = app.release, app.whole => app'.whole,
           \A w \in Updaters :
              /\ update_at'[w] \in Busy => update_at[w] \in Busy /\ info'[w] = info[w]
              /\ update_at'[w] = "install" => update_at[w] = "install"
              /\ fd'[w] = "download" => fd[w] = "download" /\ info'[w] = info[w]
              /\ fd'[w] = "app" => fd[w] = "app",
           orphans' \subseteq orphans,
           \A r \in 1 .. Newest : file'[r] = "growing" => file[r] = "growing"
    PROVE  Downloads'
  <1>0. InstallPoints
    BY InstallTyped DEF InstallInv
  <1>1. ASSUME NEW u \in Updaters, update_at'[u] \in Busy, kind' = "AppImage",
               info'[u] \notin shared'
        PROVE  Alone(u)' /\ (update_at'[u] = "install" => file'[info'[u]] # "growing")
    <2>1. /\ update_at[u] \in Busy /\ info'[u] = info[u] /\ info[u] \notin shared
          /\ kind = "AppImage" /\ info[u] \in 1 .. Newest
      BY <1>0, <1>1 DEF InstallPoints, Busy
    <2>2. Alone(u) /\ (update_at[u] = "install" => file[info[u]] # "growing")
      BY <2>1 DEF InstallInv, Downloads, Verified
    <2>3. Alone(u)'
      BY <2>1, <2>2 DEF Alone
    <2>4. QED
      BY <2>1, <2>2, <2>3
  <1>2. Verified'
    BY <1>1 DEF Verified
  <1>3. Overwritten' /\ Install!WholeApp'
    BY DEF InstallInv, Downloads, Overwritten, Written, Install!WholeApp
  <1>4. QED
    BY <1>2, <1>3 DEF Downloads

\* A step that leaves the marker, and what it is for, alone.
LEMMA MarkersKept ==
    ASSUME InstallInv, UNCHANGED <<kind, staged, marker, forgotten>>,
           app'.release = app.release,
           \A w \in Updaters :
              /\ update_at'[w] \in {"restage", "clear"} => update_at'[w] = update_at[w]
              /\ update_at[w] = "mark" => update_at'[w] = "mark"
    PROVE  Markers'
  BY DEF InstallInv, Markers, Restaging, Install!RestageToCome

\* An update that asks, begins, starts a curl, verifies or fails.
LEMMA InstallAsks ==
    ASSUME InstallInv, NEW u \in Updaters,
           \/ Install!Check(u) \/ Install!Begin(u) \/ Install!Fails(u)
           \/ Install!Spawn(u) \/ Install!CurlFails(u) \/ Install!Verify(u)
    PROVE  InstallInv'
  <1> USE DEF Install!files, Install!history
  <1>0. InstallTypes /\ InstallPoints /\ InstallRest /\ Downloads
    BY InstallTyped DEF InstallInv
  <1>1. CASE Install!Check(u)
    <2>0. /\ update_at' = update_at /\ update_at[u] = "idle" /\ fd[u] # "download"
          /\ info' \in [Updaters -> 1 .. Newest \cup {0}]
          /\ \A w \in Updaters : w # u => info'[w] = info[w]
          /\ UNCHANGED <<runs, fd, file, orphans, app>> /\ InstallRest'
      BY <1>0, <1>1 DEF Install!Check, InstallTypes, InstallPoints, InstallRest
    <2>1. InstallTypes' /\ InstallPoints'
      BY <1>0, <2>0 DEF InstallTypes, InstallPoints
    <2>2. Downloads'
      BY <1>0, <1>1, <2>0, DownloadsKept DEF Install!Check, Busy
    <2>3. Markers'
      BY <1>1, <2>0, MarkersKept DEF Install!Check
    <2>4. QED
      BY <2>0, <2>1, <2>2, <2>3, InstallTypedLater DEF InstallInv
  <1>2. CASE Install!Begin(u)
    <2>0. /\ update_at' \in [Updaters -> UpdatePoints] /\ update_at'[u] = "download"
          /\ \A w \in Updaters : w # u => update_at'[w] = update_at[w]
          /\ update_at[u] = "idle" /\ info[u] \in 1 .. Newest
          /\ UNCHANGED <<kind, latest, app, runs, info, staged, marker, shared,
                         forgotten>>
      BY <1>0, <1>2, UpdateGoto DEF Install!Begin, UpdatePoints, InstallTypes
    <2>1. Install!Remove(u)
      BY <1>2 DEF Install!Begin
    <2>2. InstallTypes' /\ InstallPoints' /\ InstallRest'
      <3>1. InstallTypes'
        BY <1>0, <2>0, <2>1, UpdateRemove DEF InstallTypes
      <3>2. InstallPoints'
        BY <1>0, <2>0, <2>1, UpdateRemove DEF InstallPoints
      <3>3. InstallRest'
        BY <1>0, <2>0, <2>1, UpdateRemove DEF InstallRest
      <3>4. QED
        BY <3>1, <3>2, <3>3
    <2>3. ASSUME NEW w \in Updaters, update_at'[w] \in Busy, kind' = "AppImage",
                 info'[w] \notin shared'
          PROVE  Alone(w)' /\ (update_at'[w] = "install" => file'[info'[w]] # "growing")
      <3>1. CASE w = u
        BY <1>0, <2>0, <2>1, <3>1, UpdateRemove DEF Alone
      <3>2. CASE w # u
        <4>1. /\ update_at[w] \in Busy /\ info[w] \in 1 .. Newest
              /\ Alone(w) /\ (update_at[w] = "install" => file[info[w]] # "growing")
          BY <1>0, <2>0, <2>3, <3>2
             DEF Downloads, Verified, InstallPoints, Busy
        <4>2. Alone(w)'
          BY <1>0, <2>0, <2>1, <4>1, UpdateRemove DEF Alone
        <4>3. file'[info[w]] \in {file[info[w]], "absent"}
          BY <1>0, <2>0, <2>1, <4>1, UpdateRemove
        <4>4. QED
          BY <2>0, <3>2, <4>1, <4>2, <4>3
      <3>3. QED
        BY <3>1, <3>2
    <2>4. Downloads'
      <3>1. Verified'
        BY <2>3 DEF Verified
      <3>2. Overwritten' /\ Install!WholeApp'
        BY <1>0, <2>0, <2>1, UpdateRemove
           DEF Downloads, Overwritten, Written, Install!WholeApp
      <3>3. QED
        BY <3>1, <3>2 DEF Downloads
    <2>5. Markers'
      BY <2>0, MarkersKept
    <2>6. QED
      BY <2>2, <2>4, <2>5, InstallTypedLater DEF InstallInv
  <1>3. CASE Install!Fails(u)
    <2>0. /\ update_at' \in [Updaters -> UpdatePoints]
          /\ update_at'[u] \in {"idle", "off"}
          /\ \A w \in Updaters : w # u => update_at'[w] = update_at[w]
          /\ info' \in [Updaters -> 1 .. Newest \cup {0}]
          /\ runs' \in [Updaters -> 1 .. Newest]
          /\ \A w \in Updaters : w # u => info'[w] = info[w]
          /\ update_at[u] \in {"download", "verify", "install"}
          /\ info[u] \in 1 .. Newest /\ fd[u] = "nowhere"
          /\ UNCHANGED <<kind, latest, app, staged, marker, shared, forgotten>>
      BY <1>0, <1>3, UpdateDone DEF Install!Fails, InstallPoints
    <2>1. UNCHANGED <<file, fd, orphans>> \/ Install!Remove(u)
      BY <1>3 DEF Install!Fails
    <2>2. InstallTypes' /\ InstallPoints' /\ InstallRest'
      <3>1. InstallTypes'
        BY <1>0, <2>0, <2>1, UpdateRemove DEF InstallTypes
      <3>2. InstallPoints'
        <4>1. /\ fd'[u] = "nowhere"
              /\ \A w \in Updaters : w # u =>
                   (fd'[w] = "nowhere" <=> fd[w] = "nowhere")
          BY <1>0, <2>0, <2>1, UpdateRemove
        <4>2. ASSUME NEW w \in Updaters
              PROVE  /\ update_at'[w] \in {"download", "curl", "verify", "install",
                                           "mark"} => info'[w] \in 1 .. Newest
                     /\ fd'[w] = "nowhere" <=> update_at'[w] # "curl"
          BY <1>0, <2>0, <4>1 DEF InstallPoints
        <4>3. QED
          BY <4>2 DEF InstallPoints
      <3>3. InstallRest'
        BY <1>0, <2>0, <2>1, UpdateRemove DEF InstallRest
      <3>4. QED
        BY <3>1, <3>2, <3>3
    <2>3. /\ fd'[u] = "nowhere" /\ orphans' \subseteq orphans
          /\ \A w \in Updaters : w # u =>
               /\ fd'[w] = "download" => fd[w] = "download"
               /\ fd'[w] = "app" => fd[w] = "app"
          /\ \A r \in 1 .. Newest : file'[r] = "growing" => file[r] = "growing"
      BY <1>0, <2>0, <2>1, UpdateRemove
    <2>4. Downloads'
      BY <2>0, <2>3, DownloadsKept DEF Busy
    <2>5. Markers'
      BY <2>0, MarkersKept
    <2>6. QED
      BY <2>2, <2>4, <2>5, InstallTypedLater DEF InstallInv
  <1>4. CASE Install!Spawn(u)
    <2>0. /\ update_at' \in [Updaters -> UpdatePoints] /\ update_at'[u] = "curl"
          /\ \A w \in Updaters : w # u => update_at'[w] = update_at[w]
          /\ update_at[u] = "download"
          /\ fd' \in [Updaters -> FilePlaces] /\ fd'[u] = "start"
          /\ \A w \in Updaters : w # u => fd'[w] = fd[w]
          /\ UNCHANGED <<kind, latest, app, file, orphans, runs, info, staged,
                         marker, shared, forgotten>>
      BY <1>0, <1>4, UpdateGoto
         DEF Install!Spawn, UpdatePoints, InstallTypes, FilePlaces
    <2>1. InstallTypes' /\ InstallPoints' /\ InstallRest'
      BY <1>0, <2>0 DEF InstallTypes, InstallPoints, InstallRest
    <2>2. Downloads'
      BY <2>0, DownloadsKept DEF Busy
    <2>3. Markers'
      BY <2>0, MarkersKept
    <2>4. QED
      BY <2>1, <2>2, <2>3, InstallTypedLater DEF InstallInv
  <1>5. CASE Install!CurlFails(u)
    <2>0. /\ update_at' \in [Updaters -> UpdatePoints]
          /\ update_at'[u] \in {"idle", "off"}
          /\ \A w \in Updaters : w # u => update_at'[w] = update_at[w]
          /\ info' \in [Updaters -> 1 .. Newest \cup {0}]
          /\ runs' \in [Updaters -> 1 .. Newest]
          /\ \A w \in Updaters : w # u => info'[w] = info[w]
          /\ update_at[u] = "curl" /\ info[u] \in 1 .. Newest
          /\ Install!Remove(u)
          /\ UNCHANGED <<kind, latest, app, staged, marker, shared, forgotten>>
      BY <1>0, <1>5, UpdateDone DEF Install!CurlFails, InstallPoints
    <2>1. InstallTypes' /\ InstallPoints' /\ InstallRest'
      <3>1. InstallTypes'
        BY <1>0, <2>0, UpdateRemove DEF InstallTypes
      <3>2. InstallPoints'
        BY <1>0, <2>0, UpdateRemove DEF InstallPoints
      <3>3. InstallRest'
        BY <1>0, <2>0, UpdateRemove DEF InstallRest
      <3>4. QED
        BY <3>1, <3>2, <3>3
    <2>2. /\ fd'[u] = "nowhere" /\ orphans' \subseteq orphans
          /\ \A w \in Updaters : w # u =>
               /\ fd'[w] = "download" => fd[w] = "download"
               /\ fd'[w] = "app" => fd[w] = "app"
          /\ \A r \in 1 .. Newest : file'[r] = "growing" => file[r] = "growing"
      BY <1>0, <2>0, UpdateRemove
    <2>3. Downloads'
      BY <2>0, <2>2, DownloadsKept DEF Busy
    <2>4. Markers'
      BY <2>0, MarkersKept
    <2>5. QED
      BY <2>1, <2>3, <2>4, InstallTypedLater DEF InstallInv
  <1>6. CASE Install!Verify(u)
    <2>0. /\ update_at' \in [Updaters -> UpdatePoints] /\ update_at'[u] = "install"
          /\ \A w \in Updaters : w # u => update_at'[w] = update_at[w]
          /\ update_at[u] = "verify" /\ file[info[u]] = "whole"
          /\ UNCHANGED <<kind, latest, app, file, fd, orphans, runs, info, staged,
                         marker, shared, forgotten>>
      BY <1>0, <1>6, UpdateGoto DEF Install!Verify, UpdatePoints
    <2>1. InstallTypes' /\ InstallPoints' /\ InstallRest'
      BY <1>0, <2>0 DEF InstallTypes, InstallPoints, InstallRest
    <2>2. Downloads'
      <3>1. \A w \in Updaters : Alone(w)' <=> Alone(w)
        BY <2>0 DEF Alone
      <3>2. Verified'
        BY <1>0, <2>0, <3>1 DEF Downloads, Verified, Busy
      <3>3. QED
        BY <1>0, <2>0, <3>2
           DEF Downloads, Overwritten, Written, Install!WholeApp
    <2>3. Markers'
      BY <2>0, MarkersKept
    <2>4. QED
      BY <2>1, <2>2, <2>3, InstallTypedLater DEF InstallInv
  <1>7. QED
    BY <1>1, <1>2, <1>3, <1>4, <1>5, <1>6


\* A curl that opens a download: whoever is at it too is at one two are at now.
LEMMA DownloadsOpened ==
    ASSUME InstallInv, NEW r \in 1 .. Newest, NEW S \in SUBSET Updaters,
           Install!Opens(r, S), UNCHANGED <<kind, app, update_at, info>>,
           \A w \in S : /\ update_at[w] = "curl" /\ info[w] = r
                        /\ \A v \in S : v = w,
           S # {} => orphans' = orphans,
           \A w \in Updaters :
              /\ fd'[w] = "download" => fd[w] = "download" \/ w \in S
              /\ fd'[w] = "app" => fd[w] = "app",
           \A o \in orphans' : o \in orphans \/ o = <<r, "download">>
    PROVE  Downloads' /\ shared' \subseteq 1 .. Newest
           /\ file' \in [1 .. Newest -> {"absent", "growing", "whole"}]
  <1>0. InstallTypes /\ InstallPoints /\ InstallRest /\ Downloads
    BY InstallTyped DEF InstallInv
  <1>1. /\ file' = [file EXCEPT ![r] = "growing"]
        /\ shared \subseteq shared' /\ shared' \subseteq 1 .. Newest
        /\ kind = "AppImage" /\ Install!Contended(r, S) => r \in shared'
    BY <1>0 DEF Install!Opens, InstallRest
  <1>2. ASSUME NEW u \in Updaters, update_at[u] \in Busy, kind = "AppImage",
               info[u] \notin shared'
        PROVE  Alone(u)' /\ (update_at[u] = "install" => file'[info[u]] # "growing")
    <2>1. /\ info[u] \in 1 .. Newest /\ Alone(u)
          /\ update_at[u] = "install" => file[info[u]] # "growing"
      BY <1>0, <1>1, <1>2 DEF Downloads, Verified, InstallPoints, Busy
    <2>2. CASE info[u] # r
      <3>1. Alone(u)'
        BY <2>1, <2>2 DEF Alone
      <3>2. file'[info[u]] = file[info[u]]
        BY <1>0, <1>1, <2>1, <2>2 DEF InstallTypes
      <3>3. QED
        BY <2>1, <3>1, <3>2
    <2>3. CASE info[u] = r
      <3>1. ~Install!Contended(r, S)
        BY <1>1, <1>2, <2>3
      <3>2. u \in S /\ <<r, "download">> \notin orphans
        BY <1>2, <2>3, <3>1 DEF Install!Contended, Busy
      <3>3. Alone(u)'
        BY <2>1, <2>3, <3>2 DEF Alone
      <3>4. QED
        BY <3>2, <3>3
    <2>4. QED
      BY <2>2, <2>3
  <1>3. Verified'
    BY <1>2 DEF Verified
  <1>4. Overwritten'
    <2>1. Written' => Written
      BY DEF Written
    <2>2. QED
      BY <1>0, <1>1, <2>1 DEF Downloads, Overwritten
  <1>5. Install!WholeApp'
    BY <1>0, <1>1 DEF Downloads, Install!WholeApp
  <1>6. file' \in [1 .. Newest -> {"absent", "growing", "whole"}]
    BY <1>0, <1>1 DEF InstallTypes
  <1>7. QED
    BY <1>1, <1>3, <1>4, <1>5, <1>6 DEF Downloads

\* A curl that truncates the file it has open.
LEMMA DownloadsRetried ==
    ASSUME InstallInv, NEW r \in 1 .. Newest, NEW place \in {"download", "app"},
           Install!Writes(r, place, FALSE),
           UNCHANGED <<kind, shared, update_at, info, fd, orphans>>,
           \/ <<r, place>> \in orphans
           \/ \E w \in Updaters :
                update_at[w] = "curl" /\ info[w] = r /\ fd[w] = place
    PROVE  Downloads'
  <1>0. InstallTypes /\ InstallPoints /\ InstallRest /\ Downloads
    BY InstallTyped DEF InstallInv
  <1>1. /\ \A q \in 1 .. Newest : file'[q] = file[q] \/ (place = "download" /\ q = r)
        /\ app'.release = app.release
        /\ app'.whole = app.whole \/ place = "app"
    BY <1>0, UpdateWrites
  <1>2. ASSUME NEW u \in Updaters, update_at[u] \in Busy, kind = "AppImage",
               info[u] \notin shared
        PROVE  Alone(u)' /\ (update_at[u] = "install" => file'[info[u]] # "growing")
    <2>1. /\ info[u] \in 1 .. Newest /\ Alone(u)
          /\ update_at[u] = "install" => file[info[u]] # "growing"
      BY <1>0, <1>2 DEF Downloads, Verified, InstallPoints, Busy
    <2>2. Alone(u)'
      BY <2>1 DEF Alone
    <2>3. update_at[u] = "install" => ~(place = "download" /\ info[u] = r)
      BY <2>1 DEF Alone
    <2>4. QED
      BY <1>1, <2>1, <2>2, <2>3
  <1>3. Verified'
    BY <1>2 DEF Verified
  <1>4. Overwritten' /\ Install!WholeApp'
    <2>1. Written' <=> Written
      BY DEF Written
    <2>2. place = "app" => Written
      BY DEF Written
    <2>3. QED
      BY <1>0, <1>1, <2>1, <2>2
         DEF Downloads, Overwritten, Install!WholeApp
  <1>5. QED
    BY <1>3, <1>4 DEF Downloads

\* The steps of the curl of a process.
LEMMA InstallCurl ==
    ASSUME InstallInv, NEW u \in Updaters,
           \/ Install!CurlOpens(u) \/ Install!CurlRetries(u) \/ Install!CurlEnds(u)
    PROVE  InstallInv'
  <1> USE DEF Install!files, Install!history
  <1>0. InstallTypes /\ InstallPoints /\ InstallRest
    BY InstallTyped DEF InstallInv
  <1>1. CASE Install!CurlOpens(u)
    <2>0. /\ update_at[u] = "curl" /\ info[u] \in 1 .. Newest
          /\ fd' \in [Updaters -> FilePlaces] /\ fd'[u] = "download"
          /\ \A w \in Updaters : w # u => fd'[w] = fd[w]
          /\ Install!Opens(info[u], {u})
          /\ UNCHANGED <<kind, latest, app, orphans, update_at, runs, info, staged,
                         marker, forgotten>>
      BY <1>0, <1>1
         DEF Install!CurlOpens, InstallPoints, InstallTypes, FilePlaces
    <2>1. Downloads' /\ shared' \subseteq 1 .. Newest
          /\ file' \in [1 .. Newest -> {"absent", "growing", "whole"}]
      <3> DEFINE r == info[u]
                 S == {u}
      <3>1. /\ r \in 1 .. Newest /\ S \in SUBSET Updaters /\ Install!Opens(r, S)
            /\ \A w \in S : /\ update_at[w] = "curl" /\ info[w] = r
                            /\ \A v \in S : v = w
            /\ S # {} => orphans' = orphans
            /\ \A w \in Updaters :
                  /\ fd'[w] = "download" => fd[w] = "download" \/ w \in S
                  /\ fd'[w] = "app" => fd[w] = "app"
            /\ \A o \in orphans' : o \in orphans \/ o = <<r, "download">>
        BY <2>0
      <3> HIDE DEF r, S
      <3>2. QED
        BY <2>0, <3>1, DownloadsOpened
    <2>2. InstallTypes'
      BY <1>0, <2>0, <2>1 DEF InstallTypes
    <2>3. InstallPoints' /\ InstallRest'
      BY <1>0, <2>0, <2>1 DEF InstallPoints, InstallRest
    <2>4. Markers'
      BY <2>0, MarkersKept
    <2>5. QED
      BY <2>1, <2>2, <2>3, <2>4, InstallTypedLater DEF InstallInv
  <1>2. CASE Install!CurlRetries(u)
    <2>0. /\ update_at[u] = "curl" /\ info[u] \in 1 .. Newest
          /\ fd[u] \in {"download", "app"}
          /\ Install!Writes(info[u], fd[u], FALSE)
          /\ UNCHANGED <<kind, latest, fd, orphans, update_at, runs, info, staged,
                         marker, shared, forgotten>>
      BY <1>0, <1>2 DEF Install!CurlRetries, InstallPoints
    <2>1. Downloads'
      BY <2>0, DownloadsRetried
    <2>2. InstallTypes' /\ InstallPoints' /\ InstallRest'
      BY <1>0, <2>0, UpdateWrites DEF InstallTypes, InstallPoints, InstallRest
    <2>3. Markers'
      BY <1>0, <2>0, UpdateWrites, MarkersKept
    <2>4. QED
      BY <2>1, <2>2, <2>3, InstallTypedLater DEF InstallInv
  <1>3. CASE Install!CurlEnds(u)
    <2>0. /\ update_at' \in [Updaters -> UpdatePoints] /\ update_at'[u] = "verify"
          /\ \A w \in Updaters : w # u => update_at'[w] = update_at[w]
          /\ update_at[u] = "curl" /\ info[u] \in 1 .. Newest
          /\ fd' \in [Updaters -> FilePlaces] /\ fd'[u] = "nowhere"
          /\ \A w \in Updaters : w # u => fd'[w] = fd[w]
          /\ UNCHANGED <<kind, latest, orphans, runs, info, staged, marker, shared,
                         forgotten>>
      BY <1>0, <1>3, UpdateGoto
         DEF Install!CurlEnds, Install!Nowhere, InstallPoints, InstallTypes,
             FilePlaces, UpdatePoints
    <2>1. UNCHANGED <<file, app>> \/ Install!Writes(info[u], fd[u], TRUE)
      BY <1>3 DEF Install!CurlEnds
    <2>2. /\ file' \in [1 .. Newest -> {"absent", "growing", "whole"}]
          /\ \A q \in 1 .. Newest : file'[q] \in {file[q], "whole"}
          /\ app' \in [release : 1 .. Newest, whole : BOOLEAN]
          /\ app'.release = app.release /\ (app.whole => app'.whole)
      <3>1. CASE UNCHANGED <<file, app>>
        BY <1>0, <3>1 DEF InstallTypes
      <3>2. CASE Install!Writes(info[u], fd[u], TRUE)
        BY <1>0, <2>0, <3>2, UpdateWrites
      <3>3. QED
        BY <2>1, <3>1, <3>2
    <2>3. Downloads'
      BY <2>0, <2>2, DownloadsKept DEF Busy
    <2>4. InstallTypes'
      BY <1>0, <2>0, <2>2 DEF InstallTypes
    <2>5. InstallPoints' /\ InstallRest'
      BY <1>0, <2>0 DEF InstallPoints, InstallRest
    <2>6. Markers'
      BY <2>0, <2>2, MarkersKept
    <2>7. QED
      BY <2>3, <2>4, <2>5, <2>6, InstallTypedLater DEF InstallInv
  <1>4. QED
    BY <1>1, <1>2, <1>3


\* A download that is installed, and the marker.
LEMMA InstallPlaces ==
    ASSUME InstallInv, NEW u \in Updaters,
           Install!Rename(u) \/ Install!Mark(u) \/ Install!PkexecStaged(u)
    PROVE  InstallInv'
  <1> USE DEF Install!files, Install!history
  <1>0. InstallTypes /\ InstallPoints /\ InstallRest /\ Downloads /\ Markers
    BY InstallTyped DEF InstallInv
  <1>1. CASE Install!Rename(u)
    <2> DEFINE r == info[u]
    <2>0. /\ update_at' \in [Updaters -> UpdatePoints] /\ update_at'[u] = "mark"
          /\ \A w \in Updaters : w # u => update_at'[w] = update_at[w]
          /\ update_at[u] = "install" /\ r \in 1 .. Newest /\ kind = "AppImage"
          /\ file[r] # "absent"
          /\ UNCHANGED <<kind, latest, runs, info, staged, marker, shared,
                         forgotten>>
      BY <1>0, <1>1, UpdateGoto DEF Install!Rename, UpdatePoints, InstallPoints
    <2>1. /\ file' \in [1 .. Newest -> {"absent", "growing", "whole"}]
          /\ file'[r] = "absent"
          /\ \A q \in 1 .. Newest : q # r => file'[q] = file[q]
      BY <1>0, <1>1, <2>0 DEF Install!Rename, InstallTypes
    <2>2. /\ fd' \in [Updaters -> FilePlaces]
          /\ \A w \in Updaters :
               /\ fd'[w] = "nowhere" <=> fd[w] = "nowhere"
               /\ fd'[w] = "download" => fd[w] = "download" /\ info[w] # r
               /\ fd'[w] = "app" => fd[w] = "download" /\ info[w] = r
      BY <1>0, <1>1 DEF Install!Rename, InstallTypes, FilePlaces
    <2>3. /\ orphans' \subseteq Install!Orphans
          /\ \A q \in 1 .. Newest :
               /\ <<q, "download">> \in orphans' =>
                    <<q, "download">> \in orphans /\ q # r
               /\ <<q, "app">> \in orphans' => q = r /\ <<r, "download">> \in orphans
      <3>1. orphans' = {o \in orphans : o[2] # "app" /\ o # <<r, "download">>} \cup
                       {o \in {<<r, "app">>} : <<r, "download">> \in orphans}
        BY <1>1 DEF Install!Rename
      <3>2. orphans \subseteq Install!Orphans /\ <<r, "app">> \in Install!Orphans
        BY <1>0, <2>0 DEF InstallTypes, Install!Orphans, Install!Releases
      <3>3. QED
        BY <3>1, <3>2
    <2>4. /\ app' \in [release : 1 .. Newest, whole : BOOLEAN]
          /\ app'.release = r /\ app'.whole = (file[r] = "whole")
      BY <1>1, <2>0 DEF Install!Rename
    <2>5. r \notin shared =>
            Alone(u) /\ file[r] = "whole" /\ ~Written'
      <3> SUFFICES ASSUME r \notin shared
                   PROVE  Alone(u) /\ file[r] = "whole" /\ ~Written'
        OBVIOUS
      <3>1. Alone(u) /\ file[r] # "growing"
        BY <1>0, <2>0 DEF Downloads, Verified, Busy
      <3>2. file[r] = "whole"
        BY <1>0, <2>0, <3>1 DEF InstallTypes
      <3>3. fd[u] # "download"
        BY <1>0, <2>0 DEF InstallPoints
      <3>4. ~Written'
        BY <2>2, <2>3, <3>1, <3>3 DEF Written, Alone
      <3>5. QED
        BY <3>1, <3>2, <3>4
    <2>6. Overwritten' /\ Install!WholeApp'
      BY <2>0, <2>4, <2>5 DEF Overwritten, Install!WholeApp
    <2>7. ASSUME NEW w \in Updaters, update_at'[w] \in Busy, info'[w] \notin shared'
          PROVE  Alone(w)' /\ (update_at'[w] = "install" => file'[info'[w]] # "growing")
      <3>1. w # u /\ update_at[w] \in Busy /\ info[w] \in 1 .. Newest
        BY <1>0, <2>0, <2>7 DEF InstallPoints, Busy
      <3>2. Alone(w) /\ (update_at[w] = "install" => file[info[w]] # "growing")
        BY <1>0, <2>0, <2>7, <3>1 DEF Downloads, Verified
      <3>3. Alone(w)'
        BY <2>0, <2>2, <2>3, <3>1, <3>2 DEF Alone
      <3>4. file'[info[w]] \in {"absent", file[info[w]]}
        BY <2>1, <3>1
      <3>5. QED
        BY <2>0, <3>1, <3>2, <3>3, <3>4
    <2>8. Downloads'
      BY <2>6, <2>7 DEF Downloads, Verified
    <2>9. InstallTypes'
      BY <1>0, <2>0, <2>1, <2>2, <2>3, <2>4 DEF InstallTypes
    <2>10. InstallPoints' /\ InstallRest'
      BY <1>0, <2>0, <2>2 DEF InstallPoints, InstallRest
    <2>11. Markers'
      <3>1. Install!RestageToCome'
        BY <2>0 DEF Install!RestageToCome
      <3>2. Restaging'
        BY <1>0, <2>0 DEF Markers, Restaging
      <3>3. QED
        BY <3>1, <3>2 DEF Markers
    <2>12. QED
      BY <2>8, <2>9, <2>10, <2>11, InstallTypedLater DEF InstallInv
  <1>2. CASE Install!Mark(u)
    <2>0. /\ update_at' \in [Updaters -> UpdatePoints]
          /\ update_at'[u] \in {"idle", "off"}
          /\ \A w \in Updaters : w # u => update_at'[w] = update_at[w]
          /\ info' \in [Updaters -> 1 .. Newest \cup {0}]
          /\ runs' \in [Updaters -> 1 .. Newest]
          /\ \A w \in Updaters : w # u => info'[w] = info[w]
          /\ update_at[u] = "mark" /\ fd[u] = "nowhere"
          /\ UNCHANGED <<kind, latest, app, file, fd, orphans, staged, shared>>
      BY <1>0, <1>2, UpdateDone DEF Install!Mark, InstallPoints
    <2>1. /\ marker' \in BOOLEAN /\ forgotten' \in BOOLEAN
          /\ (marker => marker') /\ (forgotten' <=> ~marker')
      <3>1. /\ marker' = marker \/ marker' = TRUE
            /\ forgotten' = ~marker' /\ marker \in BOOLEAN
        BY <1>0, <1>2 DEF Install!Mark, InstallRest
      <3>2. CASE marker' = TRUE
        BY <3>1, <3>2, Zenon
      <3>3. CASE marker' = marker
        BY <3>1, <3>3, Zenon
      <3>4. QED
        BY <3>1, <3>2, <3>3
    <2>2. InstallTypes' /\ InstallPoints' /\ InstallRest'
      <3>1. InstallTypes' /\ InstallRest'
        BY <1>0, <2>0, <2>1 DEF InstallTypes, InstallRest
      <3>2. InstallPoints'
        BY <1>0, <2>0 DEF InstallPoints
      <3>3. QED
        BY <3>1, <3>2
    <2>3. Downloads'
      BY <2>0, DownloadsKept DEF Busy
    <2>4. Markers'
      BY <1>0, <2>0, <2>1 DEF Markers, Restaging, Install!RestageToCome
    <2>5. QED
      BY <2>2, <2>3, <2>4, InstallTypedLater DEF InstallInv
  <1>3. CASE Install!PkexecStaged(u)
    <2>0. /\ update_at' \in [Updaters -> UpdatePoints]
          /\ update_at'[u] \in {"idle", "off"}
          /\ \A w \in Updaters : w # u => update_at'[w] = update_at[w]
          /\ info' \in [Updaters -> 1 .. Newest \cup {0}]
          /\ runs' \in [Updaters -> 1 .. Newest]
          /\ \A w \in Updaters : w # u => info'[w] = info[w]
          /\ update_at[u] = "install" /\ info[u] \in 1 .. Newest
          /\ kind = "Package" /\ Install!Remove(u) /\ fd[u] = "nowhere"
          /\ app' = [release |-> info[u], whole |-> TRUE]
          /\ UNCHANGED <<kind, latest, staged, marker, shared, forgotten>>
      BY <1>0, <1>3, UpdateDone DEF Install!PkexecStaged, InstallPoints
    <2>1. app' \in [release : 1 .. Newest, whole : BOOLEAN] /\ app'.whole
      BY <2>0
    <2>2. InstallTypes' /\ InstallPoints' /\ InstallRest'
      <3>1. InstallTypes'
        BY <1>0, <2>0, <2>1, UpdateRemove DEF InstallTypes
      <3>2. InstallPoints'
        <4>1. /\ fd'[u] = "nowhere"
              /\ \A w \in Updaters : w # u =>
                   (fd'[w] = "nowhere" <=> fd[w] = "nowhere")
          BY <1>0, <2>0, UpdateRemove
        <4>2. ASSUME NEW w \in Updaters
              PROVE  /\ update_at'[w] \in {"download", "curl", "verify", "install",
                                           "mark"} => info'[w] \in 1 .. Newest
                     /\ fd'[w] = "nowhere" <=> update_at'[w] # "curl"
          BY <1>0, <2>0, <4>1 DEF InstallPoints
        <4>3. QED
          BY <4>2 DEF InstallPoints
      <3>3. InstallRest'
        BY <1>0, <2>0 DEF InstallRest
      <3>4. QED
        BY <3>1, <3>2, <3>3
    <2>3. Downloads'
      <3>1. Written' => Written
        BY <1>0, <2>0, UpdateRemove DEF Written
      <3>2. QED
        BY <1>0, <2>0, <2>1, <3>1
           DEF Downloads, Verified, Overwritten, Install!WholeApp
    <2>4. Markers'
      BY <1>0, <2>0 DEF Markers, Restaging, Install!RestageToCome
    <2>5. QED
      BY <2>2, <2>3, <2>4, InstallTypedLater DEF InstallInv
  <1>4. QED
    BY <1>1, <1>2, <1>3


\* The refresh of the staged daemon.
LEMMA InstallRestages ==
    ASSUME InstallInv, NEW u \in Updaters,
           \/ Install!Restage(u) \/ Install!RestageFails(u) \/ Install!Clear(u)
           \/ Install!EnableDaemon(u)
    PROVE  InstallInv'
  <1> USE DEF Install!files, Install!history
  <1>0. InstallTypes /\ InstallPoints /\ InstallRest /\ Markers
    BY InstallTyped DEF InstallInv
  <1> DEFINE next == IF Install!Restage(u) THEN "clear" ELSE "idle"
  <1>1. CASE ~Install!EnableDaemon(u)
    <2>0. /\ next \in {"idle", "clear"} /\ Install!Goto(u, next)
          /\ next = "clear" => Install!Restage(u)
          /\ update_at[u] \in {"restage", "clear"}
          /\ UNCHANGED <<kind, latest, app, file, fd, orphans, runs, info, shared>>
      BY <1>1 DEF Install!Restage, Install!RestageFails, Install!Clear
    <2> HIDE DEF next
    <2>1. /\ update_at' \in [Updaters -> UpdatePoints] /\ update_at'[u] = next
          /\ \A w \in Updaters : w # u => update_at'[w] = update_at[w]
      BY <1>0, <2>0, UpdateGoto DEF UpdatePoints
    <2>2. /\ staged' \in 1 .. Newest \cup {0}
          /\ marker' \in BOOLEAN /\ forgotten' \in BOOLEAN
      <3>1. CASE Install!Restage(u)
        BY <1>0, <3>1 DEF Install!Restage, InstallTypes, InstallRest
      <3>2. CASE Install!RestageFails(u)
        BY <1>0, <3>2 DEF Install!RestageFails, InstallRest
      <3>3. CASE Install!Clear(u)
        BY <1>0, <3>3 DEF Install!Clear, InstallRest
      <3>4. QED
        BY <1>1, <3>1, <3>2, <3>3
    <2>3. InstallTypes' /\ InstallPoints' /\ InstallRest'
      BY <1>0, <2>0, <2>1, <2>2 DEF InstallTypes, InstallPoints, InstallRest
    <2>4. Downloads'
      BY <2>0, <2>1, DownloadsKept DEF Busy
    <2>5. Restaging'
      <3>1. u = Window
        BY <1>0, <2>0 DEF Markers, Restaging
      <3>2. \A w \in Updaters : w # u => update_at'[w] \notin {"restage", "clear"}
        BY <1>0, <2>1, <3>1 DEF Markers, Restaging
      <3>3. staged' # 0
        <4>1. CASE Install!Restage(u)
          BY <1>0, <4>1 DEF Install!Restage, InstallTypes
        <4>2. CASE Install!RestageFails(u) \/ Install!Clear(u)
          BY <1>0, <2>0, <4>2
             DEF Install!RestageFails, Install!Clear, Markers, Restaging
        <4>3. QED
          BY <1>1, <4>1, <4>2
      <3>4. QED
        BY <2>0, <2>1, <3>1, <3>2, <3>3 DEF Restaging
    <2>6. Install!RestageToCome'
      <3>1. CASE Install!Restage(u)
        <4>1. /\ update_at[u] = "restage" /\ staged' = runs[u] /\ marker' = marker
              /\ forgotten' = (forgotten /\ runs[u] # app.release)
          BY <3>1 DEF Install!Restage
        <4>2. ~forgotten => marker
          BY <1>0, <4>1 DEF Markers, Restaging
        <4>3. QED
          BY <2>0, <4>1, <4>2 DEF Install!RestageToCome
      <3>2. CASE Install!RestageFails(u)
        <4>1. /\ update_at[u] = "restage"
              /\ UNCHANGED <<staged, marker, forgotten>>
          BY <3>2 DEF Install!RestageFails, Install!history
        <4>2. QED
          BY <1>0, <2>0, <2>1, <4>1 DEF Markers, Install!RestageToCome
      <3>3. CASE Install!Clear(u)
        <4>1. /\ staged' = staged
              /\ forgotten' = (forgotten \/ staged # runs[u] \/ runs[u] # app.release)
          BY <3>3 DEF Install!Clear
        <4>2. QED
          BY <2>0, <4>1 DEF Install!RestageToCome
      <3>4. QED
        BY <1>1, <3>1, <3>2, <3>3
    <2>7. QED
      BY <2>3, <2>4, <2>5, <2>6, InstallTypedLater DEF InstallInv, Markers
  <1>2. CASE Install!EnableDaemon(u)
    <2>0. /\ UNCHANGED <<kind, latest, app, file, fd, orphans, update_at, runs,
                         info, marker, shared>>
          /\ staged' = runs[u] /\ runs[u] \in 1 .. Newest
          /\ u = Window /\ update_at[u] = "idle"
          /\ forgotten' = (forgotten \/ (runs[u] # app.release /\ ~marker))
      BY <1>0, <1>2 DEF Install!EnableDaemon, InstallTypes
    <2>1. InstallTypes' /\ InstallPoints' /\ InstallRest'
      BY <1>0, <2>0 DEF InstallTypes, InstallPoints, InstallRest
    <2>2. Downloads'
      BY <2>0, DownloadsKept
    <2>3. Restaging' /\ Install!RestageToCome'
      BY <1>0, <2>0 DEF Markers, Restaging, Install!RestageToCome
    <2>4. QED
      BY <2>1, <2>2, <2>3, InstallTypedLater DEF InstallInv, Markers
  <1>3. QED
    BY <1>1, <1>2

\* A process starts.
LEMMA InstallStart ==
    ASSUME InstallInv, NEW u \in Updaters, Install!Start(u)
    PROVE  InstallInv'
  <1> USE DEF Install!files, Install!history
  <1>0. InstallTypes /\ InstallPoints /\ InstallRest /\ Markers
    BY InstallTyped DEF InstallInv
  <1>1. PICK looks \in IF u = Window THEN BOOLEAN ELSE {FALSE} :
          /\ Install!Goto(u, IF looks /\ marker /\ staged # 0 THEN "restage" ELSE "idle")
          /\ marker' = (marker /\ (looks => staged # 0))
    BY DEF Install!Start
  <1>2. PICK p \in {"restage", "idle"} :
          Install!Goto(u, p) /\ (p = "restage" => u = Window /\ marker /\ staged # 0)
    BY <1>1
  <1>3. /\ update_at' \in [Updaters -> UpdatePoints] /\ update_at'[u] = p
        /\ \A w \in Updaters : w # u => update_at'[w] = update_at[w]
        /\ info' \in [Updaters -> 1 .. Newest \cup {0}]
        /\ runs' \in [Updaters -> 1 .. Newest]
        /\ \A w \in Updaters : w # u => info'[w] = info[w]
        /\ update_at[u] = "off" /\ fd[u] = "nowhere"
        /\ UNCHANGED <<kind, latest, app, file, fd, orphans, staged, shared,
                       forgotten>>
    <2>1. app.release \in 1 .. Newest
      BY <1>0 DEF InstallTypes
    <2>2. update_at[u] = "off" /\ fd[u] = "nowhere"
      BY <1>0 DEF Install!Start, InstallPoints
    <2>3. QED
      BY <1>0, <1>2, <2>1, <2>2, UpdateGoto
         DEF Install!Start, InstallTypes, UpdatePoints
  <1>4. marker' \in BOOLEAN /\ (marker /\ staged # 0 => marker')
    <2>1. marker \in BOOLEAN
      BY <1>0 DEF InstallRest
    <2>2. QED
      BY <1>1, <2>1
  <1>5. InstallTypes' /\ InstallRest'
    BY <1>0, <1>3, <1>4 DEF InstallTypes, InstallRest
  <1>6. InstallPoints'
    BY <1>0, <1>2, <1>3 DEF InstallPoints
  <1>7. Downloads'
    BY <1>2, <1>3, DownloadsKept DEF Busy
  <1>8. Restaging'
    <2>1. ASSUME NEW w \in Updaters, update_at'[w] \in {"restage", "clear"}
          PROVE  /\ w = Window /\ staged' # 0
                 /\ update_at'[w] = "restage" /\ ~forgotten' => marker'
      <3>1. CASE w = u
        BY <1>2, <1>3, <1>4, <2>1, <3>1
      <3>2. CASE w # u
        <4>1. /\ update_at[w] = update_at'[w] /\ w = Window /\ staged # 0
              /\ (update_at[w] = "restage" /\ ~forgotten => marker)
          BY <1>0, <1>3, <2>1, <3>2 DEF Markers, Restaging
        <4>2. marker' = marker
          <5>1. looks = FALSE /\ marker \in BOOLEAN
            BY <1>0, <1>1, <3>2, <4>1 DEF InstallRest
          <5>2. QED
            BY <1>1, <5>1
        <4>3. QED
          BY <1>3, <4>1, <4>2
      <3>3. QED
        BY <3>1, <3>2
    <2>2. QED
      BY <2>1 DEF Restaging
  <1>9. Install!RestageToCome'
    BY <1>0, <1>2, <1>3, <1>4 DEF Markers, Install!RestageToCome
  <1>10. QED
    BY <1>5, <1>6, <1>7, <1>8, <1>9, InstallTypedLater DEF InstallInv, Markers

\* A process ends, and may leave children.
LEMMA InstallQuit ==
    ASSUME InstallInv, NEW u \in Updaters, Install!Quit(u)
    PROVE  InstallInv'
  <1> USE DEF Install!files, Install!history
  <1>0. InstallTypes /\ InstallPoints /\ InstallRest /\ Downloads /\ Markers
    BY InstallTyped DEF InstallInv
  <1>1. /\ update_at' \in [Updaters -> UpdatePoints] /\ update_at'[u] = "off"
        /\ \A w \in Updaters : w # u => update_at'[w] = update_at[w]
        /\ info' \in [Updaters -> 1 .. Newest \cup {0}]
        /\ runs' \in [Updaters -> 1 .. Newest]
        /\ \A w \in Updaters : w # u => info'[w] = info[w]
        /\ fd' \in [Updaters -> FilePlaces] /\ fd'[u] = "nowhere"
        /\ \A w \in Updaters : w # u => fd'[w] = fd[w]
        /\ forgotten' = (forgotten \/ (update_at[u] = "mark" /\ ~marker))
        /\ UNCHANGED <<kind, latest, app, file, staged, marker, shared>>
    <2>1. 1 \in 1 .. Newest
      BY UpdateAssumption
    <2>2. QED
      BY <1>0, <2>1, UpdateGoto
         DEF Install!Quit, Install!Nowhere, InstallTypes, FilePlaces, UpdatePoints
  <1>2. orphans' \subseteq orphans \cup Install!Left(u)
    BY DEF Install!Quit
  <1>3. Install!Left(u) \subseteq Install!Orphans
    BY DEF Install!Left
  <1>4. forgotten' \in BOOLEAN
    <2>1. forgotten \in BOOLEAN
      BY <1>0 DEF InstallRest
    <2>2. QED
      BY <1>1, <2>1
  <1>5. InstallTypes' /\ InstallRest'
    BY <1>0, <1>1, <1>2, <1>3, <1>4 DEF InstallTypes, InstallRest
  <1>6. InstallPoints'
    BY <1>0, <1>1 DEF InstallPoints
  <1>7. \A r \in 1 .. Newest, place \in {"download", "app"} :
          <<r, place>> \in orphans' =>
            <<r, place>> \in orphans \/ (info[u] = r /\ fd[u] = place)
    BY <1>2 DEF Install!Left
  <1>8. Downloads'
    <2>1. ASSUME NEW w \in Updaters, update_at'[w] \in Busy, kind' = "AppImage",
                 info'[w] \notin shared'
          PROVE  Alone(w)' /\ (update_at'[w] = "install" => file'[info'[w]] # "growing")
      <3>1. w # u /\ update_at[w] \in Busy /\ info[w] \in 1 .. Newest
        BY <1>0, <1>1, <2>1 DEF InstallPoints, Busy
      <3>2. Alone(w) /\ (update_at[w] = "install" => file[info[w]] # "growing")
        BY <1>0, <1>1, <2>1, <3>1 DEF Downloads, Verified
      <3>3. Alone(w)'
        BY <1>1, <1>7, <3>1, <3>2 DEF Alone
      <3>4. QED
        BY <1>1, <3>1, <3>2, <3>3
    <2>2. Written' => Written
      BY <1>1, <1>7 DEF Written
    <2>3. QED
      BY <1>0, <1>1, <2>1, <2>2
         DEF Downloads, Verified, Overwritten, Install!WholeApp
  <1>9. Restaging' /\ Install!RestageToCome'
    BY <1>0, <1>1 DEF Markers, Restaging, Install!RestageToCome
  <1>10. QED
    BY <1>5, <1>6, <1>8, <1>9, InstallTypedLater DEF InstallInv, Markers


\* Children nobody waits for.
LEMMA InstallOrphans ==
    ASSUME InstallInv, Install!Orphan
    PROVE  InstallInv'
  <1> USE DEF Install!files, Install!history
  <1>0. InstallTypes /\ InstallPoints /\ InstallRest /\ Downloads /\ Markers
    BY InstallTyped DEF InstallInv
  <1>1. ASSUME NEW r \in 1 .. Newest, Install!OrphanOpens(r)
        PROVE  InstallInv'
    <2>0. /\ <<r, "start">> \in orphans /\ Install!Opens(r, {})
          /\ orphans' = (orphans \ {<<r, "start">>}) \cup {<<r, "download">>}
          /\ UNCHANGED <<kind, latest, app, fd, update_at, runs, info, staged,
                         marker, forgotten>>
      BY <1>1 DEF Install!OrphanOpens
    <2>1. Downloads' /\ shared' \subseteq 1 .. Newest
          /\ file' \in [1 .. Newest -> {"absent", "growing", "whole"}]
      <3> DEFINE S == {}
      <3>1. /\ S \in SUBSET Updaters /\ Install!Opens(r, S)
            /\ \A w \in S : /\ update_at[w] = "curl" /\ info[w] = r
                            /\ \A v \in S : v = w
            /\ S # {} => orphans' = orphans
            /\ \A w \in Updaters :
                  /\ fd'[w] = "download" => fd[w] = "download" \/ w \in S
                  /\ fd'[w] = "app" => fd[w] = "app"
            /\ \A o \in orphans' : o \in orphans \/ o = <<r, "download">>
        BY <2>0
      <3> HIDE DEF S
      <3>2. QED
        BY <2>0, <3>1, DownloadsOpened
    <2>2. orphans' \subseteq Install!Orphans
      BY <1>0, <2>0 DEF InstallTypes, Install!Orphans, Install!Releases
    <2>3. InstallTypes' /\ InstallPoints' /\ InstallRest'
      BY <1>0, <2>0, <2>1, <2>2 DEF InstallTypes, InstallPoints, InstallRest
    <2>4. Markers'
      BY <2>0, MarkersKept
    <2>5. QED
      BY <2>1, <2>3, <2>4, InstallTypedLater DEF InstallInv
  <1>2. ASSUME NEW o \in orphans, Install!OrphanRetries(o)
        PROVE  InstallInv'
    <2>a. o \in (1 .. Newest) \X {"start", "download", "app", "pkexec"}
      BY <1>0 DEF InstallTypes, Install!Orphans, Install!Releases
    <2>b. o[1] \in 1 .. Newest /\ o = <<o[1], o[2]>>
      BY <2>a
    <2>c. <<o[1], o[2]>> \in orphans
      BY <2>b
    <2>d. /\ o[2] \in {"download", "app"}
          /\ Install!Writes(o[1], o[2], FALSE)
          /\ UNCHANGED <<kind, latest, fd, orphans, update_at, runs, info, staged,
                         marker, shared, forgotten>>
      BY <1>2 DEF Install!OrphanRetries
    <2>0. /\ o[1] \in 1 .. Newest /\ o[2] \in {"download", "app"}
          /\ <<o[1], o[2]>> \in orphans
          /\ Install!Writes(o[1], o[2], FALSE)
          /\ UNCHANGED <<kind, latest, fd, orphans, update_at, runs, info, staged,
                         marker, shared, forgotten>>
      BY <2>b, <2>c, <2>d
    <2>1. Downloads'
      BY <2>0, DownloadsRetried
    <2>2. InstallTypes' /\ InstallPoints' /\ InstallRest'
      BY <1>0, <2>0, UpdateWrites DEF InstallTypes, InstallPoints, InstallRest
    <2>3. Markers'
      BY <1>0, <2>0, UpdateWrites, MarkersKept
    <2>4. QED
      BY <2>1, <2>2, <2>3, InstallTypedLater DEF InstallInv
  <1>3. ASSUME NEW o \in orphans, Install!OrphanEnds(o)
        PROVE  InstallInv'
    <2>0. /\ o[1] \in 1 .. Newest /\ orphans' \subseteq orphans
          /\ UNCHANGED <<file, app>> \/ Install!Writes(o[1], o[2], TRUE)
          /\ UNCHANGED <<kind, latest, fd, update_at, runs, info, staged, marker,
                         shared, forgotten>>
      BY <1>0, <1>3 DEF Install!OrphanEnds, InstallTypes, Install!Orphans,
                        Install!Releases
    <2>1. /\ file' \in [1 .. Newest -> {"absent", "growing", "whole"}]
          /\ \A q \in 1 .. Newest : file'[q] \in {file[q], "whole"}
          /\ app' \in [release : 1 .. Newest, whole : BOOLEAN]
          /\ app'.release = app.release /\ (app.whole => app'.whole)
      <3>1. CASE UNCHANGED <<file, app>>
        BY <1>0, <3>1 DEF InstallTypes
      <3>2. CASE Install!Writes(o[1], o[2], TRUE)
        BY <1>0, <2>0, <3>2, UpdateWrites
      <3>3. QED
        BY <2>0, <3>1, <3>2
    <2>2. Downloads'
      BY <2>0, <2>1, DownloadsKept
    <2>3. InstallTypes' /\ InstallPoints' /\ InstallRest'
      BY <1>0, <2>0, <2>1 DEF InstallTypes, InstallPoints, InstallRest
    <2>4. Markers'
      BY <2>0, <2>1, MarkersKept
    <2>5. QED
      BY <2>2, <2>3, <2>4, InstallTypedLater DEF InstallInv
  <1>4. ASSUME NEW r \in 1 .. Newest, Install!OrphanInstalls(r)
        PROVE  InstallInv'
    <2>0. /\ kind = "Package" /\ orphans' \subseteq orphans
          /\ app' = [release |-> r, whole |-> TRUE]
          /\ UNCHANGED <<kind, latest, file, fd, update_at, runs, info, staged,
                         marker, shared, forgotten>>
      BY <1>4 DEF Install!OrphanInstalls
    <2>1. app' \in [release : 1 .. Newest, whole : BOOLEAN] /\ app'.whole
      BY <2>0
    <2>2. InstallTypes' /\ InstallPoints' /\ InstallRest'
      BY <1>0, <2>0, <2>1 DEF InstallTypes, InstallPoints, InstallRest
    <2>3. Downloads'
      BY <1>0, <2>0, <2>1
         DEF Downloads, Verified, Overwritten, Written, Install!WholeApp
    <2>4. Markers'
      BY <1>0, <2>0 DEF Markers, Restaging, Install!RestageToCome
    <2>5. QED
      BY <2>2, <2>3, <2>4, InstallTypedLater DEF InstallInv
  <1>5. ASSUME NEW r \in 1 .. Newest, Install!OrphanRestages(r)
        PROVE  InstallInv'
    <2>0. /\ orphans' \subseteq orphans /\ staged' = r
          /\ forgotten' = (forgotten \/ r # app.release)
          /\ UNCHANGED <<kind, latest, app, file, fd, update_at, runs, info,
                         marker, shared>>
      BY <1>5 DEF Install!OrphanRestages
    <2>1. InstallTypes' /\ InstallPoints' /\ InstallRest'
      BY <1>0, <2>0 DEF InstallTypes, InstallPoints, InstallRest
    <2>2. Downloads'
      BY <2>0, DownloadsKept
    <2>3. Restaging'
      <3>1. staged' # 0
        BY <2>0
      <3>2. ~forgotten' => ~forgotten
        BY <2>0
      <3>3. QED
        BY <1>0, <2>0, <3>1, <3>2 DEF Markers, Restaging
    <2>a. Install!RestageToCome'
      BY <2>0 DEF Install!RestageToCome
    <2>4. QED
      BY <2>1, <2>2, <2>3, <2>a, InstallTypedLater DEF InstallInv, Markers
  <1>6. QED
    BY <1>1, <1>2, <1>3, <1>4, <1>5 DEF Install!Orphan, Install!Releases

\* Releases, and what is done to the AppImage from outside.
LEMMA InstallOutside ==
    ASSUME InstallInv,
           Install!NewRelease \/ Install!StartOther \/ Install!Reinstall
    PROVE  InstallInv'
  <1> USE DEF Install!files, Install!history
  <1>0. InstallTypes /\ InstallPoints /\ InstallRest /\ Downloads /\ Markers
    BY InstallTyped DEF InstallInv
  <1>1. CASE Install!NewRelease
    <2>0. latest' \in 1 .. Newest
      BY <1>0, <1>1, UpdateAssumption DEF Install!NewRelease, InstallRest
    <2>1. InstallTypes' /\ InstallPoints' /\ InstallRest'
      BY <1>0, <1>1, <2>0
         DEF Install!NewRelease, InstallTypes, InstallPoints, InstallRest
    <2>2. Downloads'
      BY <1>1, DownloadsKept DEF Install!NewRelease
    <2>3. Markers'
      BY <1>1, MarkersKept DEF Install!NewRelease
    <2>4. QED
      BY <2>1, <2>2, <2>3, InstallTypedLater DEF InstallInv
  <1>2. CASE Install!StartOther
    <2>0. /\ marker' = FALSE /\ forgotten' = (forgotten \/ staged # 0)
          /\ UNCHANGED <<kind, latest, app, file, fd, orphans, update_at, runs,
                         info, staged, shared>>
      BY <1>2 DEF Install!StartOther
    <2>1. InstallTypes' /\ InstallPoints' /\ InstallRest'
      BY <1>0, <2>0 DEF InstallTypes, InstallPoints, InstallRest
    <2>2. Downloads'
      BY <2>0, DownloadsKept
    <2>3. Restaging'
      <3>1. CASE staged # 0
        BY <1>0, <2>0, <3>1 DEF InstallPoints, Markers, Restaging
      <3>2. CASE staged = 0
        BY <1>0, <2>0, <3>2 DEF InstallPoints, Markers, Restaging
      <3>3. QED
        BY <3>1, <3>2
    <2>a. Install!RestageToCome'
      BY <1>0, <2>0 DEF Markers, Install!RestageToCome
    <2>4. QED
      BY <2>1, <2>2, <2>3, <2>a, InstallTypedLater DEF InstallInv, Markers
  <1>3. CASE Install!Reinstall
    <2>0. /\ app' \in [release : app.release .. Newest, whole : {TRUE}]
          /\ fd' = [w \in Updaters |-> IF fd[w] = "app" THEN "gone" ELSE fd[w]]
          /\ orphans' = {o \in orphans : o[2] # "app"}
          /\ forgotten' = TRUE
          /\ UNCHANGED <<kind, latest, file, update_at, runs, info, staged, marker,
                         shared>>
      BY <1>3 DEF Install!Reinstall
    <2>1. app' \in [release : 1 .. Newest, whole : BOOLEAN] /\ app'.whole
      <3>1. app.release \in 1 .. Newest
        BY <1>0 DEF InstallTypes
      <3>2. PICK r \in app.release .. Newest : app' = [release |-> r, whole |-> TRUE]
        BY <2>0
      <3>3. r \in 1 .. Newest
        BY <3>1, <3>2, UpdateAssumption
      <3>4. QED
        BY <3>2, <3>3
    <2>2. /\ fd' \in [Updaters -> FilePlaces] /\ orphans' \subseteq orphans
          /\ \A w \in Updaters : /\ fd'[w] = "nowhere" <=> fd[w] = "nowhere"
                                 /\ fd'[w] = "download" => fd[w] = "download"
      BY <1>0, <2>0 DEF InstallTypes, FilePlaces
    <2>3. InstallTypes' /\ InstallPoints' /\ InstallRest'
      BY <1>0, <2>0, <2>1, <2>2 DEF InstallTypes, InstallPoints, InstallRest
    <2>4. ~Written'
      BY <2>0 DEF Written, InstallTypes
    <2>5. \A w \in Updaters : Alone(w) => Alone(w)'
      BY <2>0, <2>2 DEF Alone
    <2>6. Downloads'
      <3>1. Verified'
        BY <1>0, <2>0, <2>5 DEF Downloads, Verified
      <3>2. QED
        BY <2>1, <2>4, <3>1 DEF Downloads, Overwritten, Install!WholeApp
    <2>7. Markers'
      BY <1>0, <2>0 DEF Markers, Restaging, Install!RestageToCome
    <2>8. QED
      BY <2>3, <2>6, <2>7, InstallTypedLater DEF InstallInv
  <1>4. QED
    BY <1>1, <1>2, <1>3

\* Every step keeps all of it.
LEMMA InstallNext ==
    InstallInv /\ [Install!Next]_(Install!vars) => InstallInv'
  <1> SUFFICES ASSUME InstallInv, [Install!Next]_(Install!vars) PROVE InstallInv'
    OBVIOUS
  <1>1. CASE UNCHANGED Install!vars
    <2>0. UNCHANGED <<kind, latest, app, file, fd, orphans, update_at, runs, info,
                      staged, marker, shared, forgotten>>
      BY <1>1 DEF Install!vars, Install!files, Install!history
    <2>1. InstallTypes' /\ InstallPoints' /\ InstallRest'
      BY <2>0, InstallTyped
         DEF InstallInv, InstallTypes, InstallPoints, InstallRest
    <2>2. Downloads' /\ Markers'
      BY <2>0, DownloadsKept, MarkersKept
    <2>3. QED
      BY <2>1, <2>2, InstallTypedLater DEF InstallInv
  <1>2. QED
    BY <1>1, InstallAsks, InstallCurl, InstallPlaces, InstallRestages,
       InstallStart, InstallQuit, InstallOrphans, InstallOutside
       DEF Install!Next, Install!Update

\* It holds at the start.
LEMMA InstallInit == Install!Init => InstallInv
  <1> SUFFICES ASSUME Install!Init PROVE InstallInv
    OBVIOUS
  <1>0. 1 \in 1 .. Newest
    BY UpdateAssumption
  <1>1. /\ app \in [release : 1 .. Newest, whole : BOOLEAN] /\ app.whole
        /\ staged \in {0, app.release} /\ app.release \in 1 .. Newest
    <2>1. PICK r \in 1 .. Newest : app = [release |-> r, whole |-> TRUE]
      BY DEF Install!Init, Install!Releases
    <2>2. QED
      BY <2>1 DEF Install!Init
  <1>2. InstallTypes
    BY <1>0, <1>1 DEF Install!Init, InstallTypes, Install!Releases,
       Install!Nowhere, UpdatePoints, FilePlaces
  <1>3. InstallPoints /\ InstallRest
    BY <1>0, <1>1 DEF Install!Init, InstallPoints, InstallRest,
       Install!Releases, Install!Nowhere
  <1>4. Downloads
    BY <1>1 DEF Install!Init, Downloads, Verified, Overwritten, Written, Busy,
       Install!WholeApp, Install!Nowhere
  <1>5. Markers
    BY <1>1 DEF Install!Init, Markers, Restaging, Install!RestageToCome
  <1>6. QED
    BY <1>2, <1>3, <1>4, <1>5, InstallTyped DEF InstallInv
-----------------------------------------------------------------------------
(***************************************************************************)
(* The reported id (MachineId): a known id stays tied to the machine.      *)
(***************************************************************************)

\* The files, the settings and the processes hold x, the derived id, or none.
OneId(x) ==
    /\ shared_id.id \in {x, Hw, NoId} /\ parked \in {x, NoId}
    /\ settings_id \in {x, Hw, NoId} /\ reported \subseteq {x, Hw}
    /\ \A p \in Roots : /\ mine[p] \in {x, Hw, NoId}
                        /\ res[p].previous \in {x, NoId}
                        /\ previous[p] \in {x, NoId}
    /\ shared_id.id = Hw <=> shared_id.source = "hardware"

\* Before the hardware tells its id, nothing holds it, and nothing is parked.
NotDerived ==
    ~derivable =>
        /\ shared_id.id # Hw /\ settings_id # Hw /\ parked = NoId /\ linked = {}
        /\ \A p \in Roots : /\ mine[p] # Hw /\ previous[p] = NoId
                            /\ res[p].previous = NoId

\* What a process has read and resolved fits what it has still to do.
Resolved(x, p) ==
    /\ report_at[p] \in {"rest", "read"} => res[p] = Reports!Unresolved
    /\ report_at[p] = "rest" => mine[p] = NoId
    /\ report_at[p] \notin {"rest", "read"} =>
           res[p].id = IF derivable THEN Hw ELSE x
    /\ report_at[p] \notin {"rest", "read"} /\ res[p].write_shared # "no" =>
           (res[p].id = Hw <=> res[p].write_shared = "hardware")
    /\ mine[p] # NoId => settings_id # NoId
    /\ mine[p] = Hw => settings_id = Hw
    /\ derivable /\ report_at[p] # "rest" /\ mine[p] = NoId => settings_id # x
    /\ report_at[p] \in {"collect", "send", "consume"} =>
           settings_id = res[p].id

\* x was told to the collector, or waits to be.
Kept(x) == x \in linked \/ x = parked

\* A process that is about to write over the last mention of x has it kept.
KeptBy(x, p) ==
    /\ /\ report_at[p] \in {"publish", "adopt"}
       /\ res[p].previous # NoId
       => Kept(x)
    /\ /\ report_at[p] \in {"park", "publish", "adopt"}
       /\ res[p].previous = NoId /\ derivable /\ x \in reported
       => Kept(x)
    /\ report_at[p] = "consume" => previous[p] = x /\ x \in linked

Tied(x) ==
    /\ OneId(x) /\ NotDerived
    /\ \A p \in Roots : Resolved(x, p) /\ KeptBy(x, p)
    /\ shared_id.id = Hw /\ x \in reported => Kept(x)
    /\ x \in reported => Kept(x) \/ x \in {settings_id, shared_id.id}

ReportSteps == {"rest", "read", "park", "publish", "adopt", "collect", "send",
          "consume"}
Holding == Reports!AnyId \cup {NoId}
Resolutions == [id : Holding, write_shared : Reports!Sources \cup {"no"},
                previous : Ids \cup {NoId}]
SharedIds == [id : Reports!AnyId, source : Reports!Sources]
                 \cup {Reports!NotShared}

\* The type invariant of MachineId, set by set.
ReportsType ==
    /\ derivable \in BOOLEAN /\ cut \in BOOLEAN
    /\ shared_id \in SharedIds
    /\ parked \in Ids \cup {NoId} /\ settings_id \in Holding
    /\ mine \in [Roots -> Holding]
    /\ report_at \in [Roots -> ReportSteps]
    /\ res \in [Roots -> Resolutions]
    /\ \A p \in Roots : report_at[p] \in {"rest", "read"} \/ res[p].id # NoId
    /\ previous \in [Roots -> Ids \cup {NoId}]
    /\ minted \subseteq Ids /\ reported \subseteq Reports!AnyId
    /\ linked \subseteq Ids

ReportsInv == ReportsType /\ (~cut => \E x \in Ids : Tied(x))

LEMMA ReportsTypes == Reports!TypeOK <=> ReportsType
  BY DEF Reports!TypeOK, ReportsType, SharedIds, Holding, ReportSteps,
     Resolutions

LEMMA IdsAre ==
    /\ Hw \in Reports!AnyId /\ Ids \subseteq Reports!AnyId
    /\ Reports!AnyId \subseteq Holding /\ NoId \in Holding
    /\ NoId \notin Reports!AnyId /\ Hw # NoId
    /\ Reports!Unresolved \in Resolutions
    /\ Reports!Unresolved.previous = NoId /\ Reports!Unresolved.id = NoId
    /\ Reports!NotShared.id = NoId /\ Reports!NotShared.source = "legacy"
    /\ \A i \in Holding : i \in Ids \/ i = Hw \/ i = NoId
    /\ \A i \in Holding, s \in Reports!Sources \cup {"no"}, o \in Ids \cup {NoId} :
         LET r == Reports!Resolution(i, s, o) IN
           /\ r \in Resolutions
           /\ r.id = i /\ r.write_shared = s /\ r.previous = o
  BY ReportsAssumption DEF Reports!AnyId, Holding, Resolutions,
     Reports!Unresolved, Reports!Resolution, Reports!NotShared, Reports!Sources

LEMMA ReportsGoto ==
    ASSUME report_at \in [Roots -> ReportSteps], NEW p \in Roots, NEW s \in ReportSteps,
           Reports!Goto(p, s)
    PROVE  /\ report_at' \in [Roots -> ReportSteps] /\ report_at'[p] = s
           /\ \A q \in Roots : q # p => report_at'[q] = report_at[q]
  BY DEF Reports!Goto

\* After Rest a process holds nothing, and the others what they held.
LEMMA ReportsRest ==
    ASSUME ReportsType, NEW p \in Roots, Reports!Rest(p)
    PROVE  /\ report_at' \in [Roots -> ReportSteps] /\ report_at'[p] = "rest"
           /\ mine' \in [Roots -> Holding] /\ mine'[p] = NoId
           /\ res' \in [Roots -> Resolutions] /\ res'[p] = Reports!Unresolved
           /\ previous' \in [Roots -> Ids \cup {NoId}] /\ previous'[p] = NoId
           /\ \A q \in Roots : q # p =>
                /\ report_at'[q] = report_at[q] /\ mine'[q] = mine[q]
                /\ res'[q] = res[q] /\ previous'[q] = previous[q]
  <1> USE IdsAre DEF Reports!Rest, ReportsType
  <1>1. /\ report_at' \in [Roots -> ReportSteps] /\ report_at'[p] = "rest"
        /\ \A q \in Roots : q # p => report_at'[q] = report_at[q]
    BY ReportsGoto DEF ReportSteps
  <1>2. /\ mine' \in [Roots -> Holding] /\ mine'[p] = NoId
        /\ \A q \in Roots : q # p => mine'[q] = mine[q]
    OBVIOUS
  <1>3. /\ res' \in [Roots -> Resolutions] /\ res'[p] = Reports!Unresolved
        /\ \A q \in Roots : q # p => res'[q] = res[q]
    OBVIOUS
  <1>4. /\ previous' \in [Roots -> Ids \cup {NoId}] /\ previous'[p] = NoId
        /\ \A q \in Roots : q # p => previous'[q] = previous[q]
    OBVIOUS
  <1>5. QED
    BY <1>1, <1>2, <1>3, <1>4

\* Mint gives an id that was not used.
LEMMA Mints ==
    ASSUME ReportsType, NEW p \in Roots, Reports!Mint(p)
    PROVE  \E given \in Ids \ minted :
             /\ res' = [res EXCEPT ![p] = Reports!Resolution(given, "random", NoId)]
             /\ minted' = minted \cup {given}
             /\ cut' = (cut \/ Reports!Overtaken(p))
  <1> DEFINE f == CHOOSE id \in Ids \ minted : TRUE
  <1>1. \E id \in Ids \ minted : TRUE
    BY DEF Reports!Mint, ReportsType
  <1>2. f \in Ids \ minted
    BY <1>1
  <1>3. /\ res' = [res EXCEPT ![p] = Reports!Resolution(f, "random", NoId)]
        /\ minted' = minted \cup {f}
        /\ cut' = (cut \/ Reports!Overtaken(p))
    BY DEF Reports!Mint, Reports!Resolves
  <1> HIDE DEF f
  <1>4. QED
    BY <1>2, <1>3

\* What a process can resolve.
LEMMA Resolves ==
    ASSUME ReportsType, NEW p \in Roots, Reports!resolve(p)
    PROVE  \E r \in Resolutions :
             /\ res' = [res EXCEPT ![p] = r] /\ r.id # NoId
             /\ \/ /\ shared_id.source = "hardware" /\ UNCHANGED <<minted, cut>>
                   /\ r.id = shared_id.id /\ r.write_shared = "no"
                   /\ r.previous = NoId
                \/ /\ shared_id.source # "hardware" /\ derivable
                   /\ UNCHANGED <<minted, cut>>
                   /\ r.id = Hw /\ r.write_shared = "hardware"
                   /\ r.previous = IF Reports!old_id(p) = Hw THEN NoId
                                   ELSE Reports!old_id(p)
                \/ /\ shared_id.source # "hardware" /\ ~derivable
                   /\ UNCHANGED <<minted, cut>>
                   /\ Reports!old_id(p) # NoId /\ r.id = Reports!old_id(p)
                   /\ r.write_shared \in {"legacy", "no"} /\ r.previous = NoId
                \/ /\ shared_id.source # "hardware" /\ ~derivable
                   /\ Reports!old_id(p) = NoId
                   /\ r.id \in Ids \ minted /\ minted' = minted \cup {r.id}
                   /\ cut' \in BOOLEAN /\ (Reports!Overtaken(p) => cut')
                   /\ r.write_shared = "random" /\ r.previous = NoId
  <1> USE IdsAre DEF ReportsType
  <1>1. Reports!old_id(p) \in Holding
    BY DEF Reports!old_id, SharedIds
  <1>2. CASE shared_id.source = "hardware"
    <2> DEFINE r == Reports!Resolution(shared_id.id, "no", NoId)
    <2>1. shared_id.id \in Holding /\ shared_id.id # NoId
      BY <1>2 DEF SharedIds
    <2>2. /\ r \in Resolutions /\ r.id = shared_id.id
          /\ r.write_shared = "no" /\ r.previous = NoId
      BY <2>1 DEF Reports!Resolution, Resolutions
    <2>3. res' = [res EXCEPT ![p] = r] /\ UNCHANGED <<minted, cut>>
      BY <1>2 DEF Reports!resolve, Reports!Resolves
    <2> HIDE DEF r
    <2>4. QED
      BY <1>2, <2>1, <2>2, <2>3
  <1>3. CASE shared_id.source # "hardware" /\ derivable
    <2> DEFINE o == IF Reports!old_id(p) = Hw THEN NoId ELSE Reports!old_id(p)
               r == Reports!Resolution(Hw, "hardware", o)
    <2>1. o \in Ids \cup {NoId} /\ Hw \in Holding
      BY <1>1
    <2>2. /\ r \in Resolutions /\ r.id = Hw
          /\ r.write_shared = "hardware" /\ r.previous = o
      BY <2>1 DEF Reports!Sources
    <2>3. res' = [res EXCEPT ![p] = r] /\ UNCHANGED <<minted, cut>>
      BY <1>3 DEF Reports!resolve, Reports!Resolves
    <2> HIDE DEF r
    <2>4. QED
      BY <1>3, <2>2, <2>3
  <1>4. CASE shared_id.source # "hardware" /\ ~derivable /\ Reports!old_id(p) # NoId
    <2> DEFINE s == IF shared_id = Reports!NotShared THEN "legacy" ELSE "no"
               r == Reports!Resolution(Reports!old_id(p), s, NoId)
    <2>1. s \in {"legacy", "no"} /\ s \in Reports!Sources \cup {"no"}
      BY DEF Reports!Sources
    <2>2. /\ r \in Resolutions /\ r.id = Reports!old_id(p)
          /\ r.write_shared = s /\ r.previous = NoId
      BY <1>1, <2>1
    <2>3. res' = [res EXCEPT ![p] = r] /\ UNCHANGED <<minted, cut>>
      BY <1>4 DEF Reports!resolve, Reports!Resolves
    <2> HIDE DEF r, s
    <2>4. QED
      BY <1>4, <2>1, <2>2, <2>3
  <1>5. CASE shared_id.source # "hardware" /\ ~derivable /\ Reports!old_id(p) = NoId
    <2>1. Reports!Mint(p)
      BY <1>5 DEF Reports!resolve
    <2>2. PICK given \in Ids \ minted :
            /\ res' = [res EXCEPT ![p] = Reports!Resolution(given, "random", NoId)]
            /\ minted' = minted \cup {given}
            /\ cut' = (cut \/ Reports!Overtaken(p))
      BY <2>1, Mints
    <2> DEFINE r == Reports!Resolution(given, "random", NoId)
    <2>3. given \in Holding /\ given # NoId
      OBVIOUS
    <2>4. /\ r \in Resolutions /\ r.id = given
          /\ r.write_shared = "random" /\ r.previous = NoId
      BY <2>3 DEF Reports!Sources
    <2>5. res' = [res EXCEPT ![p] = r]
      BY <2>2
    <2> HIDE DEF r
    <2>6. QED
      BY <1>5, <2>2, <2>3, <2>4, <2>5
  <1>6. QED
    BY <1>2, <1>3, <1>4, <1>5

LEMMA ReportsTypeNext ==
    ReportsType /\ [Reports!Next]_(Reports!vars) => ReportsType'
  <1> SUFFICES ASSUME ReportsType, [Reports!Next]_(Reports!vars)
               PROVE  ReportsType'
    OBVIOUS
  <1> USE IdsAre DEF ReportsType, Reports!store, Reports!history, Reports!locals
  <1> DEFINE Named == \A q \in Roots :
                 report_at[q] \in {"rest", "read"} \/ res[q].id # NoId
  <1>1. ASSUME NEW p \in Roots, Reports!Begin(p) PROVE ReportsType'
    <2>1. /\ report_at' \in [Roots -> ReportSteps] /\ report_at'[p] = "read"
          /\ \A q \in Roots : q # p => report_at'[q] = report_at[q]
      BY <1>1, ReportsGoto DEF Reports!Begin, ReportSteps
    <2>2. Named'
      BY <1>1, <2>1 DEF Reports!Begin
    <2>3. QED
      BY <1>1, <2>1, <2>2 DEF Reports!Begin
  <1>2. ASSUME NEW p \in Roots, Reports!resolve(p) PROVE ReportsType'
    <2>1. /\ report_at' \in [Roots -> ReportSteps] /\ report_at'[p] = "park"
          /\ \A q \in Roots : q # p => report_at'[q] = report_at[q]
      BY <1>2, ReportsGoto DEF Reports!resolve, ReportSteps
    <2>2. PICK r \in Resolutions :
            /\ res' = [res EXCEPT ![p] = r] /\ r.id # NoId
            /\ \/ UNCHANGED <<minted, cut>>
               \/ /\ r.id \in Ids \ minted /\ minted' = minted \cup {r.id}
                  /\ cut' \in BOOLEAN
      BY <1>2, Resolves
    <2>3. Named'
      BY <2>1, <2>2
    <2>4. minted' \subseteq Ids
      BY <2>2
    <2>5. cut' \in BOOLEAN
      BY <2>2
    <2>6. QED
      BY <1>2, <2>1, <2>2, <2>3, <2>4, <2>5 DEF Reports!resolve
  <1>3. ASSUME NEW p \in Roots, Reports!Park(p) PROVE ReportsType'
    <2>1. /\ report_at' \in [Roots -> ReportSteps] /\ report_at[p] = "park"
          /\ \A q \in Roots : q # p => report_at'[q] = report_at[q]
      BY <1>3, ReportsGoto DEF Reports!Park, ReportSteps
    <2>2. res[p].previous \in Ids \cup {NoId}
      BY DEF Resolutions
    <2>3. parked' \in Ids \cup {NoId}
      BY <1>3, <2>2 DEF Reports!Park
    <2>4. cut' \in BOOLEAN
      BY <1>3 DEF Reports!Park
    <2>5. Named'
      BY <1>3, <2>1 DEF Reports!Park
    <2>6. QED
      BY <1>3, <2>1, <2>3, <2>4, <2>5 DEF Reports!Park
  <1>4. ASSUME NEW p \in Roots, Reports!Publish(p) PROVE ReportsType'
    <2>1. /\ report_at' \in [Roots -> ReportSteps] /\ report_at[p] = "publish"
          /\ \A q \in Roots : q # p => report_at'[q] = report_at[q]
      BY <1>4, ReportsGoto DEF Reports!Publish, ReportSteps
    <2>2. Named'
      BY <1>4, <2>1 DEF Reports!Publish
    <2>3. res[p].write_shared # "no" =>
            [id |-> res[p].id, source |-> res[p].write_shared] \in SharedIds
      BY <2>1 DEF Resolutions, SharedIds
    <2>4. shared_id' \in SharedIds
      BY <1>4, <2>3 DEF Reports!Publish
    <2>5. QED
      BY <1>4, <2>1, <2>2, <2>4 DEF Reports!Publish
  <1>5. ASSUME NEW p \in Roots, Reports!Adopt(p) PROVE ReportsType'
    <2>1. /\ report_at' \in [Roots -> ReportSteps] /\ report_at[p] = "adopt"
          /\ \A q \in Roots : q # p => report_at'[q] = report_at[q]
      BY <1>5, ReportsGoto DEF Reports!Adopt, ReportSteps
    <2>2. Named'
      BY <1>5, <2>1 DEF Reports!Adopt
    <2>3. settings_id' \in Holding
      BY <1>5 DEF Reports!Adopt, Resolutions
    <2>4. QED
      BY <1>5, <2>1, <2>2, <2>3 DEF Reports!Adopt
  <1>6. ASSUME NEW p \in Roots, Reports!Collect(p) PROVE ReportsType'
    <2>1. /\ report_at' \in [Roots -> ReportSteps] /\ report_at[p] = "collect"
          /\ \A q \in Roots : q # p => report_at'[q] = report_at[q]
      BY <1>6, ReportsGoto DEF Reports!Collect, ReportSteps
    <2>2. Named'
      BY <1>6, <2>1 DEF Reports!Collect
    <2>3. QED
      BY <1>6, <2>1, <2>2 DEF Reports!Collect
  <1>7. ASSUME NEW p \in Roots, Reports!Rest(p) PROVE Named'
    BY <1>7, ReportsRest
  <1>8. ASSUME NEW p \in Roots, Reports!send(p) PROVE ReportsType'
    <2>1. report_at[p] = "send" /\ res[p].id \in Reports!AnyId
      BY <1>8 DEF Reports!send, Resolutions, Holding
    <2>2. previous[p] \in Ids \cup {NoId}
      OBVIOUS
    <2>3. reported' \subseteq Reports!AnyId /\ linked' \subseteq Ids
      BY <1>8, <2>1, <2>2 DEF Reports!send, Reports!Deliver
    <2>4. CASE Reports!Rest(p)
      <3>1. /\ report_at' \in [Roots -> ReportSteps] /\ mine' \in [Roots -> Holding]
            /\ res' \in [Roots -> Resolutions]
            /\ previous' \in [Roots -> Ids \cup {NoId}]
        BY <2>4, ReportsRest
      <3>2. QED
        BY <1>7, <1>8, <2>3, <2>4, <3>1 DEF Reports!send
    <2>5. CASE Reports!Goto(p, "consume") /\ UNCHANGED <<mine, res, previous>>
      <3>1. /\ report_at' \in [Roots -> ReportSteps]
            /\ \A q \in Roots : q # p => report_at'[q] = report_at[q]
        BY <2>5, ReportsGoto DEF ReportSteps
      <3>2. Named'
        BY <2>1, <2>5, <3>1
      <3>3. QED
        BY <1>8, <2>3, <2>5, <3>1, <3>2 DEF Reports!send
    <2>6. QED
      BY <1>8, <2>4, <2>5 DEF Reports!send
  <1>9. ASSUME NEW p \in Roots, Reports!clear_previous(p) \/ Reports!Kill(p)
        PROVE  ReportsType'
    <2>1. /\ report_at' \in [Roots -> ReportSteps] /\ mine' \in [Roots -> Holding]
          /\ res' \in [Roots -> Resolutions]
          /\ previous' \in [Roots -> Ids \cup {NoId}]
          /\ Named'
      BY <1>7, <1>9, ReportsRest DEF Reports!clear_previous, Reports!Kill
    <2>2. QED
      BY <1>9, <2>1 DEF Reports!clear_previous, Reports!Kill
  <1>10. CASE Reports!Reboot
    <2>1. /\ report_at' = [q \in Roots |-> "rest"]
          /\ mine' = [q \in Roots |-> NoId]
          /\ res' = [q \in Roots |-> Reports!Unresolved]
          /\ previous' = [q \in Roots |-> NoId]
      BY <1>10 DEF Reports!Reboot
    <2>2. res' \in [Roots -> Resolutions] /\ mine' \in [Roots -> Holding]
      BY <2>1
    <2>3. report_at' \in [Roots -> ReportSteps] /\ Named'
      BY <2>1 DEF ReportSteps
    <2>4. QED
      BY <1>10, <2>1, <2>2, <2>3 DEF Reports!Reboot
  <1>11. CASE UNCHANGED Reports!vars
    BY <1>11 DEF Reports!vars
  <1>12. QED
    BY <1>1, <1>2, <1>3, <1>4, <1>5, <1>6, <1>8, <1>9, <1>10, <1>11
       DEF Reports!Next

\* Before a process mints an id nothing of another one is left.
LEMMA MintsAlone ==
    ASSUME ReportsType, ReportsType', NEW p \in Roots, Reports!resolve(p), ~cut',
           NEW x \in Ids, Tied(x), NEW y \in Ids,
           ~Reports!Overtaken(p), shared_id.source # "hardware", ~derivable,
           Reports!old_id(p) = NoId,
           NEW r \in Resolutions, res' = [res EXCEPT ![p] = r],
           r.id = y, r.write_shared = "random", r.previous = NoId
    PROVE  Tied(y)'
  <1> USE IdsAre
  <1>0. /\ report_at[p] = "read"
        /\ report_at' \in [Roots -> ReportSteps] /\ report_at'[p] = "park"
        /\ \A q \in Roots : q # p => report_at'[q] = report_at[q]
        /\ UNCHANGED <<derivable, shared_id, parked, settings_id, mine, previous,
                       reported, linked>>
    BY ReportsGoto DEF Reports!resolve, Reports!store, ReportSteps, ReportsType
  <1>1. shared_id = Reports!NotShared /\ mine[p] = NoId /\ settings_id = NoId
    BY DEF Reports!old_id, Reports!Overtaken, ReportsType, SharedIds
  <1>2. \A q \in Roots : mine[q] = NoId /\ previous[q] = NoId
    BY <1>1 DEF Tied, Resolved, NotDerived
  <1>3. \A q \in Roots : q # p => report_at[q] \in {"rest", "read"}
                                  /\ res[q] = Reports!Unresolved
    BY <1>1 DEF Tied, Resolved, Reports!Overtaken, ReportsType, ReportSteps
  <1>4. parked = NoId /\ linked = {} /\ reported \subseteq {Hw}
    BY <1>1 DEF Tied, NotDerived, OneId, Kept
  <1>5. res'[p] = r /\ \A q \in Roots : q # p => res'[q] = res[q]
    BY DEF ReportsType
  <1>6. y # Hw /\ y # NoId
    BY ReportsAssumption
  <1>7. OneId(y)'
    BY <1>0, <1>1, <1>2, <1>3, <1>4, <1>5 DEF OneId
  <1>8. NotDerived'
    BY <1>0, <1>1, <1>2, <1>3, <1>4, <1>5 DEF NotDerived
  <1>9. ASSUME NEW q \in Roots PROVE Resolved(y, q)' /\ KeptBy(y, q)'
    <2>1. CASE q = p
      BY <1>0, <1>1, <1>2, <1>5, <1>6, <2>1 DEF Resolved, KeptBy
    <2>2. CASE q # p
      BY <1>0, <1>1, <1>2, <1>3, <1>5, <1>6, <2>2 DEF Resolved, KeptBy
    <2>3. QED
      BY <2>1, <2>2
  <1>10. QED
    BY <1>0, <1>1, <1>4, <1>6, <1>7, <1>8, <1>9 DEF Tied

LEMMA TiedResolve ==
    ASSUME ReportsType, ReportsType', NEW p \in Roots, Reports!resolve(p), ~cut',
           NEW x \in Ids, Tied(x)
    PROVE  \E y \in Ids : Tied(y)'
  <1> USE IdsAre
  <1>0. /\ report_at[p] = "read"
        /\ report_at' \in [Roots -> ReportSteps] /\ report_at'[p] = "park"
        /\ \A q \in Roots : q # p => report_at'[q] = report_at[q]
        /\ UNCHANGED <<derivable, shared_id, parked, settings_id, mine, previous,
                       reported, linked>>
    BY ReportsGoto DEF Reports!resolve, Reports!store, ReportSteps, ReportsType
  <1>1. PICK r \in Resolutions :
             /\ res' = [res EXCEPT ![p] = r] /\ r.id # NoId
             /\ \/ /\ shared_id.source = "hardware"
                   /\ r.id = shared_id.id /\ r.write_shared = "no"
                   /\ r.previous = NoId
                \/ /\ shared_id.source # "hardware" /\ derivable
                   /\ r.id = Hw /\ r.write_shared = "hardware"
                   /\ r.previous = IF Reports!old_id(p) = Hw THEN NoId
                                   ELSE Reports!old_id(p)
                \/ /\ shared_id.source # "hardware" /\ ~derivable
                   /\ Reports!old_id(p) # NoId /\ r.id = Reports!old_id(p)
                   /\ r.write_shared \in {"legacy", "no"} /\ r.previous = NoId
                \/ /\ shared_id.source # "hardware" /\ ~derivable
                   /\ Reports!old_id(p) = NoId
                   /\ r.id \in Ids /\ ~Reports!Overtaken(p)
                   /\ r.write_shared = "random" /\ r.previous = NoId
    BY Resolves
  <1>2. res'[p] = r /\ \A q \in Roots : q # p => res'[q] = res[q]
    BY <1>1 DEF ReportsType
  <1>3. x # Hw /\ x # NoId
    BY ReportsAssumption
  <1>4. Reports!old_id(p) \in {x, Hw, NoId}
    BY DEF Reports!old_id, Tied, OneId
  \* It is enough that what p has resolved fits.
  <1>5. ASSUME r.previous \in {x, NoId}, ~derivable => r.previous = NoId,
               r.id = IF derivable THEN Hw ELSE x,
               r.write_shared # "no" => (r.id = Hw <=> r.write_shared = "hardware"),
               r.previous = NoId /\ derivable /\ x \in reported => Kept(x)
        PROVE  Tied(x)'
    <2>1. OneId(x)'
      BY <1>0, <1>2, <1>5 DEF Tied, OneId
    <2>2. NotDerived'
      BY <1>0, <1>2, <1>5 DEF Tied, NotDerived
    <2>3. ASSUME NEW q \in Roots PROVE Resolved(x, q)' /\ KeptBy(x, q)'
      <3>1. CASE q = p
        BY <1>0, <1>2, <1>5, <3>1 DEF Tied, Resolved, KeptBy, Kept
      <3>2. CASE q # p
        BY <1>0, <1>2, <3>2 DEF Tied, Resolved, KeptBy, Kept
      <3>3. QED
        BY <3>1, <3>2
    <2>4. QED
      BY <1>0, <2>1, <2>2, <2>3 DEF Tied, Kept
  <1>6. CASE /\ shared_id.source = "hardware"
             /\ r.id = shared_id.id /\ r.write_shared = "no" /\ r.previous = NoId
    <2>1. shared_id.id = Hw /\ derivable
      BY <1>6 DEF Tied, OneId, NotDerived, ReportsType
    <2>2. QED
      BY <1>5, <1>6, <2>1 DEF Tied
  <1>7. CASE /\ shared_id.source # "hardware" /\ derivable
             /\ r.id = Hw /\ r.write_shared = "hardware"
             /\ r.previous = IF Reports!old_id(p) = Hw THEN NoId
                             ELSE Reports!old_id(p)
    <2>1. r.previous \in {x, NoId}
      BY <1>4, <1>7
    <2>2. ASSUME r.previous = NoId, x \in reported PROVE Kept(x)
      <3>1. shared_id.id # Hw
        BY <1>7 DEF Tied, OneId
      <3>2. shared_id = Reports!NotShared /\ mine[p] \in {Hw, NoId}
        BY <1>4, <1>7, <2>2, <3>1 DEF Reports!old_id, ReportsType, SharedIds
      <3>3. settings_id # x
        BY <1>0, <1>3, <1>7, <3>2 DEF Tied, Resolved
      <3>4. QED
        BY <1>3, <2>2, <3>2, <3>3 DEF Tied
    <2>3. QED
      BY <1>5, <1>7, <2>1, <2>2
  <1>8. CASE /\ shared_id.source # "hardware" /\ ~derivable
             /\ Reports!old_id(p) # NoId /\ r.id = Reports!old_id(p)
             /\ r.write_shared \in {"legacy", "no"} /\ r.previous = NoId
    <2>1. Reports!old_id(p) = x
      BY <1>4, <1>8 DEF Reports!old_id, Tied, NotDerived
    <2>2. QED
      BY <1>3, <1>5, <1>8, <2>1
  <1>9. CASE /\ shared_id.source # "hardware" /\ ~derivable
             /\ Reports!old_id(p) = NoId
             /\ r.id \in Ids /\ ~Reports!Overtaken(p)
             /\ r.write_shared = "random" /\ r.previous = NoId
    <2>1. PICK y \in Ids : r.id = y
      BY <1>9
    <2>2. Tied(y)'
      BY <1>1, <1>9, <2>1, MintsAlone
    <2>3. QED
      BY <2>2
  <1>10. QED
    BY <1>1, <1>6, <1>7, <1>8, <1>9

LEMMA TiedStores ==
    ASSUME ReportsType, ReportsType', NEW p \in Roots, ~cut',
           Reports!Park(p) \/ Reports!Publish(p) \/ Reports!Adopt(p),
           NEW x \in Ids, Tied(x)
    PROVE  Tied(x)'
  <1> USE IdsAre DEF Reports!store, Reports!history
  <1>0. x # Hw /\ x # NoId
    BY ReportsAssumption
  <1>1. CASE Reports!Park(p)
    <2>0. /\ report_at[p] = "park"
          /\ report_at' \in [Roots -> ReportSteps] /\ report_at'[p] = "publish"
          /\ \A q \in Roots : q # p => report_at'[q] = report_at[q]
          /\ UNCHANGED <<derivable, shared_id, settings_id, mine, res, previous,
                         reported, linked>>
      BY <1>1, ReportsGoto DEF Reports!Park, ReportSteps, ReportsType
    <2>1. \/ res[p].previous = NoId /\ parked' = parked
          \/ res[p].previous = x /\ parked' = x /\ derivable
      BY <1>1 DEF Reports!Park, Tied, OneId, NotDerived
    <2>2. Kept(x) => Kept(x)'
      BY <2>0, <2>1 DEF Kept
    <2>3. OneId(x)' /\ NotDerived'
      BY <2>0, <2>1 DEF Tied, OneId, NotDerived
    <2>4. ASSUME NEW q \in Roots PROVE Resolved(x, q)' /\ KeptBy(x, q)'
      <3>1. Resolved(x, q)'
        BY <2>0 DEF Tied, Resolved
      <3>2. CASE q = p
        <4>1. res[p].previous = NoId /\ derivable /\ x \in reported => Kept(x)
          BY <2>0 DEF Tied, KeptBy
        <4>2. res[p].previous # NoId => Kept(x)'
          BY <2>1 DEF Kept
        <4>3. QED
          BY <2>0, <2>2, <3>1, <3>2, <4>1, <4>2 DEF KeptBy
      <3>3. CASE q # p
        BY <2>0, <2>2, <3>1, <3>3 DEF Tied, KeptBy
      <3>4. QED
        BY <3>2, <3>3
    <2>5. QED
      BY <2>0, <2>2, <2>3, <2>4 DEF Tied
  <1>2. CASE Reports!Publish(p)
    <2>0. /\ report_at[p] = "publish"
          /\ report_at' \in [Roots -> ReportSteps] /\ report_at'[p] = "adopt"
          /\ \A q \in Roots : q # p => report_at'[q] = report_at[q]
          /\ UNCHANGED <<derivable, parked, settings_id, mine, res, previous,
                         reported, linked>>
      BY <1>2, ReportsGoto DEF Reports!Publish, ReportSteps, ReportsType
    <2>1. \/ shared_id' = shared_id
          \/ /\ shared_id'.id = res[p].id /\ res[p].id \in {x, Hw}
             /\ shared_id'.id = Hw <=> shared_id'.source = "hardware"
             /\ res[p].id = Hw <=> derivable
      <3>1. /\ res[p].id = IF derivable THEN Hw ELSE x
            /\ res[p].write_shared # "no" =>
                 (res[p].id = Hw <=> res[p].write_shared = "hardware")
        BY <2>0 DEF Tied, Resolved
      <3>2. \/ shared_id' = shared_id
            \/ /\ res[p].write_shared # "no"
               /\ shared_id' = [id |-> res[p].id, source |-> res[p].write_shared]
        BY <1>2 DEF Reports!Publish
      <3>3. QED
        BY <1>0, <3>1, <3>2
    <2>2. Kept(x)' <=> Kept(x)
      BY <2>0 DEF Kept
    <2>3. OneId(x)' /\ NotDerived'
      BY <1>0, <2>0, <2>1 DEF Tied, OneId, NotDerived
    <2>4. \A q \in Roots : Resolved(x, q)' /\ KeptBy(x, q)'
      BY <2>0, <2>2 DEF Tied, Resolved, KeptBy
    <2>5. shared_id'.id = Hw /\ x \in reported' => Kept(x)'
      BY <2>0, <2>1, <2>2 DEF Tied, KeptBy
    <2>6. x \in reported' => Kept(x)' \/ x \in {settings_id', shared_id'.id}
      <3>1. CASE shared_id'.id = Hw
        BY <2>5, <3>1
      <3>2. CASE shared_id'.id # Hw
        BY <2>0, <2>1, <2>2, <3>2 DEF Tied
      <3>3. QED
        BY <3>1, <3>2
    <2>7. QED
      BY <2>3, <2>4, <2>5, <2>6 DEF Tied
  <1>3. CASE Reports!Adopt(p)
    <2>0. /\ report_at[p] = "adopt"
          /\ report_at' \in [Roots -> ReportSteps] /\ report_at'[p] = "collect"
          /\ \A q \in Roots : q # p => report_at'[q] = report_at[q]
          /\ UNCHANGED <<derivable, shared_id, parked, mine, res, previous,
                         reported, linked>>
          /\ settings_id' = IF mine[p] = res[p].id THEN settings_id ELSE res[p].id
      BY <1>3, ReportsGoto DEF Reports!Adopt, ReportSteps, ReportsType
    <2>1. res[p].id = IF derivable THEN Hw ELSE x
      BY <2>0 DEF Tied, Resolved
    <2>2. settings_id' = res[p].id
      <3>1. CASE mine[p] = res[p].id
        BY <1>0, <2>0, <2>1, <3>1 DEF Tied, Resolved, OneId, NotDerived
      <3>2. QED
        BY <2>0, <3>1
    <2>3. Kept(x)' <=> Kept(x)
      BY <2>0 DEF Kept
    <2>4. OneId(x)' /\ NotDerived'
      BY <1>0, <2>0, <2>1, <2>2 DEF Tied, OneId, NotDerived
    <2>5. ASSUME NEW q \in Roots PROVE Resolved(x, q)' /\ KeptBy(x, q)'
      <3>1. KeptBy(x, q)'
        BY <2>0, <2>3 DEF Tied, KeptBy
      <3>2. report_at'[q] \notin {"rest", "read"} => res[q].id = res[p].id
        BY <2>0, <2>1 DEF Tied, Resolved
      <3>3. mine[q] = Hw => derivable
        BY DEF Tied, NotDerived
      <3>4. QED
        BY <1>0, <2>0, <2>1, <2>2, <3>1, <3>2, <3>3 DEF Tied, Resolved
    <2>6. x \in reported' => Kept(x)' \/ x \in {settings_id', shared_id'.id}
      BY <2>0, <2>1, <2>2, <2>3 DEF Tied, KeptBy
    <2>7. QED
      BY <2>0, <2>3, <2>4, <2>5, <2>6 DEF Tied
  <1>4. QED
    BY <1>1, <1>2, <1>3

\* A process that ends leaves its steps to nobody.
LEMMA TiedRest ==
    ASSUME ReportsType, ReportsType', NEW p \in Roots, Reports!Rest(p),
           NEW x \in Ids, Tied(x),
           UNCHANGED <<derivable, shared_id, settings_id>>,
           parked' \in {parked, NoId}, Kept(x) => Kept(x)',
           x \in reported' \ reported =>
               ~derivable /\ x \in {settings_id, shared_id.id},
           reported' \subseteq {x, Hw}, ~derivable => linked' = {},
           linked \subseteq linked'
    PROVE  Tied(x)'
  <1> USE IdsAre
  <1>0. x # Hw /\ x # NoId
    BY ReportsAssumption
  <1>1. /\ report_at' \in [Roots -> ReportSteps] /\ report_at'[p] = "rest"
        /\ mine'[p] = NoId
        /\ res'[p] = Reports!Unresolved
        /\ previous'[p] = NoId
        /\ \A q \in Roots : q # p =>
             /\ report_at'[q] = report_at[q] /\ mine'[q] = mine[q]
             /\ res'[q] = res[q] /\ previous'[q] = previous[q]
    BY ReportsRest
  <1>2. OneId(x)' /\ NotDerived'
    <2>1. \A q \in Roots : /\ mine'[q] \in {mine[q], NoId}
                           /\ res'[q].previous \in {res[q].previous, NoId}
                           /\ previous'[q] \in {previous[q], NoId}
      BY <1>1
    <2>2. QED
      BY <1>0, <2>1 DEF Tied, OneId, NotDerived
  <1>3. ASSUME NEW q \in Roots PROVE Resolved(x, q)' /\ KeptBy(x, q)'
    <2>1. CASE q = p
      BY <1>1, <2>1 DEF Resolved, KeptBy
    <2>2. CASE q # p
      <3>1. Resolved(x, q)'
        BY <1>1, <2>2 DEF Tied, Resolved
      <3>2. KeptBy(x, q)'
        BY <1>1, <2>2 DEF Tied, KeptBy
      <3>3. QED
        BY <3>1, <3>2
    <2>3. QED
      BY <2>1, <2>2
  <1>4. shared_id'.id = Hw /\ x \in reported' => Kept(x)'
    BY DEF Tied, NotDerived
  <1>5. x \in reported' => Kept(x)' \/ x \in {settings_id', shared_id'.id}
    BY DEF Tied
  <1>6. QED
    BY <1>2, <1>3, <1>4, <1>5 DEF Tied

LEMMA TiedSend ==
    ASSUME ReportsType, ReportsType', NEW p \in Roots,
           Reports!Begin(p) \/ Reports!Collect(p) \/ Reports!send(p)
           \/ Reports!clear_previous(p) \/ Reports!Kill(p),
           NEW x \in Ids, Tied(x)
    PROVE  Tied(x)'
  <1> USE IdsAre DEF Reports!store, Reports!history, Reports!locals
  <1>0. x # Hw /\ x # NoId
    BY ReportsAssumption
  <1>1. CASE Reports!Begin(p)
    <2>0. /\ report_at[p] = "rest"
          /\ report_at' \in [Roots -> ReportSteps] /\ report_at'[p] = "read"
          /\ \A q \in Roots : q # p => report_at'[q] = report_at[q]
          /\ UNCHANGED <<derivable, shared_id, parked, settings_id, res, previous,
                         reported, linked>>
          /\ mine'[p] = settings_id
          /\ \A q \in Roots : q # p => mine'[q] = mine[q]
      BY <1>1, ReportsGoto DEF Reports!Begin, ReportSteps, ReportsType
    <2>1. OneId(x)' /\ NotDerived'
      BY <2>0 DEF Tied, OneId, NotDerived
    <2>2. ASSUME NEW q \in Roots PROVE Resolved(x, q)' /\ KeptBy(x, q)'
      <3>1. CASE q = p
        BY <1>0, <2>0, <3>1 DEF Tied, Resolved, KeptBy
      <3>2. CASE q # p
        BY <2>0, <3>2 DEF Tied, Resolved, KeptBy, Kept
      <3>3. QED
        BY <3>1, <3>2
    <2>3. QED
      BY <2>0, <2>1, <2>2 DEF Tied, Kept
  <1>2. CASE Reports!Collect(p)
    <2>0. /\ report_at[p] = "collect"
          /\ report_at' \in [Roots -> ReportSteps] /\ report_at'[p] = "send"
          /\ \A q \in Roots : q # p => report_at'[q] = report_at[q]
          /\ UNCHANGED <<derivable, shared_id, parked, settings_id, res, mine,
                         reported, linked>>
          /\ previous'[p] = parked
          /\ \A q \in Roots : q # p => previous'[q] = previous[q]
      BY <1>2, ReportsGoto DEF Reports!Collect, ReportSteps, ReportsType
    <2>1. OneId(x)' /\ NotDerived'
      BY <2>0 DEF Tied, OneId, NotDerived
    <2>2. ASSUME NEW q \in Roots PROVE Resolved(x, q)' /\ KeptBy(x, q)'
      <3>1. CASE q = p
        BY <2>0, <3>1 DEF Tied, Resolved, KeptBy
      <3>2. CASE q # p
        BY <2>0, <3>2 DEF Tied, Resolved, KeptBy, Kept
      <3>3. QED
        BY <3>1, <3>2
    <2>3. QED
      BY <2>0, <2>1, <2>2 DEF Tied, Kept
  <1>3. CASE Reports!send(p)
    <2>0. /\ report_at[p] = "send"
          /\ UNCHANGED <<derivable, shared_id, parked, settings_id>>
      BY <1>3 DEF Reports!send
    <2>1. \/ reported' = reported /\ linked' = linked
          \/ /\ reported' = reported \cup {res[p].id}
             /\ linked' = linked \cup ({previous[p]} \ {NoId})
      BY <1>3 DEF Reports!send, Reports!Deliver
    <2>2. /\ res[p].id = IF derivable THEN Hw ELSE x
          /\ settings_id = res[p].id /\ previous[p] \in {x, NoId}
          /\ ~derivable => previous[p] = NoId /\ linked = {}
      BY <2>0 DEF Tied, Resolved, OneId, NotDerived
    <2>3. /\ linked \subseteq linked' /\ (Kept(x) => Kept(x)')
          /\ ~derivable => linked' = {}
          /\ reported' \subseteq {x, Hw} /\ reported \subseteq reported'
          /\ x \in reported' \ reported =>
               ~derivable /\ x \in {settings_id, shared_id.id}
      BY <1>0, <2>0, <2>1, <2>2 DEF Tied, OneId, Kept
    <2>4. CASE Reports!Rest(p)
      BY <2>0, <2>3, <2>4, TiedRest
    <2>5. CASE /\ Reports!Deliver(p) /\ previous[p] # NoId
               /\ Reports!Goto(p, "consume") /\ UNCHANGED <<mine, res, previous>>
      <3>1. /\ report_at' \in [Roots -> ReportSteps] /\ report_at'[p] = "consume"
            /\ \A q \in Roots : q # p => report_at'[q] = report_at[q]
        BY <2>5, ReportsGoto DEF ReportSteps, ReportsType
      <3>2. previous[p] = x /\ x \in linked' /\ derivable
        BY <2>2, <2>5 DEF Reports!Deliver
      <3>3. OneId(x)' /\ NotDerived'
        BY <2>0, <2>3, <2>5, <3>2 DEF Tied, OneId, NotDerived
      <3>4. ASSUME NEW q \in Roots PROVE Resolved(x, q)' /\ KeptBy(x, q)'
        <4>1. CASE q = p
          BY <2>0, <2>2, <2>5, <3>1, <3>2, <4>1 DEF Tied, Resolved, KeptBy
        <4>2. CASE q # p
          <5>1. Resolved(x, q)'
            BY <2>0, <2>5, <3>1, <4>2 DEF Tied, Resolved
          <5>2. Kept(x)' /\ (report_at[q] = "consume" => previous[q] = x)
            BY <3>2 DEF Tied, KeptBy, Kept
          <5>3. KeptBy(x, q)'
            BY <2>5, <3>1, <3>2, <4>2, <5>2 DEF KeptBy
          <5>4. QED
            BY <5>1, <5>3
        <4>3. QED
          BY <4>1, <4>2
      <3>5. QED
        BY <3>2, <3>3, <3>4 DEF Tied, Kept
    <2>6. QED
      BY <1>3, <2>4, <2>5 DEF Reports!send
  <1>4. CASE Reports!clear_previous(p)
    <2>1. /\ Reports!Rest(p) /\ parked' = NoId /\ x \in linked
          /\ UNCHANGED <<derivable, shared_id, settings_id, reported, linked>>
      BY <1>4 DEF Reports!clear_previous, Tied, KeptBy
    <2>2. Kept(x)' /\ reported' \subseteq {x, Hw} /\ (~derivable => linked' = {})
      BY <2>1 DEF Kept, Tied, OneId, NotDerived
    <2>3. QED
      BY <2>1, <2>2, TiedRest
  <1>5. CASE Reports!Kill(p)
    <2>1. /\ Reports!Rest(p)
          /\ UNCHANGED <<derivable, shared_id, parked, settings_id, reported, linked>>
      BY <1>5 DEF Reports!Kill
    <2>2. /\ Kept(x) => Kept(x)'
          /\ reported' \subseteq {x, Hw} /\ (~derivable => linked' = {})
      BY <2>1 DEF Kept, Tied, OneId, NotDerived
    <2>3. QED
      BY <2>1, <2>2, TiedRest
  <1>6. QED
    BY <1>1, <1>2, <1>3, <1>4, <1>5

LEMMA TiedReboot ==
    ASSUME Reports!Reboot, NEW x \in Ids, Tied(x)
    PROVE  Tied(x)'
  <1> USE IdsAre DEF Reports!Reboot, Reports!store, Reports!history
  <1>1. /\ ~derivable /\ derivable' = TRUE
        /\ UNCHANGED <<shared_id, parked, settings_id, reported, linked>>
        /\ \A p \in Roots : /\ report_at'[p] = "rest" /\ mine'[p] = NoId
                            /\ res'[p] = Reports!Unresolved
                            /\ previous'[p] = NoId
    OBVIOUS
  <1>2. OneId(x)' /\ NotDerived'
    BY <1>1 DEF Tied, OneId, NotDerived
  <1>3. \A p \in Roots : Resolved(x, p)' /\ KeptBy(x, p)'
    BY <1>1 DEF Resolved, KeptBy
  <1>4. QED
    BY <1>1, <1>2, <1>3 DEF Tied, Kept

LEMMA ReportsNext ==
    ReportsInv /\ [Reports!Next]_(Reports!vars) => ReportsInv'
  <1> SUFFICES ASSUME ReportsInv, [Reports!Next]_(Reports!vars)
               PROVE  ReportsInv'
    OBVIOUS
  <1>1. ReportsType /\ ReportsType'
    BY ReportsTypeNext DEF ReportsInv
  <1>2. ASSUME ~cut' PROVE \E x \in Ids : Tied(x)'
    <2>1. ~cut
      BY <1>1, <1>2, Resolves DEF Reports!Next, Reports!Begin, Reports!Park,
         Reports!Publish, Reports!Adopt, Reports!Collect, Reports!send,
         Reports!clear_previous, Reports!Kill, Reports!Reboot, Reports!vars,
         Reports!history, Reports!resolve, Reports!Mint, ReportsType
    <2>2. PICK x \in Ids : Tied(x)
      BY <2>1 DEF ReportsInv
    <2>3. CASE UNCHANGED Reports!vars
      BY <2>2, <2>3
         DEF Reports!vars, Reports!store, Reports!history, Tied, OneId,
         NotDerived, Resolved, KeptBy, Kept
    <2>4. CASE \E p \in Roots : Reports!resolve(p)
      BY <1>1, <1>2, <2>2, <2>4, TiedResolve
    <2>5. CASE \E p \in Roots : Reports!Park(p) \/ Reports!Publish(p) \/ Reports!Adopt(p)
      <3>1. Tied(x)'
        BY <1>1, <1>2, <2>2, <2>5, TiedStores
      <3>2. QED
        BY <3>1
    <2>6. CASE \E p \in Roots :
                 Reports!Begin(p) \/ Reports!Collect(p) \/ Reports!send(p)
                 \/ Reports!clear_previous(p) \/ Reports!Kill(p)
      <3>1. Tied(x)'
        BY <1>1, <2>2, <2>6, TiedSend
      <3>2. QED
        BY <3>1
    <2>7. CASE Reports!Reboot
      <3>1. Tied(x)'
        BY <2>2, <2>7, TiedReboot
      <3>2. QED
        BY <3>1
    <2>8. QED
      BY <2>3, <2>4, <2>5, <2>6, <2>7 DEF Reports!Next
  <1>3. QED
    BY <1>1, <1>2 DEF ReportsInv

LEMMA ReportsInit == Reports!Init => ReportsInv
  <1> SUFFICES ASSUME Reports!Init PROVE ReportsInv
    OBVIOUS
  <1> USE IdsAre DEF Reports!Init
  <1>1. PICK x \in Ids :
          /\ shared_id \in {Reports!NotShared, [id |-> x, source |-> "legacy"]}
          /\ settings_id \in {NoId, x}
    <2> DEFINE old == CHOOSE id \in Ids : TRUE
    <2>1. old \in Ids
      BY ReportsAssumption
    <2>2. /\ shared_id \in {Reports!NotShared, [id |-> old, source |-> "legacy"]}
          /\ settings_id \in {NoId, old}
      OBVIOUS
    <2> HIDE DEF old
    <2>3. QED
      BY <2>1, <2>2
  <1>2. /\ minted = {shared_id.id, settings_id} \ {NoId} /\ reported = minted
        /\ linked = {} /\ parked = NoId /\ derivable \in BOOLEAN /\ cut = FALSE
        /\ report_at = [p \in Roots |-> "rest"] /\ mine = [p \in Roots |-> NoId]
        /\ res = [p \in Roots |-> Reports!Unresolved]
        /\ previous = [p \in Roots |-> NoId]
    OBVIOUS
  <1>3. /\ shared_id.id \in {x, NoId} /\ shared_id.source = "legacy"
        /\ x # Hw /\ x # NoId /\ shared_id \in SharedIds
    BY <1>1, ReportsAssumption DEF SharedIds, Reports!Sources
  <1>4. ReportsType
    <2>1. minted \subseteq Ids /\ reported \subseteq Reports!AnyId
      BY <1>1, <1>2, <1>3
    <2>2. report_at \in [Roots -> ReportSteps] /\ res \in [Roots -> Resolutions]
      BY <1>2 DEF ReportSteps
    <2>3. mine \in [Roots -> Holding] /\ previous \in [Roots -> Ids \cup {NoId}]
      BY <1>2
    <2>4. parked \in Ids \cup {NoId} /\ settings_id \in Holding /\ linked \subseteq Ids
      BY <1>1, <1>2, <1>3
    <2>5. derivable \in BOOLEAN /\ cut \in BOOLEAN
      BY <1>2
    <2>6. \A p \in Roots : report_at[p] \in {"rest", "read"}
      BY <1>2
    <2>7. QED
      BY <1>3, <2>1, <2>2, <2>3, <2>4, <2>5, <2>6 DEF ReportsType
  <1>5. Tied(x)
    BY <1>1, <1>2, <1>3 DEF Tied, OneId, NotDerived, Resolved, KeptBy, Kept
  <1>6. QED
    BY <1>4, <1>5 DEF ReportsInv

LEMMA ReportsSafe == ReportsInv => Reports!LinkKept
  <1> SUFFICES ASSUME ReportsInv, ~cut, NEW id \in reported \ {Hw}
               PROVE  id \in linked \cup {parked, settings_id, shared_id.id}
    BY DEF Reports!LinkKept
  <1>1. PICK x \in Ids : Tied(x)
    BY DEF ReportsInv
  <1>2. id = x
    BY <1>1 DEF Tied, OneId
  <1>3. QED
    BY <1>1, <1>2 DEF Tied, Kept
-----------------------------------------------------------------------------
(***************************************************************************)
(* The composition.                                                        *)
(***************************************************************************)

\* A step of the composition is one of the component that runs, or leaves it.
LEMMA PartsAlone ==
    ASSUME [NextParts]_allVars
    PROVE  /\ [Feed!Next]_(Feed!vars) /\ [Next]_vars /\ [Queue!Next]_(Queue!vars)
           /\ [Pollers!Next]_(Pollers!vars) /\ [Install!Next]_(Install!vars)
           /\ [Reports!Next]_(Reports!vars)
           /\ part' = part
  <1> USE DEF FeedVars, QueueVars, PollersVars, InstallVars, ReportsVars, allVars
  <1>1. UNCHANGED FeedVars => UNCHANGED Feed!vars
    BY DEF Feed!vars
  <1>2. UNCHANGED QueueVars => UNCHANGED Queue!vars
    BY DEF Queue!vars
  <1>3. UNCHANGED PollersVars => UNCHANGED Pollers!vars
    BY DEF Pollers!vars
  <1>4. UNCHANGED InstallVars => UNCHANGED Install!vars
    BY DEF Install!vars, Install!files, Install!history
  <1>5. UNCHANGED ReportsVars => UNCHANGED Reports!vars
    BY DEF Reports!vars, Reports!store, Reports!history
  <1> USE <1>1, <1>2, <1>3, <1>4, <1>5
  <1>6. CASE UNCHANGED allVars
    BY <1>6
  <1>7. CASE FeedSteps
    BY <1>7 DEF FeedSteps
  <1>8. CASE MainSteps
    BY <1>8 DEF MainSteps
  <1>9. CASE QueueSteps
    BY <1>9 DEF QueueSteps
  <1>10. CASE PollersSteps
    BY <1>10 DEF PollersSteps
  <1>11. CASE InstallSteps
    BY <1>11 DEF InstallSteps
  <1>12. CASE ReportsSteps
    BY <1>12 DEF ReportsSteps
  <1>13. QED
    BY <1>6, <1>7, <1>8, <1>9, <1>10, <1>11, <1>12 DEF NextParts

\* The held reading is never behind a hotter one, and a streak counts the
\* readings below it (Hysteresis::update).
THEOREM FeedInvariant == SpecParts => []FeedInv
  <1>1. InitParts => FeedInv
    BY FeedInit DEF InitParts
  <1>2. FeedInv /\ [NextParts]_allVars => FeedInv'
    BY PartsAlone, FeedNext
  <1>3. QED
    BY <1>1, <1>2, PTL DEF SpecParts

\* A change of a slider is in one place at a time, and what is behind it is
\* older (settings/queue.rs).
THEOREM QueueInvariant == SpecParts => []QueueInv
  <1>1. InitParts => QueueInv
    BY QueueInit DEF InitParts
  <1>2. QueueInv /\ [NextParts]_allVars => QueueInv'
    BY PartsAlone, QueueNext
  <1>3. QED
    BY <1>1, <1>2, PTL DEF SpecParts

\* A timer runs at the interval of the window and the page, and a poller that
\* missed ticks has a refresh coming (settings/activity.rs).
THEOREM PollersInvariant == SpecParts => []PollersInv
  <1>1. InitParts => PollersInv
    BY PollersInit DEF InitParts
  <1>2. PollersInv /\ [NextParts]_allVars => PollersInv'
    BY PartsAlone, PollersNext
  <1>3. QED
    BY <1>1, <1>2, PTL DEF SpecParts

\* An AppImage that two were never at the download of at once is installed from
\* a file nobody writes to any more, and who refreshes the staged daemon does it
\* by the marker, or has lost it (update.rs).
THEOREM InstallInvariant == SpecParts => []InstallInv
  <1>1. InitParts => InstallInv
    BY InstallInit DEF InitParts
  <1>2. InstallInv /\ [NextParts]_allVars => InstallInv'
    BY PartsAlone, InstallNext
  <1>3. QED
    BY <1>1, <1>2, PTL DEF SpecParts

\* Without a power cut there is one minted id on a machine, and who is about to
\* write over its last mention has it kept (telemetry_id.rs, diagnostics.rs).
THEOREM ReportsInvariant == SpecParts => []ReportsInv
  <1>1. InitParts => ReportsInv
    BY ReportsInit DEF InitParts
  <1>2. ReportsInv /\ [NextParts]_allVars => ReportsInv'
    BY PartsAlone, ReportsNext
  <1>3. QED
    BY <1>1, <1>2, PTL DEF SpecParts

\* Every variable of every component keeps its type (TypeOK of each module).
THEOREM TypesCorrect == SpecParts => []TypesOK
  <1>1. InitParts => IInvType
    BY TypeInit DEF InitParts
  <1>2. IInvType /\ [NextParts]_allVars => IInvType'
    BY PartsAlone, TypeNext
  <1>3. SpecParts => []IInvType
    BY <1>1, <1>2, PTL DEF SpecParts
  <1>4. IInvType /\ QueueInv /\ PollersInv /\ InstallInv /\ ReportsInv => TypesOK
    BY ReportsTypes DEF IInvType, QueueInv, PollersInv, InstallInv, ReportsInv,
       TypesOK
  <1>5. QED
    BY <1>3, <1>4, QueueInvariant, PollersInvariant, InstallInvariant,
       ReportsInvariant, PTL

LEMMA FollowsLater == FeedInv' => Feed!FollowsReadings'
  BY FeedFollows, PTL

\* Heat is followed at once, and the held reading goes down only after
\* DOWN_CONFIRMATIONS readings below it by the margin, to the hottest of them
\* (Hysteresis::update).
THEOREM SlowdownIsConfirmed == SpecParts => SlowdownConfirmed
  <1>1. FeedInv /\ [NextParts]_allVars =>
        [part = "hysteresis" => Feed!Confirmed]_allVars
    <2> SUFFICES ASSUME FeedInv, [NextParts]_allVars, part = "hysteresis"
                 PROVE  Feed!Confirmed \/ UNCHANGED allVars
      OBVIOUS
    <2>1. FeedInv' /\ (Feed!SlowsDownConfirmed \/ UNCHANGED Feed!vars)
      BY PartsAlone, FeedNext
    <2>2. Feed!FollowsReadings'
      BY <2>1, FollowsLater
    <2>3. CASE Feed!SlowsDownConfirmed
      BY <2>2, <2>3 DEF Feed!Confirmed
    <2>4. CASE UNCHANGED Feed!vars
      <3>1. hyst' = hyst /\ ~(hyst.held < hyst.held)
        <4>1. hyst.held \in Nat
          <5>1. \A a \in Temps : a \in Nat
            BY FeedAssumption
          <5>2. QED
            BY <5>1 DEF FeedInv, Feed!HystType, Feed!NoReading
        <4>2. QED
          BY <2>4, <4>1 DEF Feed!vars
      <3>2. QED
        BY <2>2, <3>1 DEF Feed!Confirmed, Feed!SlowsDownConfirmed
    <2>5. QED
      BY <2>1, <2>3, <2>4
  <1>2. QED
    BY <1>1, FeedInvariant, PTL
       DEF SpecParts, SlowdownConfirmed

\* Once no change of a key is on its way the daemon has the value set last,
\* unless a command of it was cut off and may still arrive (settings/queue.rs).
THEOREM QueueAppliesTheLatest == SpecParts => []LatestApplied
  <1>1. QueueInv => LatestApplied
    BY QueueSafe DEF LatestApplied
  <1>2. QED
    BY <1>1, QueueInvariant, PTL

\* Timers follow the window and the page (settings/activity.rs).
THEOREM PollersFollow == SpecParts => []TimersFollow
  <1>1. PollersInv => TimersFollow
    BY DEF PollersInv, TimersFollow
  <1>2. QED
    BY <1>1, PollersInvariant, PTL

\* What is installed is all there, also when curls outlive the process that
\* started them: a package always, and an AppImage but for a download that two
\* were at at once (update.rs).
THEOREM InstalledIsWhole == SpecParts => []WholeApp
  <1>1. InstallInv => WholeApp
    BY DEF InstallInv, Downloads, WholeApp
  <1>2. QED
    BY <1>1, InstallInvariant, PTL

\* A staged daemon of another release than the AppImage has the marker set, or
\* is about to, unless the marker was not written or was taken away (update.rs,
\* mark_pending_restage).
THEOREM RestageIsNotForgotten == SpecParts => []RestageToCome
  <1>1. InstallInv => RestageToCome
    BY DEF InstallInv, Markers, RestageToCome
  <1>2. QED
    BY <1>1, InstallInvariant, PTL

\* An id the collector knows stays tied to the machine, whatever processes
\* resolve, park and report it at once (telemetry_id.rs, diagnostics.rs).
THEOREM KnownIdStaysTied == SpecParts => []LinkKept
  <1>1. ReportsInv => LinkKept
    BY ReportsSafe DEF LinkKept
  <1>2. QED
    BY <1>1, ReportsInvariant, PTL
=============================================================================
