---------------------------- MODULE Desktop_proofs ----------------------------
(***************************************************************************)
(* Proofs about the components of Desktop. The curve editor (CurveUi):     *)
(* every curve there is passes validate, wherever points are dragged and   *)
(* whatever is answered, for any number of points, range of temperatures,  *)
(* and number of modes, requests and clients; and curves drawn are kept.   *)
(* The lighting (SpectrumLighting): however jobs are cut into batches, the *)
(* last request is stored, and the device shows what is stored.            *)
(***************************************************************************)
EXTENDS Desktop, TLAPS
-----------------------------------------------------------------------------
(***************************************************************************)
(* The curve editor (CurveUi).                                             *)
(***************************************************************************)

\* A point lies within its bounds, which are not crossed (constrain_point).
LEMMA PointInBounds ==
    ASSUME NEW c \in ValidCurves, NEW i \in 1 .. POINTS,
           NEW temp \in Int, NEW pct \in Int
    PROVE  LET np == constrain_point(c, i, temp, pct) IN
           /\ np \in [t : TempRange, p : 0 .. FULL]
           /\ t_lo(c, i) <= np.t /\ np.t <= t_hi(c, i)
           /\ p_lo(c, i) <= np.p /\ np.p <= p_hi(c, i)
<1> DEFINE np == constrain_point(c, i, temp, pct)
<1>1. c \in Curves /\ validate(c)
  BY DEF ValidCurves
<1>2. \A j \in 1 .. POINTS : c[j].t \in TempRange /\ c[j].p \in 0 .. FULL
  BY <1>1 DEF Curves
<1>3. t_lo(c, i) \in Int /\ t_hi(c, i) \in Int
      /\ TEMP_MIN_C <= t_lo(c, i) /\ t_lo(c, i) <= t_hi(c, i)
      /\ t_hi(c, i) <= TEMP_MAX_C
  <2>1. CASE i = POINTS
    <3>1. CASE i = 1
      BY <2>1, <3>1, CurveBounds DEF t_lo, t_hi
    <3>2. CASE i # 1
      <4>1. i - 1 \in 1 .. POINTS /\ i \in 2 .. POINTS
        BY <3>2, CurveBounds
      <4>2. c[i - 1].t \in TempRange /\ c[i].t \in TempRange /\ c[i - 1].t < c[i].t
        BY <1>1, <1>2, <4>1 DEF validate
      <4> QED
        BY <2>1, <3>2, <4>2, CurveBounds DEF t_lo, t_hi, TempRange
    <3> QED
      BY <3>1, <3>2
  <2>2. CASE i # POINTS
    <3>1. i + 1 \in 2 .. POINTS /\ i + 1 \in 1 .. POINTS /\ (i + 1) - 1 = i
      BY <2>2, CurveBounds
    <3>2. c[i].t \in TempRange /\ c[i + 1].t \in TempRange /\ c[i].t < c[i + 1].t
      BY <1>1, <1>2, <3>1 DEF validate
    <3>3. CASE i = 1
      BY <2>2, <3>2, <3>3, CurveBounds DEF t_lo, t_hi, TempRange
    <3>4. CASE i # 1
      <4>1. i - 1 \in 1 .. POINTS /\ i \in 2 .. POINTS
        BY <3>4, CurveBounds
      <4>2. c[i - 1].t \in TempRange /\ c[i - 1].t < c[i].t
        BY <1>1, <1>2, <4>1 DEF validate
      <4> QED
        BY <2>2, <3>2, <3>4, <4>2, CurveBounds DEF t_lo, t_hi, TempRange
    <3> QED
      BY <3>3, <3>4
  <2> QED
    BY <2>1, <2>2
<1>4. p_lo(c, i) \in Int /\ p_hi(c, i) \in Int
      /\ 0 <= p_lo(c, i) /\ p_lo(c, i) <= p_hi(c, i) /\ p_hi(c, i) <= FULL
  <2>1. CASE i = POINTS
    BY <2>1, CurveBounds DEF p_lo, p_hi
  <2>2. CASE i # POINTS
    <3>1. i + 1 \in 2 .. POINTS /\ i + 1 \in 1 .. POINTS /\ (i + 1) - 1 = i
      BY <2>2, CurveBounds
    <3>2. c[i].p \in 0 .. FULL /\ c[i + 1].p \in 0 .. FULL
          /\ c[i].p <= c[i + 1].p
      BY <1>1, <1>2, <3>1 DEF validate
    <3>3. CASE i = 1
      BY <2>2, <3>2, <3>3, CurveBounds DEF p_lo, p_hi
    <3>4. CASE i # 1
      <4>1. i - 1 \in 1 .. POINTS /\ i \in 2 .. POINTS
        BY <3>4, CurveBounds
      <4>2. c[i - 1].p \in 0 .. FULL /\ c[i - 1].p <= c[i].p
        BY <1>1, <1>2, <4>1 DEF validate
      <4> QED
        BY <2>2, <3>2, <3>4, <4>2, CurveBounds DEF p_lo, p_hi
    <3> QED
      BY <3>3, <3>4
  <2> QED
    BY <2>1, <2>2
<1>5. np = [t |-> clamp(temp, t_lo(c, i), t_hi(c, i)),
            p |-> clamp(pct, p_lo(c, i), p_hi(c, i))]
  BY DEF constrain_point
<1>6. np.t \in Int /\ t_lo(c, i) <= np.t /\ np.t <= t_hi(c, i)
  BY <1>3, <1>5 DEF clamp
<1>7. np.p \in Int /\ p_lo(c, i) <= np.p /\ np.p <= p_hi(c, i)
  BY <1>4, <1>5 DEF clamp
<1>8. np.t \in TempRange /\ np.p \in 0 .. FULL
  BY <1>3, <1>4, <1>6, <1>7, CurveBounds DEF TempRange
<1> QED
  BY <1>5, <1>6, <1>7, <1>8

\* "so an edited curve always passes validate" (constrain_point).
THEOREM EditedCurveIsValid ==
    ASSUME NEW c \in ValidCurves, NEW i \in 1 .. POINTS,
           NEW temp \in Int, NEW pct \in Int
    PROVE  [c EXCEPT ![i] = constrain_point(c, i, temp, pct)] \in ValidCurves
<1> DEFINE np == constrain_point(c, i, temp, pct)
           d  == [c EXCEPT ![i] = np]
<1>1. c \in Curves /\ validate(c)
  BY DEF ValidCurves
<1>2. /\ np \in [t : TempRange, p : 0 .. FULL]
      /\ t_lo(c, i) <= np.t /\ np.t <= t_hi(c, i)
      /\ p_lo(c, i) <= np.p /\ np.p <= p_hi(c, i)
  BY PointInBounds
<1> HIDE DEF np
<1>3. d \in Curves
  BY <1>1, <1>2 DEF Curves
<1>4. d[i] = np /\ \A j \in 1 .. POINTS : j # i => d[j] = c[j]
  BY <1>1 DEF Curves
<1>5. \A j \in 1 .. POINTS : c[j].t \in TempRange /\ c[j].p \in 0 .. FULL
  BY <1>1 DEF Curves
<1>6. np.t \in Int /\ np.p \in Int
  BY <1>2, CurveBounds DEF TempRange
<1>7. ASSUME NEW j \in 2 .. POINTS
      PROVE  d[j - 1].t < d[j].t /\ d[j - 1].p <= d[j].p
  <2>1. j \in 1 .. POINTS /\ j - 1 \in 1 .. POINTS /\ j - 1 # j /\ j \in Int
    BY CurveBounds
  <2>2. c[j - 1].t < c[j].t /\ c[j - 1].p <= c[j].p
    BY <1>1 DEF validate
  <2>3. CASE j = i
    <3>1. d[j - 1] = c[j - 1] /\ d[j] = np /\ i # 1
      BY <1>4, <2>1, <2>3
    <3>2. c[i - 1].t + 1 <= t_lo(c, i)
      <4>1. c[i - 1].t \in Int
        BY <1>5, <2>1, <2>3, CurveBounds DEF TempRange
      <4> QED
        BY <3>1, <4>1, CurveBounds DEF t_lo
    <3>3. c[i - 1].p <= p_lo(c, i)
      <4>1. c[i - 1].p \in 0 .. FULL
        BY <1>5, <2>1, <2>3
      <4> QED
        BY <3>1, <4>1, CurveBounds DEF p_lo
    <3>4. t_lo(c, i) \in Int /\ p_lo(c, i) \in Int
          /\ c[i - 1].t \in Int /\ c[i - 1].p \in Int
      BY <1>5, <2>1, <2>3, CurveBounds DEF t_lo, p_lo, TempRange
    <3> QED
      BY <1>2, <1>6, <2>3, <3>1, <3>2, <3>3, <3>4
  <2>4. CASE j - 1 = i
    <3>1. d[j - 1] = np /\ d[j] = c[j] /\ i # POINTS /\ j = i + 1
      BY <1>4, <2>1, <2>4, CurveBounds
    <3>2. t_hi(c, i) = c[i + 1].t - 1 /\ p_hi(c, i) = c[i + 1].p
      BY <3>1 DEF t_hi, p_hi
    <3>3. c[i + 1].t \in Int /\ c[i + 1].p \in Int
      BY <1>5, <2>1, <3>1, CurveBounds DEF TempRange
    <3> QED
      BY <1>2, <1>6, <3>1, <3>2, <3>3
  <2>5. CASE j # i /\ j - 1 # i
    BY <1>4, <2>1, <2>2, <2>5
  <2> QED
    BY <2>3, <2>4, <2>5
<1>8. d[POINTS].p = FULL /\ d[POINTS].t >= SAFETY_TEMP_C
  <2>1. POINTS \in 1 .. POINTS
    BY CurveBounds
  <2>2. CASE i = POINTS
    <3>1. d[POINTS] = np
      BY <1>4, <2>2
    <3>2. p_lo(c, i) = FULL /\ p_hi(c, i) = FULL
      BY <2>2 DEF p_lo, p_hi
    <3>3. t_lo(c, i) \in Int /\ t_lo(c, i) >= SAFETY_TEMP_C
      <4>1. CASE i = 1
        BY <2>2, <4>1, CurveBounds DEF t_lo
      <4>2. CASE i # 1
        <5>1. i - 1 \in 1 .. POINTS
          BY <4>2, CurveBounds
        <5>2. c[i - 1].t \in Int
          BY <1>5, <5>1, CurveBounds DEF TempRange
        <5> QED
          BY <2>2, <4>2, <5>2, CurveBounds DEF t_lo
      <4> QED
        BY <4>1, <4>2
    <3> QED
      BY <1>2, <1>6, <3>1, <3>2, <3>3, CurveBounds
  <2>3. CASE i # POINTS
    <3>1. d[POINTS] = c[POINTS]
      BY <1>4, <2>1, <2>3
    <3> QED
      BY <1>1, <3>1 DEF validate
  <2> QED
    BY <2>2, <2>3
<1>9. validate(d)
  BY <1>7, <1>8 DEF validate
<1> QED
  BY <1>3, <1>9 DEF ValidCurves, np
-----------------------------------------------------------------------------
\* Curves the editor takes over are valid (CurveUi::stored and load_profile).
LEMMA LoadedIsValid ==
    ASSUME NEW ds \in [CurveModes -> ValidCurves \cup {Unset}],
           NEW st \in Answers \cup {Unset}, NEW m \in CurveModes
    PROVE  stored(st, m) \in Stored /\ loaded(ds, st, m) \in ValidCurves
<1>1. default_points[m] \in ValidCurves
  BY FactoryCurves
<1>2. stored(st, m) \in Stored
  BY <1>1 DEF stored, Stored, Answers
<1>3. stored(st, m).points \in ValidCurves
  BY <1>2 DEF Stored
<1> QED
  BY <1>2, <1>3 DEF loaded

\* What sync leaves in the editor.
LEMMA SyncIsValid ==
    ASSUME NEW p \in ValidCurves, NEW st \in Answers \cup {Unset},
           NEW ds \in [CurveModes -> ValidCurves \cup {Unset}],
           profile \in CurveModes, sync(p, ds, st)
    PROVE  /\ profile' \in CurveModes /\ points' \in ValidCurves
           /\ \/ profile' = profile /\ points' = p
              \/ points' = loaded(ds, st, profile')
<1>1. CASE touched \/ st = Unset \/ profile = st.current
  BY <1>1 DEF sync
<1>2. CASE ~(touched \/ st = Unset \/ profile = st.current)
  <2>1. st.current \in CurveModes
    BY <1>2 DEF Answers
  <2>2. profile' = st.current /\ points' = loaded(ds, st, st.current)
    BY <1>2 DEF sync
  <2> QED
    BY <2>1, <2>2, LoadedIsValid
<1> QED
  BY <1>1, <1>2

\* The draft of the mode on show is what is shown, and what was drawn and not
\* sent is the draft of its mode.
DraftsShown ==
    /\ drafts[profile] # Unset => points = drafts[profile]
    /\ \A m \in drawn : drafts[m] = last_drawn[m]

IInv == TypeOK /\ DraftsShown

LEMMA DrawsKeeps ==
    ASSUME IInv, NEW c \in ValidCurves, Draws(c)
    PROVE  /\ drafts' \in [CurveModes -> ValidCurves \cup {Unset}]
           /\ profile' \in CurveModes /\ points' \in ValidCurves
           /\ drawn' \subseteq CurveModes
           /\ last_drawn' \in [CurveModes -> ValidCurves]
           /\ steps' \in Nat
           /\ DraftsShown'
<1> USE DEF IInv, TypeOK
<1>1. /\ drafts' = [drafts EXCEPT ![profile] = c]
      /\ drawn' = drawn \cup {profile}
      /\ last_drawn' = [last_drawn EXCEPT ![profile] = c]
      /\ sync(c, drafts', status)
  BY DEF Draws
<1>2. /\ drafts' \in [CurveModes -> ValidCurves \cup {Unset}]
      /\ drawn' \subseteq CurveModes
      /\ last_drawn' \in [CurveModes -> ValidCurves]
  BY <1>1
<1>3. /\ profile' \in CurveModes /\ points' \in ValidCurves
      /\ \/ profile' = profile /\ points' = c
         \/ points' = loaded(drafts', status, profile')
  <2> DEFINE ds == drafts'
  <2>1. ds \in [CurveModes -> ValidCurves \cup {Unset}] /\ sync(c, ds, status)
    BY <1>1, <1>2
  <2> HIDE DEF ds
  <2>2. /\ profile' \in CurveModes /\ points' \in ValidCurves
        /\ \/ profile' = profile /\ points' = c
           \/ points' = loaded(ds, status, profile')
    BY <2>1, SyncIsValid
  <2> QED
    BY <2>2 DEF ds
<1>4. drafts'[profile'] # Unset => points' = drafts'[profile']
  BY <1>1, <1>3 DEF loaded
<1>5. \A m \in drawn' : drafts'[m] = last_drawn'[m]
  <2> SUFFICES ASSUME NEW m \in drawn'
               PROVE  drafts'[m] = last_drawn'[m]
    OBVIOUS
  <2>1. CASE m = profile
    BY <1>1, <2>1
  <2>2. CASE m # profile
    BY <1>1, <2>2 DEF DraftsShown
  <2> QED
    BY <2>1, <2>2
<1>6. steps' \in Nat
  BY DEF Draws, Steps
<1> QED
  BY <1>2, <1>3, <1>4, <1>5, <1>6 DEF DraftsShown

\* sync goes on showing drafts.
LEMMA SyncShows ==
    ASSUME NEW p \in ValidCurves, NEW st \in Answers \cup {Unset},
           NEW ds \in [CurveModes -> ValidCurves \cup {Unset}],
           profile \in CurveModes, sync(p, ds, st),
           ds[profile] # Unset => p = ds[profile]
    PROVE  /\ profile' \in CurveModes /\ points' \in ValidCurves
           /\ ds[profile'] # Unset => points' = ds[profile']
BY SyncIsValid DEF loaded

LEMMA InitIInv == Init => IInv
<1> SUFFICES ASSUME Init
             PROVE  IInv
  OBVIOUS
<1>1. \A m \in CurveModes : default_points[m] \in ValidCurves
  BY FactoryCurves
<1>2. TypeOK
  <2>1. fan_curves \in [CurveModes -> Stored \cup {Unset}]
    BY DEF Init
  <2>2. points \in ValidCurves /\ current \in CurveModes /\ profile \in CurveModes
    BY <1>1 DEF Init
  <2>3. drafts \in [CurveModes -> ValidCurves \cup {Unset}]
    BY DEF Init
  <2>4. calls \in [Slots -> Calls \cup {NoCall}]
    BY DEF Init
  <2>5. undo \subseteq [mode : CurveModes, curve : Stored]
        /\ drawn \subseteq CurveModes
    BY DEF Init
  <2>6. last_drawn \in [CurveModes -> ValidCurves] /\ steps \in Nat
    BY FactoryCurves DEF Init
  <2>7. /\ touched \in BOOLEAN /\ drag \in BOOLEAN /\ busy \in BOOLEAN
        /\ status \in Answers \cup {Unset}
        /\ poll \in Answers \cup {Unset, NoCall}
    BY DEF Init
  <2> QED
    BY <2>1, <2>2, <2>3, <2>4, <2>5, <2>6, <2>7 DEF TypeOK
<1>3. DraftsShown
  BY DEF Init, DraftsShown
<1> QED
  BY <1>2, <1>3 DEF IInv

LEMMA NextIInv == IInv /\ [Next]_vars => IInv'
<1> SUFFICES ASSUME IInv, [Next]_vars
             PROVE  IInv'
  OBVIOUS
<1> USE DEF IInv, TypeOK
<1>1. ASSUME move_focused
      PROVE  IInv'
  <2>1. PICK i \in 1 .. POINTS, in \in Inputs :
          /\ Draws([points EXCEPT ![i] = constrain_point(points, i, in[1], in[2])])
          /\ UNCHANGED drag
    BY <1>1 DEF move_focused
  <2>2. [points EXCEPT ![i] = constrain_point(points, i, in[1], in[2])]
          \in ValidCurves
    <3>1. in[1] \in Int /\ in[2] \in Int
      BY InputsAreIntegers
    <3> QED
      BY <3>1, EditedCurveIsValid
  <2> QED
    BY <2>1, <2>2, DrawsKeeps DEF Draws
<1>2. ASSUME drag_begin \/ drag_end
      PROVE  IInv'
  BY <1>2 DEF drag_begin, drag_end, curveVars, DraftsShown
<1>3. ASSUME FactoryShape
      PROVE  IInv'
  <2>1. default_points[profile] \in ValidCurves
    BY FactoryCurves
  <2> QED
    BY <1>3, <2>1, DrawsKeeps DEF FactoryShape, Draws
<1>4. ASSUME load_profile
      PROVE  IInv'
  <2>1. PICK m \in CurveModes : profile' = m /\ points' = loaded(drafts, status, m)
    BY <1>4 DEF load_profile
  <2>2. points' \in ValidCurves
    BY <2>1, LoadedIsValid
  <2>3. DraftsShown'
    BY <1>4, <2>1 DEF load_profile, loaded, DraftsShown
  <2>4. steps' \in Nat
    BY <1>4 DEF load_profile, Steps
  <2> QED
    BY <1>4, <2>1, <2>2, <2>3, <2>4 DEF load_profile
<1>5. ASSUME NEW k \in Slots, NEW m \in CurveModes, NEW c \in Stored,
             NEW u \in BOOLEAN, Send(k, m, c.points, c.enabled, u),
             drawn' \subseteq drawn, undo' \subseteq undo,
             steps' \in Nat
      PROVE  IInv'
  <2>1. stored(status, m) \in Stored
    BY LoadedIsValid
  <2>2. Sent(m, c.points, c.enabled, u, stored(status, m)) \in Calls
    <3>1. c = [points |-> c.points, enabled |-> c.enabled]
      BY DEF Stored
    <3> QED
      BY <2>1, <3>1 DEF Sent, Calls
  <2>3. sync(points, drafts, status)
    BY <1>5 DEF Send
  <2>4. /\ profile' \in CurveModes /\ points' \in ValidCurves
        /\ drafts[profile'] # Unset => points' = drafts[profile']
    BY <2>3, SyncShows DEF DraftsShown
  <2>5. DraftsShown'
    BY <1>5, <2>4 DEF Send, DraftsShown
  <2> QED
    BY <1>5, <2>2, <2>4, <2>5 DEF Send
<1>6. ASSUME NEW k \in Slots, Apply(k)
      PROVE  IInv'
  <2> DEFINE c == [points |-> points, enabled |-> TRUE]
  <2>1. c \in Stored
    BY DEF Stored
  <2>2. Send(k, profile, c.points, c.enabled, TRUE)
    BY <1>6 DEF Apply
  <2>3. drawn' \subseteq drawn /\ undo' \subseteq undo /\ steps' \in Nat
    BY <1>6 DEF Apply, Steps
  <2> QED
    BY <1>5, <2>1, <2>2, <2>3
<1>7. ASSUME NEW k \in Slots, Reset(k)
      PROVE  IInv'
  <2> DEFINE c == [points |-> stored(status, profile).points, enabled |-> FALSE]
  <2>1. c \in Stored
    BY LoadedIsValid DEF Stored
  <2>2. Send(k, profile, c.points, c.enabled, TRUE)
    BY <1>7 DEF Reset
  <2>3. drawn' \subseteq drawn /\ undo' \subseteq undo /\ steps' \in Nat
    BY <1>7 DEF Reset, Steps
  <2> QED
    BY <1>5, <2>1, <2>2, <2>3
<1>8. ASSUME NEW k \in Slots, Undo(k)
      PROVE  IInv'
  <2>1. PICK u \in undo :
          /\ Send(k, u.mode, u.curve.points, u.curve.enabled, FALSE)
          /\ undo' = undo \ {u}
    BY <1>8 DEF Undo
  <2>2. u.mode \in CurveModes /\ u.curve \in Stored
    OBVIOUS
  <2>3. drawn' \subseteq drawn /\ undo' \subseteq undo /\ steps' \in Nat
    BY <1>8, <2>1 DEF Undo
  <2> QED
    BY <1>5, <2>1, <2>2, <2>3
<1>9. ASSUME Expires
      PROVE  IInv'
  <2>1. undo' \subseteq undo
    BY <1>9 DEF Expires
  <2> QED
    BY <1>9, <2>1 DEF Expires, curveVars, DraftsShown
<1>10. ASSUME NEW k \in Slots, store(k)
       PROVE  IInv'
  <2>1. calls[k] \in Calls
    BY <1>10 DEF store
  <2>2. fan_curves' \in [CurveModes -> Stored \cup {Unset}]
    BY <1>10, <2>1 DEF store, Calls
  <2> DEFINE a == [curves |-> fan_curves', current |-> current]
  <2>3. a \in Answers
    BY <2>2 DEF Answers
  <2>4. [calls[k] EXCEPT !.answer = a] \in Calls
    BY <2>1, <2>3 DEF Calls
  <2>5. calls' = [calls EXCEPT ![k] = [calls[k] EXCEPT !.answer = a]]
    BY <1>10, <2>1 DEF store
  <2>6. calls' \in [Slots -> Calls \cup {NoCall}]
    BY <2>4, <2>5
  <2> QED
    BY <1>10, <2>2, <2>6 DEF store, curveVars, DraftsShown
<1>11. ASSUME NEW k \in Slots, Applied(k)
       PROVE  IInv'
  <2> DEFINE c  == calls[k]
             ds == drafts'
             st == status'
  <2>1. c \in Calls /\ c.answer \in Answers
    BY <1>11 DEF Applied, Calls
  <2>2. st = c.answer /\ st \in Answers
    BY <1>11, <2>1 DEF Applied
  <2>3. c.mode \in CurveModes /\ c.before \in Stored /\ c.curve \in Stored
    BY <2>1 DEF Calls
  <2>4. ds = IF c.curve.enabled THEN [drafts EXCEPT ![c.mode] = Unset]
             ELSE drafts
    BY <1>11 DEF Applied
  <2>5. ds \in [CurveModes -> ValidCurves \cup {Unset}]
    BY <2>3, <2>4
  <2>6. sync(points, ds, st)
    BY <1>11 DEF Applied
  <2>7. ds[profile] # Unset => points = ds[profile]
    BY <2>3, <2>4 DEF DraftsShown
  <2>8. calls' \in [Slots -> Calls \cup {NoCall}] /\ busy' \in BOOLEAN
    BY <1>11 DEF Applied
  <2>9. undo' \subseteq [mode : CurveModes, curve : Stored]
    BY <1>11, <2>3 DEF Applied
  <2>10. drawn' \subseteq CurveModes /\ \A m \in drawn' : ds[m] = last_drawn[m]
    <3>1. drawn' = IF c.curve.enabled THEN drawn \ {c.mode} ELSE drawn
      BY <1>11 DEF Applied
    <3>2. CASE c.curve.enabled
      BY <2>4, <3>1, <3>2 DEF DraftsShown
    <3>3. CASE ~c.curve.enabled
      BY <2>4, <3>1, <3>3 DEF DraftsShown
    <3> QED
      BY <3>2, <3>3
  <2>11. UNCHANGED <<fan_curves, current, last_drawn, touched, drag, poll, steps>>
    BY <1>11 DEF Applied
  <2> HIDE DEF c, ds, st
  <2>12. /\ profile' \in CurveModes /\ points' \in ValidCurves
         /\ ds[profile'] # Unset => points' = ds[profile']
    BY <2>2, <2>5, <2>6, <2>7, SyncShows
  <2> QED
    BY <2>2, <2>5, <2>8, <2>9, <2>10, <2>11, <2>12 DEF ds, st, DraftsShown
<1>12. ASSUME NEW k \in Slots, NotApplied(k)
       PROVE  IInv'
  <2> DEFINE c == calls[k]
  <2>1. c \in Calls /\ c.mode \in CurveModes
    BY <1>12 DEF NotApplied, Calls
  <2>2. sync(points, drafts, status)
    BY <1>12 DEF NotApplied
  <2>3. /\ profile' \in CurveModes /\ points' \in ValidCurves
        /\ drafts[profile'] # Unset => points' = drafts[profile']
    BY <2>2, SyncShows DEF DraftsShown
  <2>4. drawn' \subseteq CurveModes /\ \A m \in drawn' : drafts[m] = last_drawn[m]
    BY <1>12, <2>1 DEF NotApplied, DraftsShown
  <2>5. calls' \in [Slots -> Calls \cup {NoCall}] /\ busy' \in BOOLEAN
    BY <1>12 DEF NotApplied
  <2> QED
    BY <1>12, <2>3, <2>4, <2>5 DEF NotApplied, DraftsShown
<1>13. ASSUME PollSent \/ PollServed \/ PollFails
       PROVE  IInv'
  <2>1. poll' \in Answers \cup {Unset, NoCall}
    BY <1>13 DEF PollSent, PollServed, PollFails, Answers
  <2> QED
    BY <1>13, <2>1
    DEF PollSent, PollServed, PollFails, curveVars, DraftsShown
<1>14. ASSUME PollDone
       PROVE  IInv'
  <2>1. poll \in Answers
    BY <1>14 DEF PollDone
  <2> DEFINE p == IF ~drag /\ drafts[profile] = Unset
                  THEN stored(poll, profile).points ELSE points
  <2>2. p \in ValidCurves
    BY <2>1, LoadedIsValid DEF Stored
  <2>3. sync(p, drafts, poll)
    BY <1>14 DEF PollDone
  <2>4. drafts[profile] # Unset => p = drafts[profile]
    BY DEF DraftsShown
  <2> HIDE DEF p
  <2>5. /\ profile' \in CurveModes /\ points' \in ValidCurves
        /\ drafts[profile'] # Unset => points' = drafts[profile']
    BY <2>1, <2>2, <2>3, <2>4, SyncShows
  <2> QED
    BY <1>14, <2>1, <2>5 DEF PollDone, DraftsShown
<1>15. ASSUME Others
       PROVE  IInv'
  <2>1. fan_curves' \in [CurveModes -> Stored \cup {Unset}]
        /\ current' \in CurveModes
    BY <1>15, ForeignStored DEF Others
  <2>2. steps' \in Nat
    BY <1>15 DEF Others, Steps
  <2> QED
    BY <1>15, <2>1, <2>2 DEF Others, curveVars, DraftsShown
<1>16. ASSUME UNCHANGED vars
       PROVE  IInv'
  BY <1>16 DEF vars, curveVars, DraftsShown
<1> QED
  BY <1>1, <1>2, <1>3, <1>4, <1>6, <1>7, <1>8, <1>9, <1>10, <1>11, <1>12,
     <1>13, <1>14, <1>15, <1>16 DEF Next, Call

\* Drafts are shown on their tab, and all curves pass validate (CurveUi).
THEOREM IInvHolds == Spec => []IInv
<1>1. Init => IInv
  BY InitIInv
<1>2. IInv /\ [Next]_vars => IInv'
  BY NextIInv
<1> QED
  BY <1>1, <1>2, PTL DEF Spec

\* Every curve of editor, drafts, requests, answers and daemon passes validate.
THEOREM TypeCorrect == Spec => []TypeOK
<1>1. IInv => TypeOK
  BY DEF IInv
<1> QED
  BY <1>1, IInvHolds, PTL

\* A curve drawn and not sent stays the draft of its mode and is shown with it.
THEOREM DrawnCurvesAreKept == Spec => []EditsKept
<1>1. IInv => EditsKept
  <2> SUFFICES ASSUME IInv, NEW m \in drawn
               PROVE  /\ drafts[m] = last_drawn[m]
                      /\ profile = m => points = last_drawn[m]
    BY DEF EditsKept
  <2>1. drafts[m] = last_drawn[m] /\ last_drawn[m] \in ValidCurves
    BY DEF IInv, TypeOK, DraftsShown
  <2> QED
    BY <2>1, UnsetIsNoCurve DEF IInv, DraftsShown
<1> QED
  BY <1>1, IInvHolds, PTL
-----------------------------------------------------------------------------
-----------------------------------------------------------------------------
(***************************************************************************)
(* The lighting (SpectrumLighting): the last request wins, and the device  *)
(* shows what is stored.                                                   *)
(***************************************************************************)
T(b) == Keyboard!targets(b)
Shades == Keyboard!Lights \cup {Keyboard!Paint}
Screens == [level : Keyboard!AllLevels, zones : [Zones -> Shades]]
Effects == [Targets -> Colors \cup {Keyboard!None}]
Loads == Keyboard!AllLevels \cup {Keyboard!NoLevel}

\* An effect for all zones is alone in its batch, and so is a restore.
Batch(b) ==
    /\ b \in Keyboard!Batches
    /\ "all" \in T(b) => T(b) = {"all"}
    /\ b.restore => T(b) = {}

LEMMA CoversAre ==
    ASSUME NEW t \in Targets
    PROVE  /\ Keyboard!covers(t) \subseteq Zones
           /\ \A z \in Zones : z \in Keyboard!covers(t) <=>
                 t = "all" \/ t = z \/ (t = "chassis" /\ z \in {"front", "rear"})
  <1>1. CASE t = "all"
    BY <1>1 DEF Keyboard!covers
  <1>2. CASE t = "chassis"
    BY <1>2, LightingAssumption DEF Keyboard!covers
  <1>3. CASE t \notin {"all", "chassis"}
    BY <1>3 DEF Keyboard!covers
  <1>4. QED
    BY <1>1, <1>2, <1>3

LEMMA TargetsAre ==
    ASSUME NEW b \in Keyboard!Batches
    PROVE  /\ b.effects \in Effects /\ b.restore \in BOOLEAN /\ b.level \in Loads
           /\ T(b) \subseteq Targets
           /\ \A t \in Targets : t \in T(b) <=> b.effects[t] # Keyboard!None
           /\ \A t \in T(b) : b.effects[t] \in Colors
  BY DEF Keyboard!Batches, Effects, Loads, T, Keyboard!targets

LEMMA BatchIs ==
    ASSUME NEW e \in Effects, NEW r \in BOOLEAN, NEW l \in Loads
    PROVE  LET b == [effects |-> e, restore |-> r, level |-> l] IN
           /\ b \in Keyboard!Batches
           /\ T(b) = {t \in Targets : e[t] # Keyboard!None}
  BY DEF Keyboard!Batches, Effects, Loads, T, Keyboard!targets

LEMMA NoBatchIs ==
    /\ Batch(Keyboard!NoBatch) /\ T(Keyboard!NoBatch) = {}
    /\ Keyboard!NoBatch.restore = FALSE
    /\ Keyboard!NoBatch.level = Keyboard!NoLevel
  BY DEF Batch, Keyboard!NoBatch, Keyboard!Batches, T, Keyboard!targets

LEMMA BatchParts ==
    ASSUME NEW b \in Keyboard!Batches
    PROVE  \E e \in Effects, r \in BOOLEAN, l \in Loads :
             b = [effects |-> e, restore |-> r, level |-> l]
  <1>1. b = [effects |-> b.effects, restore |-> b.restore, level |-> b.level]
    BY DEF Keyboard!Batches
  <1>2. QED
    BY <1>1, TargetsAre

LEMMA AbsorbEffect ==
    ASSUME NEW b, Batch(b), NEW t \in Targets, NEW c \in Colors
    PROVE  LET d == Keyboard!absorb_effect(b, t, c) IN
           /\ Batch(d) /\ d.restore = FALSE /\ d.level = b.level
           /\ t \in T(d)
           /\ d.effects[t] = c
           /\ t = "all" => T(d) = {"all"}
           /\ t # "all" => "all" \notin T(d)
           /\ t # "all" => \A u \in Targets \ {t, "all"} : d.effects[u] = b.effects[u]
           /\ t # "all" => \A u \in Targets \ {t, "all"} : u \in T(d) <=> u \in T(b)
  <1> DEFINE e == [u \in Targets |-> IF u = t THEN c
                     ELSE IF u \in (IF t = "all" THEN Targets ELSE {"all"})
                          THEN Keyboard!None ELSE b.effects[u]]
             d == Keyboard!absorb_effect(b, t, c)
  <1>0. b \in Keyboard!Batches /\ c # Keyboard!None
    BY LightingAssumption DEF Batch
  <1>1. PICK e0 \in Effects, r0 \in BOOLEAN, l0 \in Loads :
          b = [effects |-> e0, restore |-> r0, level |-> l0]
    BY <1>0, BatchParts
  <1>2. d = [effects |-> e, restore |-> FALSE, level |-> l0]
    <2>1. \A x : [b EXCEPT !.restore = x, !.effects = e]
                  = [effects |-> e, restore |-> x, level |-> l0]
      <3> TAKE x
      <3>1. [b EXCEPT !.restore = x] = [effects |-> e0, restore |-> x, level |-> l0]
        BY <1>1
      <3>2. [b EXCEPT !.restore = x, !.effects = e]
               = [[b EXCEPT !.restore = x] EXCEPT !.effects = e]
        BY <1>1
      <3> HIDE DEF e
      <3>3. [[effects |-> e0, restore |-> x, level |-> l0] EXCEPT !.effects = e]
               = [effects |-> e, restore |-> x, level |-> l0]
        OBVIOUS
      <3>4. QED
        BY <3>1, <3>2, <3>3
    <2>2. d = [b EXCEPT !.restore = FALSE, !.effects = e]
      BY DEF Keyboard!absorb_effect
    <2> HIDE DEF d, e
    <2>3. QED
      BY <2>1, <2>2, Zenon
  <1>3. b.effects \in Effects /\ b.level = l0
    BY <1>1
  <1>4. e \in Effects
    BY <1>3 DEF Effects
  <1>5. d \in Keyboard!Batches /\ T(d) = {u \in Targets : e[u] # Keyboard!None}
    BY <1>2, <1>3, <1>4, BatchIs
  <1>6. d.effects = e /\ d.restore = FALSE /\ d.level = b.level
    BY <1>2, <1>3
  <1>7. t = "all" => T(d) = {"all"}
    BY <1>0, <1>5
  <1>8. t # "all" => "all" \notin T(d)
    BY <1>5
  <1>9. Batch(d)
    BY <1>5, <1>6, <1>7, <1>8 DEF Batch
  <1>10. \A u \in Targets : u \in T(b) <=> b.effects[u] # Keyboard!None
    BY <1>0, TargetsAre
  <1>11. t # "all" => \A u \in Targets \ {t, "all"} : e[u] = b.effects[u]
    OBVIOUS
  <1>12. t \in T(d) /\ e[t] = c
    BY <1>0, <1>5
  <1> HIDE DEF d, e
  <1>13. t # "all" => \A u \in Targets \ {t, "all"} : u \in T(d) <=> u \in T(b)
    BY <1>5, <1>10, <1>11
  <1>14. QED
    BY <1>6, <1>7, <1>8, <1>9, <1>11, <1>12, <1>13 DEF d

LEMMA AbsorbRestore ==
    ASSUME NEW b, Batch(b)
    PROVE  LET d == Keyboard!absorb_restore(b) IN
           Batch(d) /\ d.restore = TRUE /\ d.level = b.level /\ T(d) = {}
  <1> DEFINE e == [t \in Targets |-> Keyboard!None]
             d == Keyboard!absorb_restore(b)
  <1>0. b \in Keyboard!Batches
    BY DEF Batch
  <1>1. PICK e0 \in Effects, r0 \in BOOLEAN, l0 \in Loads :
          b = [effects |-> e0, restore |-> r0, level |-> l0]
    BY <1>0, BatchParts
  <1>2. d = [effects |-> e, restore |-> TRUE, level |-> l0]
    <2>1. \A x : [b EXCEPT !.restore = x, !.effects = e]
                  = [effects |-> e, restore |-> x, level |-> l0]
      <3> TAKE x
      <3>1. [b EXCEPT !.restore = x] = [effects |-> e0, restore |-> x, level |-> l0]
        BY <1>1
      <3>2. [b EXCEPT !.restore = x, !.effects = e]
               = [[b EXCEPT !.restore = x] EXCEPT !.effects = e]
        BY <1>1
      <3> HIDE DEF e
      <3>3. [[effects |-> e0, restore |-> x, level |-> l0] EXCEPT !.effects = e]
               = [effects |-> e, restore |-> x, level |-> l0]
        OBVIOUS
      <3>4. QED
        BY <3>1, <3>2, <3>3
    <2>2. d = [b EXCEPT !.restore = TRUE, !.effects = e]
      BY DEF Keyboard!absorb_restore, Keyboard!NoBatch
    <2> HIDE DEF d, e
    <2>3. QED
      BY <2>1, <2>2, Zenon
  <1>3. e \in Effects /\ b.level = l0
    BY <1>1 DEF Effects
  <1>4. d \in Keyboard!Batches /\ T(d) = {}
    BY <1>2, <1>3, BatchIs
  <1>5. QED
    BY <1>1, <1>2, <1>4 DEF Batch

LEMMA LevelIn ==
    ASSUME NEW b, Batch(b), NEW l \in Loads
    PROVE  LET d == [b EXCEPT !.level = l] IN
           /\ Batch(d) /\ d.level = l /\ d.restore = b.restore
           /\ T(d) = T(b) /\ d.effects = b.effects
  <1> DEFINE d == [b EXCEPT !.level = l]
  <1>0. b \in Keyboard!Batches
    BY DEF Batch
  <1>1. PICK e0 \in Effects, r0 \in BOOLEAN, l0 \in Loads :
          b = [effects |-> e0, restore |-> r0, level |-> l0]
    BY <1>0, BatchParts
  <1>2. d = [effects |-> e0, restore |-> r0, level |-> l]
    BY <1>1
  <1>3. d \in Keyboard!Batches /\ T(d) = {t \in Targets : e0[t] # Keyboard!None}
    BY <1>2, BatchIs
  <1>4. T(d) = T(b)
    BY <1>1, <1>3 DEF T, Keyboard!targets
  <1>5. QED
    BY <1>1, <1>2, <1>3, <1>4 DEF Batch

\* An effect that is carried out leaves the batch.
LEMMA EffectOut ==
    ASSUME NEW b, Batch(b), NEW t \in T(b)
    PROVE  LET d == [b EXCEPT !.effects[t] = Keyboard!None] IN
           /\ Batch(d) /\ d.level = b.level /\ d.restore = b.restore
           /\ T(d) = T(b) \ {t}
           /\ \A u \in T(d) : d.effects[u] = b.effects[u]
  <1> DEFINE e == [b.effects EXCEPT ![t] = Keyboard!None]
             d == [b EXCEPT !.effects[t] = Keyboard!None]
  <1>0. b \in Keyboard!Batches
    BY DEF Batch
  <1>1. PICK e0 \in Effects, r0 \in BOOLEAN, l0 \in Loads :
          b = [effects |-> e0, restore |-> r0, level |-> l0]
    BY <1>0, BatchParts
  <1>2. d = [effects |-> e, restore |-> r0, level |-> l0]
    BY <1>1
  <1>3. b.effects \in Effects /\ b.restore \in BOOLEAN /\ b.level \in Loads
        /\ t \in Targets
        /\ \A u \in Targets : u \in T(b) <=> b.effects[u] # Keyboard!None
        /\ T(b) \subseteq Targets
    BY <1>0, TargetsAre
  <1>4. e \in Effects /\ e[t] = Keyboard!None
        /\ \A u \in Targets \ {t} : e[u] = b.effects[u]
    BY <1>3 DEF Effects
  <1> HIDE DEF e, d
  <1>5. d \in Keyboard!Batches /\ T(d) = {u \in Targets : e[u] # Keyboard!None}
    BY <1>2, <1>4, BatchIs
  <1>6. T(d) = T(b) \ {t}
    BY <1>3, <1>4, <1>5
  <1>7. Batch(d)
    BY <1>1, <1>2, <1>5, <1>6 DEF Batch
  <1>8. \A u \in T(d) : e[u] = b.effects[u]
    BY <1>3, <1>4, <1>6
  <1>9. QED
    BY <1>1, <1>2, <1>6, <1>7, <1>8 DEF d

LEMMA RestoreOut ==
    ASSUME NEW b, Batch(b)
    PROVE  LET d == [b EXCEPT !.restore = FALSE] IN
           /\ Batch(d) /\ d.level = b.level /\ d.restore = FALSE
           /\ T(d) = T(b) /\ d.effects = b.effects
  <1> DEFINE d == [b EXCEPT !.restore = FALSE]
  <1>0. b \in Keyboard!Batches
    BY DEF Batch
  <1>1. PICK e0 \in Effects, r0 \in BOOLEAN, l0 \in Loads :
          b = [effects |-> e0, restore |-> r0, level |-> l0]
    BY <1>0, BatchParts
  <1>2. d = [effects |-> e0, restore |-> FALSE, level |-> l0]
    <2>1. \A x : [b EXCEPT !.restore = x]
                  = [effects |-> e0, restore |-> x, level |-> l0]
      BY <1>1
    <2>2. QED
      BY <2>1, Zenon
  <1>3. d \in Keyboard!Batches /\ T(d) = {t \in Targets : e0[t] # Keyboard!None}
    BY <1>2, BatchIs
  <1>4. T(d) = T(b)
    BY <1>1, <1>3 DEF T, Keyboard!targets
  <1>5. QED
    BY <1>1, <1>2, <1>3, <1>4 DEF Batch

\* The effect that is carried out next is one of the batch, and none of the
\* others goes before it.
LEMMA NextEffect ==
    ASSUME NEW b, Batch(b), T(b) # {}
    PROVE  LET t == CHOOSE u \in T(b) :
                      \A v \in T(b) : Keyboard!rank(u) <= Keyboard!rank(v)
           IN  /\ t \in T(b)
               /\ \A v \in T(b) : Keyboard!rank(t) <= Keyboard!rank(v)
  <1>1. \A v \in T(b) : v \in {"all", "keyboard", "front", "rear", "chassis", "logo"}
    BY LightingAssumption DEF T, Keyboard!targets
  <1>2. /\ Keyboard!rank("all") = 0 /\ Keyboard!rank("keyboard") = 1
        /\ Keyboard!rank("front") = 2 /\ Keyboard!rank("rear") = 3
        /\ Keyboard!rank("chassis") = 4 /\ Keyboard!rank("logo") = 5
    BY DEF Keyboard!rank
  <1>3. \E u \in T(b) : \A v \in T(b) : Keyboard!rank(u) <= Keyboard!rank(v)
    <2>1. CASE "all" \in T(b)
      BY <1>1, <1>2, <2>1
    <2>2. CASE "all" \notin T(b) /\ "keyboard" \in T(b)
      BY <1>1, <1>2, <2>2
    <2>3. CASE "all" \notin T(b) /\ "keyboard" \notin T(b) /\ "front" \in T(b)
      BY <1>1, <1>2, <2>3
    <2>4. CASE /\ "all" \notin T(b) /\ "keyboard" \notin T(b)
               /\ "front" \notin T(b) /\ "rear" \in T(b)
      BY <1>1, <1>2, <2>4
    <2>5. CASE /\ "all" \notin T(b) /\ "keyboard" \notin T(b)
               /\ "front" \notin T(b) /\ "rear" \notin T(b)
      <3>1. CASE "chassis" \in T(b)
        BY <1>1, <1>2, <2>5, <3>1
      <3>2. CASE "chassis" \notin T(b)
        BY <1>1, <1>2, <2>5, <3>2
      <3>3. QED
        BY <3>1, <3>2
    <2>6. QED
      BY <2>1, <2>2, <2>3, <2>4, <2>5
  <1>4. QED
    BY <1>3
-----------------------------------------------------------------------------
Settings == Keyboard!Config
Zoned == [Zones -> Keyboard!Lights]
Flags == BOOLEAN

LEMMA ConfigIs ==
    ASSUME NEW c \in Settings
    PROVE  /\ c.level \in Keyboard!AllLevels /\ c.zones \in Zoned
           /\ c.painted \in Flags /\ c.lighting_mode \in {"effects", "per-key"}
           /\ \E l \in Keyboard!AllLevels, s \in Zoned, p \in Flags,
                 m \in {"effects", "per-key"} :
                c = [level |-> l, zones |-> s, painted |-> p, lighting_mode |-> m]
  <1>1. /\ c.level \in Keyboard!AllLevels /\ c.zones \in Zoned
        /\ c.painted \in Flags /\ c.lighting_mode \in {"effects", "per-key"}
    BY DEF Settings, Keyboard!Config, Zoned, Flags
  <1>2. c = [level |-> c.level, zones |-> c.zones, painted |-> c.painted,
             lighting_mode |-> c.lighting_mode]
    BY DEF Settings, Keyboard!Config
  <1>3. QED
    BY <1>1, <1>2

LEMMA ConfigOf ==
    ASSUME NEW l \in Keyboard!AllLevels, NEW s \in Zoned, NEW p \in Flags,
           NEW m \in {"effects", "per-key"}
    PROVE  [level |-> l, zones |-> s, painted |-> p, lighting_mode |-> m]
              \in Settings
  BY DEF Settings, Keyboard!Config, Zoned, Flags

LEMMA DefaultsAre ==
    /\ Keyboard!Defaults \in Settings
    /\ Keyboard!Defaults.lighting_mode = "effects"
  <1>1. [z \in Zones |-> Keyboard!White] \in Zoned
    BY DEF Zoned, Keyboard!Lights
  <1>2. 9 \in Keyboard!AllLevels
    BY DEF Keyboard!AllLevels
  <1>3. QED
    BY <1>1, <1>2, ConfigOf DEF Keyboard!Defaults, Flags

LEMMA ShownIs ==
    ASSUME NEW c \in Settings
    PROVE  /\ Keyboard!shown(c) \in [Zones -> Shades]
  BY ConfigIs DEF Keyboard!shown, Shades, Zoned

\* What is shown does not depend on the brightness.
LEMMA LevelSet ==
    ASSUME NEW c \in Settings, NEW l \in Keyboard!AllLevels
    PROVE  LET d == [c EXCEPT !.level = l] IN
           /\ d \in Settings /\ d.level = l
           /\ d.zones = c.zones /\ d.lighting_mode = c.lighting_mode
           /\ Keyboard!shown(d) = Keyboard!shown(c)
  <1> DEFINE d == [c EXCEPT !.level = l]
  <1>1. PICK l0 \in Keyboard!AllLevels, s \in Zoned, p \in Flags,
             m \in {"effects", "per-key"} :
          c = [level |-> l0, zones |-> s, painted |-> p, lighting_mode |-> m]
    BY ConfigIs
  <1>2. d = [level |-> l, zones |-> s, painted |-> p, lighting_mode |-> m]
    BY <1>1
  <1> HIDE DEF d
  <1>3. d \in Settings
    BY <1>2, ConfigOf
  <1>4. d.level = l /\ d.zones = c.zones /\ d.painted = c.painted
        /\ d.lighting_mode = c.lighting_mode
    BY <1>1, <1>2
  <1>5. Keyboard!shown(d) = Keyboard!shown(c)
    BY <1>4 DEF Keyboard!shown
  <1>6. QED
    BY <1>3, <1>4, <1>5 DEF d

Painted(c, p, m) == [c EXCEPT !.painted = p, !.lighting_mode = m]

LEMMA ModeSet ==
    ASSUME NEW c \in Settings, NEW p \in Flags, NEW m \in {"effects", "per-key"}
    PROVE  /\ Painted(c, p, m) \in Settings /\ Painted(c, p, m).level = c.level
           /\ Painted(c, p, m).zones = c.zones
           /\ Painted(c, p, m).lighting_mode = m
  <1> DEFINE d == Painted(c, p, m)
             e == [c EXCEPT !.painted = p]
  <1>1. PICK l \in Keyboard!AllLevels, s \in Zoned, p0 \in Flags,
             m0 \in {"effects", "per-key"} :
          c = [level |-> l, zones |-> s, painted |-> p0, lighting_mode |-> m0]
    BY ConfigIs
  <1>2. e = [level |-> l, zones |-> s, painted |-> p, lighting_mode |-> m0]
    BY <1>1
  <1>3. d = [e EXCEPT !.lighting_mode = m]
    BY <1>1 DEF Painted
  <1> HIDE DEF e
  <1>4. [e EXCEPT !.lighting_mode = m]
           = [level |-> l, zones |-> s, painted |-> p, lighting_mode |-> m]
    BY <1>2
  <1>5. d = [level |-> l, zones |-> s, painted |-> p, lighting_mode |-> m]
    BY <1>3, <1>4
  <1> HIDE DEF d
  <1>6. d.level = l /\ d.zones = s /\ d.lighting_mode = m
    BY <1>5
  <1>7. c.level = l /\ c.zones = s
    BY <1>1
  <1>8. d \in Settings
    BY <1>5, ConfigOf
  <1>9. QED
    BY <1>6, <1>7, <1>8 DEF d

LEMMA ZonesSet ==
    ASSUME NEW c \in Settings, NEW t \in Targets, NEW color \in Colors
    PROVE  LET d == Keyboard!apply_zone_update(c, t, color) IN
           /\ d \in Settings /\ d.level = c.level /\ d.lighting_mode = "effects"
           /\ \A z \in Zones :
                 d.zones[z] = IF z \in Keyboard!covers(t) THEN color ELSE c.zones[z]
  <1> DEFINE s2 == [z \in Zones |-> IF z \in Keyboard!covers(t) THEN color
                                    ELSE c.zones[z]]
             d == [c EXCEPT !.lighting_mode = "effects", !.zones = s2]
             e == [c EXCEPT !.lighting_mode = "effects"]
  <1>1. PICK l \in Keyboard!AllLevels, s \in Zoned, p \in Flags,
             m \in {"effects", "per-key"} :
          c = [level |-> l, zones |-> s, painted |-> p, lighting_mode |-> m]
    BY ConfigIs
  <1>2. e = [level |-> l, zones |-> s, painted |-> p, lighting_mode |-> "effects"]
    BY <1>1
  <1>3. d = [e EXCEPT !.zones = s2]
    BY <1>1
  <1>4. s2 \in Zoned /\ \A z \in Zones :
           s2[z] = IF z \in Keyboard!covers(t) THEN color ELSE c.zones[z]
    BY <1>1 DEF Zoned, Keyboard!Lights
  <1> HIDE DEF e, s2
  <1>5. [e EXCEPT !.zones = s2]
           = [level |-> l, zones |-> s2, painted |-> p, lighting_mode |-> "effects"]
    BY <1>2
  <1>6. d = [level |-> l, zones |-> s2, painted |-> p, lighting_mode |-> "effects"]
    BY <1>3, <1>5
  <1>7. Keyboard!apply_zone_update(c, t, color) = d
    BY DEF Keyboard!apply_zone_update, s2
  <1> HIDE DEF d
  <1>8. d \in Settings
    BY <1>4, <1>6, ConfigOf
  <1>9. QED
    BY <1>1, <1>4, <1>6, <1>7, <1>8

LEMMA ScreenOf ==
    ASSUME NEW h \in Screens
    PROVE  /\ h.level \in Keyboard!AllLevels /\ h.zones \in [Zones -> Shades]
           /\ \A l \in Keyboard!AllLevels :
                 LET g == [h EXCEPT !.level = l] IN
                 g \in Screens /\ g.level = l /\ g.zones = h.zones
  <1>1. h.level \in Keyboard!AllLevels /\ h.zones \in [Zones -> Shades]
    BY DEF Screens
  <1>2. h = [level |-> h.level, zones |-> h.zones]
    BY DEF Screens
  <1>3. ASSUME NEW l \in Keyboard!AllLevels
        PROVE  LET g == [h EXCEPT !.level = l] IN
               g \in Screens /\ g.level = l /\ g.zones = h.zones
    <2>1. PICK l0 \in Keyboard!AllLevels, s \in [Zones -> Shades] :
            h = [level |-> l0, zones |-> s]
      BY <1>1, <1>2
    <2>2. [h EXCEPT !.level = l] = [level |-> l, zones |-> s]
      BY <2>1
    <2>3. [level |-> l, zones |-> s] \in Screens
      BY DEF Screens
    <2>4. QED
      BY <2>1, <2>2, <2>3
  <1>4. QED
    BY <1>1, <1>3

LEMMA LitIs ==
    ASSUME NEW h \in Screens, NEW c \in Settings
    PROVE  LET g == Keyboard!lit(h, c) IN
           /\ g \in Screens /\ g.zones = Keyboard!shown(c)
           /\ g.level = IF h.level = 0
                        THEN (IF c.level = 0 THEN 1 ELSE c.level) ELSE h.level
  <1> DEFINE l == IF h.level = 0 THEN (IF c.level = 0 THEN 1 ELSE c.level)
                  ELSE h.level
  <1>1. h.level \in Keyboard!AllLevels /\ c.level \in Keyboard!AllLevels
    BY ScreenOf, ConfigIs
  <1>2. l \in Keyboard!AllLevels
    BY <1>1 DEF Keyboard!AllLevels
  <1>3. Keyboard!lit(h, c) = [level |-> l, zones |-> Keyboard!shown(c)]
    BY DEF Keyboard!lit
  <1> HIDE DEF l
  <1>4. [level |-> l, zones |-> Keyboard!shown(c)] \in Screens
    BY <1>2, ShownIs DEF Screens
  <1>5. QED
    BY <1>3, <1>4 DEF l
-----------------------------------------------------------------------------
\* What zone z will have when all the effects of a batch are carried out.
Final(b, v, z) ==
    IF "all" \in T(b) THEN b.effects["all"]
    ELSE IF z \in {"front", "rear"} /\ "chassis" \in T(b) THEN b.effects["chassis"]
    ELSE IF z \in T(b) THEN b.effects[z]
    ELSE v

LEMMA ZoneNames ==
    ASSUME NEW z \in Zones PROVE z \notin {"all", "chassis", "mode"}
  BY LightingAssumption

LEMMA GivesUpIs ==
    ASSUME NEW b, Batch(b), NEW t \in Targets
    PROVE  /\ Keyboard!gives_up(b, t) \subseteq Zones
           /\ \A z \in Zones : z \in Keyboard!gives_up(b, t) <=>
                 /\ t # "all"
                 /\ \/ "all" \in T(b)
                    \/ /\ t \in {"front", "rear"} /\ "chassis" \in T(b)
                       /\ z \in Keyboard!covers(t)
  <1>1. Keyboard!targets(b) = T(b) /\ T(b) \subseteq Targets
    BY TargetsAre DEF T, Batch
  <1>2. Keyboard!covers("all") = Zones
    BY DEF Keyboard!covers
  <1>3. Keyboard!covers(t) \subseteq Zones
    BY CoversAre
  <1>4. UNION {Keyboard!covers(u) : u \in Keyboard!targets(b) \cap {"all"}}
           = IF "all" \in T(b) THEN Zones ELSE {}
    BY <1>1, <1>2
  <1>5. Keyboard!gives_up(b, t) =
           IF t = "all" THEN {}
           ELSE (IF "all" \in T(b) THEN Zones ELSE {}) \cup
                (IF t \in {"front", "rear"} /\ "chassis" \in T(b)
                 THEN Keyboard!covers(t) ELSE {})
    <2>1. CASE t = "all"
      BY <2>1, Zenon DEF Keyboard!gives_up
    <2>2. CASE t # "all"
      <3>1. Keyboard!gives_up(b, t) =
               (UNION {Keyboard!covers(u) : u \in Keyboard!targets(b) \cap {"all"}})
                 \cup (IF t \in {"front", "rear"} /\ "chassis" \in Keyboard!targets(b)
                       THEN Keyboard!covers(t) ELSE {})
        BY <2>2, Zenon DEF Keyboard!gives_up
      <3>2. QED
        BY <1>1, <1>4, <2>2, <3>1, Zenon
    <2>3. QED
      BY <2>1, <2>2
  <1>6. QED
    BY <1>3, <1>5

LEMMA FinalAbsorb ==
    ASSUME NEW b, Batch(b), NEW t \in Targets, NEW c \in Colors, NEW z \in Zones,
           z \notin Keyboard!gives_up(b, t), NEW v
    PROVE  Final(Keyboard!absorb_effect(b, t, c), v, z)
              = IF z \in Keyboard!covers(t) THEN c ELSE Final(b, v, z)
  <1> DEFINE d == Keyboard!absorb_effect(b, t, c)
  <1>1. /\ t \in T(d) /\ d.effects[t] = c
        /\ t = "all" => T(d) = {"all"}
        /\ t # "all" => "all" \notin T(d)
        /\ t # "all" => \A u \in Targets \ {t, "all"} : d.effects[u] = b.effects[u]
        /\ t # "all" => \A u \in Targets \ {t, "all"} : u \in T(d) <=> u \in T(b)
        /\ Batch(d)
    <2>1. /\ Batch(d) /\ d.restore = FALSE /\ d.level = b.level
          /\ t \in T(d)
          /\ d.effects[t] = c
          /\ t = "all" => T(d) = {"all"}
          /\ t # "all" => "all" \notin T(d)
          /\ t # "all" => \A u \in Targets \ {t, "all"} : d.effects[u] = b.effects[u]
          /\ t # "all" => \A u \in Targets \ {t, "all"} : u \in T(d) <=> u \in T(b)
      BY AbsorbEffect
    <2>2. QED
      BY <2>1
  <1> HIDE DEF d
  <1>2. T(d) \subseteq Targets /\ T(b) \subseteq Targets
    BY <1>1, TargetsAre DEF Batch
  <1>3. z \notin {"all", "chassis"}
    BY ZoneNames
  <1>4. z \in Keyboard!covers(t) <=>
           t = "all" \/ t = z \/ (t = "chassis" /\ z \in {"front", "rear"})
    BY CoversAre
  <1>5. CASE t = "all"
    BY <1>1, <1>4, <1>5 DEF Final, d
  <1>6. CASE t # "all"
    <2>1. "all" \notin T(b)
          /\ ~(t \in {"front", "rear"} /\ "chassis" \in T(b) /\ z \in Keyboard!covers(t))
      BY <1>6, GivesUpIs
    <2>2. "chassis" # t => ("chassis" \in T(d) <=> "chassis" \in T(b))
      BY <1>1, <1>2, <1>6
    <2>3. "chassis" # t /\ "chassis" \in T(d) => d.effects["chassis"] = b.effects["chassis"]
      BY <1>1, <1>2, <1>6
    <2>4. z # t => (z \in T(d) <=> z \in T(b))
      BY <1>1, <1>2, <1>3, <1>6
    <2>5. z # t /\ z \in T(d) => d.effects[z] = b.effects[z]
      BY <1>1, <1>2, <1>3, <1>6
    <2>6. CASE t = z
      <3>1. ~(z \in {"front", "rear"} /\ "chassis" \in T(d))
        BY <1>3, <1>4, <2>1, <2>2, <2>6
      <3>2. QED
        BY <1>1, <1>4, <1>6, <2>6, <3>1 DEF Final, d
    <2>7. CASE t # z /\ t = "chassis"
      <3>1. CASE z \in {"front", "rear"}
        BY <1>1, <1>4, <1>6, <2>7, <3>1 DEF Final, d
      <3>2. CASE z \notin {"front", "rear"}
        BY <1>1, <1>4, <1>6, <2>1, <2>4, <2>5, <2>7, <3>2 DEF Final, d
      <3>3. QED
        BY <3>1, <3>2
    <2>8. CASE t # z /\ t # "chassis"
      BY <1>1, <1>4, <1>6, <2>1, <2>2, <2>3, <2>4, <2>5, <2>8 DEF Final, d
    <2>9. QED
      BY <2>6, <2>7, <2>8
  <1>7. QED
    BY <1>5, <1>6

\* Carrying out the next effect does not change what a zone will have.
LEMMA FinalStep ==
    ASSUME NEW b, Batch(b), NEW t \in T(b),
           \A u \in T(b) : Keyboard!rank(t) <= Keyboard!rank(u),
           NEW z \in Zones, NEW v
    PROVE  Final([b EXCEPT !.effects[t] = Keyboard!None],
                 IF z \in Keyboard!covers(t) THEN b.effects[t] ELSE v, z)
              = Final(b, v, z)
  <1> DEFINE d == [b EXCEPT !.effects[t] = Keyboard!None]
  <1>1. T(d) = T(b) \ {t} /\ \A u \in T(d) : d.effects[u] = b.effects[u]
    BY EffectOut
  <1>2. T(b) \subseteq Targets /\ ("all" \in T(b) => T(b) = {"all"})
    BY TargetsAre DEF Batch
  <1>3. z \notin {"all", "chassis"}
    BY ZoneNames
  <1>4. z \in Keyboard!covers(t) <=>
           t = "all" \/ t = z \/ (t = "chassis" /\ z \in {"front", "rear"})
    BY <1>2, CoversAre
  <1> HIDE DEF d
  <1>5. CASE t = "all"
    BY <1>1, <1>2, <1>4, <1>5 DEF Final, d
  <1>6. CASE t # "all"
    <2>1. "all" \notin T(b) /\ "all" \notin T(d)
      BY <1>1, <1>2, <1>6
    <2>2. CASE t = z
      BY <1>1, <1>3, <1>4, <1>6, <2>1, <2>2 DEF Final, d
    <2>3. CASE t = "chassis"
      <3>1. /\ Keyboard!rank("chassis") = 4
            /\ Keyboard!rank("front") = 2 /\ Keyboard!rank("rear") = 3
        BY DEF Keyboard!rank
      <3>2. "front" \notin T(b) /\ "rear" \notin T(b)
        BY <2>3, <3>1
      <3>3. QED
        BY <1>1, <1>3, <1>4, <1>6, <2>1, <2>3, <3>2 DEF Final, d
    <2>4. CASE t # z /\ t # "chassis"
      BY <1>1, <1>3, <1>4, <1>6, <2>1, <2>4 DEF Final, d
    <2>5. QED
      BY <2>2, <2>3, <2>4
  <1>7. QED
    BY <1>5, <1>6

\* A batch changes the zones it is about.
LEMMA ZonesOf ==
    ASSUME NEW b, Batch(b)
    PROVE  /\ Keyboard!zones_of(b) \subseteq Zones \cup {"mode"}
           /\ "mode" \in Keyboard!zones_of(b) <=> T(b) # {}
           /\ \A z \in Zones \ Keyboard!zones_of(b) : \A v : Final(b, v, z) = v
  <1>1. T(b) \subseteq Targets /\ Keyboard!targets(b) = T(b)
    BY TargetsAre DEF Batch, T
  <1>2. \A t \in T(b) : Keyboard!covers(t) \subseteq Zones
    BY <1>1, CoversAre
  <1>3. ASSUME NEW z \in Zones, z \notin Keyboard!zones_of(b), NEW v
        PROVE  Final(b, v, z) = v
    <2>1. \A t \in T(b) : z \notin Keyboard!covers(t)
      BY <1>1, <1>3 DEF Keyboard!zones_of
    <2>2. \A t \in T(b) :
             ~(t = "all" \/ t = z \/ (t = "chassis" /\ z \in {"front", "rear"}))
      BY <1>1, <2>1, CoversAre
    <2>3. QED
      BY <2>2 DEF Final
  <1>4. "mode" \notin Zones
    BY LightingAssumption
  <1>5. QED
    BY <1>1, <1>2, <1>3, <1>4 DEF Keyboard!zones_of

LEMMA FinalNone ==
    ASSUME NEW b, T(b) = {}, NEW v, NEW z PROVE Final(b, v, z) = v
  BY DEF Final
-----------------------------------------------------------------------------
Places == {"recv", "bright", "effects", "show"}
Repairs == {"watch", "bright", "white", "restore", "kick", "verify", "again"}

\* The types, by who writes them.
WorkerType ==
    /\ cfg \in Settings /\ snap \in Settings
    /\ Batch(queue) /\ Batch(work)
    /\ at \in Places
    /\ at = "recv" => work = Keyboard!NoBatch
    /\ at # "show" => snap = Keyboard!Defaults
    /\ owed \subseteq Keyboard!Owings

DaemonType ==
    /\ hw \in Screens /\ device \in {"ok", "blocked", "dead"}
    /\ dcfg \in Settings
    /\ watch \in Repairs
    /\ kicked \in BOOLEAN /\ by_user \in BOOLEAN
    /\ watch = "watch" => ~by_user /\ ~kicked
    /\ cooldown \in 0 .. Cooldown

HistoryType ==
    /\ asked \in Zoned /\ mode_asked \in {"effects", "per-key"}
    /\ lost \subseteq Zones /\ waived \subseteq Zones \cup {"mode"}
    /\ stale \in BOOLEAN /\ bumped \in BOOLEAN
    /\ requests \in 0 .. Requests /\ faults \in 0 .. Faults

LightingType == WorkerType /\ DaemonType /\ HistoryType

LEMMA LightingTypes == Keyboard!TypeOK <=> LightingType
  BY DEF Keyboard!TypeOK, LightingType, WorkerType, DaemonType, HistoryType,
         Screens, Shades, Settings, Zoned, Batch, T, Places, Repairs

\* What is stored, changed by the effects in hand, is what was asked for.
StoredLast ==
    /\ \A z \in Zones \ (lost \cup waived) :
          Final(queue, Final(work, cfg.zones[z], z), z) = asked[z]
    /\ "mode" \notin waived =>
          IF T(queue) = {} /\ T(work) = {} THEN cfg.lighting_mode = mode_asked
          ELSE mode_asked = "effects"

\* What is stored is, or will be, shown.
Pends(b) == T(b) # {} \/ b.restore
ToShow == owed # {} \/ Pends(queue) \/ Pends(work)
ShownLast ==
    ~ToShow =>
        IF at = "show" THEN Keyboard!shown(snap) = Keyboard!shown(cfg)
        ELSE ~stale => hw.zones = Keyboard!shown(cfg)

\* The brightness stored is, or will be, the device's.
ToLight ==
    \/ \E o \in owed : o[2] # Keyboard!NoLevel
    \/ queue.level # Keyboard!NoLevel
    \/ at = "bright" /\ work.level # Keyboard!NoLevel
LitLast ==
    ~ToLight =>
        /\ at = "show" => snap.level = cfg.level
        /\ ~bumped => hw.level = cfg.level \/ (hw.level = 1 /\ cfg.level = 0)

LightingInv == LightingType /\ StoredLast /\ ShownLast /\ LitLast

\* Whatever else writes to the device says so.
LEMMA OthersKeep ==
    ASSUME LightingInv,
           UNCHANGED <<cfg, queue, at, work, snap, owed, asked, mode_asked, lost,
                       waived>>,
           stale' = TRUE \/ (stale' = stale /\ hw'.zones = hw.zones),
           bumped' = TRUE \/ (bumped' = bumped /\ hw'.level = hw.level)
    PROVE  WorkerType' /\ StoredLast' /\ ShownLast' /\ LitLast'
  <1>1. WorkerType'
    BY DEF LightingInv, LightingType, WorkerType, Batch, T, Keyboard!targets
  <1>2. StoredLast'
    BY DEF LightingInv, StoredLast, Final, T, Keyboard!targets
  <1>3. ShownLast'
    BY DEF LightingInv, ShownLast, ToShow, Pends, T, Keyboard!targets,
           Keyboard!shown
  <1>4. LitLast'
    BY DEF LightingInv, LitLast, ToLight
  <1>5. QED
    BY <1>1, <1>2, <1>3, <1>4
-----------------------------------------------------------------------------
LEMMA LightingTake ==
    ASSUME LightingInv, Keyboard!Take PROVE LightingInv'
  <1> USE DEF LightingInv, LightingType, Keyboard!deviceVars, Keyboard!daemonVars,
              Keyboard!history, Keyboard!bounds
  <1>1. /\ at = "recv" /\ at' = "bright" /\ work = Keyboard!NoBatch
        /\ work' = queue /\ queue' = Keyboard!NoBatch
        /\ UNCHANGED <<hw, device, cfg, snap, owed, dcfg, watch, by_user, kicked,
                       cooldown, asked, mode_asked, lost, waived, stale, bumped,
                       requests, faults>>
    BY DEF Keyboard!Take, WorkerType
  <1>2. T(work) = {} /\ T(queue') = {} /\ T(work') = T(queue)
        /\ work.restore = FALSE /\ queue'.restore = FALSE
        /\ queue'.level = Keyboard!NoLevel
    BY <1>1, NoBatchIs
  <1>3. WorkerType'
    <2>1. Batch(queue)
      BY DEF WorkerType
    <2>2. Batch(work') /\ Batch(queue')
      BY <1>1, <2>1, NoBatchIs
    <2>3. QED
      BY <1>1, <2>2 DEF WorkerType, Places
  <1>4. DaemonType' /\ HistoryType'
    BY <1>1 DEF DaemonType, HistoryType
  <1>5. StoredLast'
    <2>1. ASSUME NEW z \in Zones
          PROVE  Final(queue', Final(work', cfg'.zones[z], z), z)
                    = Final(queue, Final(work, cfg.zones[z], z), z)
      <3>1. Final(work, cfg.zones[z], z) = cfg.zones[z]
        BY <1>2, FinalNone
      <3>2. Final(queue', Final(queue, cfg.zones[z], z), z)
               = Final(queue, cfg.zones[z], z)
        BY <1>2, FinalNone
      <3>3. QED
        BY <1>1, <3>1, <3>2
    <2>2. QED
      BY <1>1, <1>2, <2>1 DEF StoredLast
  <1>6. ShownLast'
    BY <1>1, <1>2 DEF ShownLast, ToShow, Pends, Keyboard!shown
  <1>7. LitLast'
    BY <1>1, <1>2 DEF LitLast, ToLight
  <1>8. QED
    BY <1>3, <1>4, <1>5, <1>6, <1>7

LEMMA LightingFails ==
    ASSUME LightingInv, Keyboard!Fails PROVE LightingInv'
  <1> USE DEF LightingInv, LightingType, Keyboard!deviceVars, Keyboard!daemonVars,
              Keyboard!history, Keyboard!bounds
  <1>1. /\ at' = "recv" /\ work' = Keyboard!NoBatch /\ snap' = Keyboard!Defaults
        /\ stale' = TRUE /\ bumped' = (bumped \/ work.level # Keyboard!NoLevel)
        /\ waived' = waived \cup Keyboard!zones_of(work)
        /\ UNCHANGED <<hw, device, cfg, queue, owed, dcfg, watch, by_user, kicked,
                       cooldown, asked, mode_asked, lost, requests, faults>>
    BY DEF Keyboard!Fails
  <1>2. T(work') = {} /\ Batch(work) /\ Batch(queue) /\ Batch(work')
    BY <1>1, NoBatchIs DEF WorkerType
  <1>3. WorkerType'
    BY <1>1, <1>2, DefaultsAre
       DEF WorkerType, Places, Batch, T, Keyboard!targets
  <1>4. DaemonType' /\ HistoryType'
    BY <1>1, <1>2, ZonesOf DEF DaemonType, HistoryType
  <1>5. StoredLast'
    <2>1. ASSUME NEW z \in Zones \ (lost' \cup waived')
          PROVE  Final(queue', Final(work', cfg'.zones[z], z), z) = asked'[z]
      <3>1. Final(work, cfg.zones[z], z) = cfg.zones[z]
        BY <1>1, <1>2, <2>1, ZonesOf
      <3>2. Final(work', cfg.zones[z], z) = cfg.zones[z]
        BY <1>2, FinalNone
      <3>3. Final(queue, Final(work, cfg.zones[z], z), z) = asked[z]
        BY <1>1, <2>1 DEF StoredLast
      <3>4. QED
        BY <1>1, <3>1, <3>2, <3>3
    <2>2. "mode" \notin waived' => "mode" \notin waived /\ T(work) = {}
      BY <1>1, <1>2, ZonesOf
    <2>3. T(queue') = T(queue)
      BY <1>1
    <2>4. QED
      BY <1>1, <1>2, <2>1, <2>2, <2>3 DEF StoredLast
  <1>6. ShownLast'
    BY <1>1 DEF ShownLast
  <1>7. LitLast'
    BY <1>1 DEF LitLast, ToLight
  <1>8. QED
    BY <1>3, <1>4, <1>5, <1>6, <1>7

LEMMA LightingBright ==
    ASSUME LightingInv, Keyboard!Bright PROVE LightingInv'
  <1> USE DEF LightingInv, LightingType, Keyboard!deviceVars, Keyboard!daemonVars,
              Keyboard!history, Keyboard!bounds
  <1>1. /\ at = "bright" /\ at' = "effects"
        /\ UNCHANGED <<device, queue, work, snap, owed, dcfg, watch, by_user,
                       kicked, cooldown, asked, mode_asked, lost, waived, stale,
                       requests, faults>>
    BY DEF Keyboard!Bright
  <1>2. Batch(work) /\ Batch(queue) /\ T(queue') = T(queue) /\ T(work') = T(work)
    BY <1>1 DEF WorkerType
  <1>3. CASE /\ bumped' = (bumped \/ work.level # Keyboard!NoLevel)
             /\ UNCHANGED <<hw, cfg>>
    <2>1. WorkerType'
      BY <1>1, <1>2, <1>3 DEF WorkerType, Places
    <2>2. DaemonType' /\ HistoryType'
      BY <1>1, <1>3 DEF DaemonType, HistoryType
    <2>3. StoredLast' /\ ShownLast'
      BY <1>1, <1>2, <1>3 DEF StoredLast, ShownLast, ToShow, Pends
    <2>4. LitLast'
      BY <1>1, <1>3 DEF LitLast, ToLight
    <2>5. QED
      BY <2>1, <2>2, <2>3, <2>4
  <1>4. CASE /\ work.level # Keyboard!NoLevel
             /\ hw'  = [hw EXCEPT !.level = work.level]
             /\ cfg' = [cfg EXCEPT !.level = work.level]
             /\ bumped' = FALSE
    <2>0. work.level \in Keyboard!AllLevels /\ hw \in Screens /\ cfg \in Settings
      BY <1>2, <1>4, TargetsAre DEF Batch, Loads, WorkerType, DaemonType
    <2>1. /\ hw' \in Screens /\ hw'.level = work.level /\ hw'.zones = hw.zones
          /\ cfg' \in Settings /\ cfg'.level = work.level
          /\ cfg'.zones = cfg.zones /\ cfg'.lighting_mode = cfg.lighting_mode
          /\ Keyboard!shown(cfg') = Keyboard!shown(cfg)
      BY <1>4, <2>0, ScreenOf, LevelSet
    <2>2. WorkerType'
      BY <1>1, <1>2, <2>1 DEF WorkerType, Places
    <2>3. DaemonType' /\ HistoryType'
      BY <1>1, <1>4, <2>1 DEF DaemonType, HistoryType
    <2>4. StoredLast'
      BY <1>1, <1>2, <2>1 DEF StoredLast
    <2>5. ShownLast'
      <3> SUFFICES ASSUME ~ToShow', ~stale PROVE hw'.zones = Keyboard!shown(cfg)'
        BY <1>1 DEF ShownLast
      <3>1. hw.zones = Keyboard!shown(cfg)
        BY <1>1, <1>2 DEF ShownLast, ToShow, Pends
      <3>2. Keyboard!shown(cfg)' = Keyboard!shown(cfg')
        BY DEF Keyboard!shown
      <3>3. QED
        BY <2>1, <3>1, <3>2
    <2>6. LitLast'
      BY <1>1, <2>1 DEF LitLast
    <2>7. QED
      BY <2>2, <2>3, <2>4, <2>5, <2>6
  <1>5. QED
    BY <1>3, <1>4 DEF Keyboard!Bright

LEMMA LightingShow ==
    ASSUME LightingInv, Keyboard!Show PROVE LightingInv'
  <1> USE DEF LightingInv, LightingType, Keyboard!deviceVars, Keyboard!daemonVars,
              Keyboard!history, Keyboard!bounds
  <1>1. /\ at = "show" /\ at' = "effects" /\ hw' = Keyboard!lit(hw, snap)
        /\ stale' = FALSE /\ snap' = Keyboard!Defaults
        /\ UNCHANGED <<device, cfg, queue, work, owed, dcfg, watch, by_user,
                       kicked, cooldown, asked, mode_asked, lost, waived,
                       bumped,
                       requests, faults>>
    BY DEF Keyboard!Show
  <1>2. Batch(work) /\ Batch(queue) /\ T(queue') = T(queue) /\ T(work') = T(work)
        /\ hw \in Screens /\ snap \in Settings /\ cfg \in Settings
    BY <1>1 DEF WorkerType, DaemonType
  <1>3. /\ hw' \in Screens /\ hw'.zones = Keyboard!shown(snap)
        /\ hw'.level = IF hw.level = 0
                       THEN (IF snap.level = 0 THEN 1 ELSE snap.level)
                       ELSE hw.level
    BY <1>1, <1>2, LitIs
  <1>4. WorkerType'
    BY <1>1, <1>2, DefaultsAre DEF WorkerType, Places
  <1>5. DaemonType' /\ HistoryType'
    BY <1>1, <1>3 DEF DaemonType, HistoryType
  <1>6. StoredLast'
    BY <1>1, <1>2 DEF StoredLast
  <1>7. ShownLast'
    <2> SUFFICES ASSUME ~ToShow' PROVE hw'.zones = Keyboard!shown(cfg)'
      BY <1>1 DEF ShownLast
    <2>1. Keyboard!shown(snap) = Keyboard!shown(cfg)
      BY <1>1, <1>2 DEF ShownLast, ToShow, Pends
    <2>2. Keyboard!shown(cfg)' = Keyboard!shown(cfg)
      BY <1>1 DEF Keyboard!shown
    <2>3. QED
      BY <1>3, <2>1, <2>2
  <1>8. LitLast'
    <2> SUFFICES ASSUME ~ToLight', ~bumped
                 PROVE  hw'.level = cfg.level \/ (hw'.level = 1 /\ cfg.level = 0)
      BY <1>1 DEF LitLast
    <2>1. snap.level = cfg.level
          /\ (hw.level = cfg.level \/ (hw.level = 1 /\ cfg.level = 0))
      BY <1>1 DEF LitLast, ToLight
    <2>2. QED
      BY <1>3, <2>1
  <1>9. QED
    BY <1>4, <1>5, <1>6, <1>7, <1>8

LEMMA LightingEffects ==
    ASSUME LightingInv, Keyboard!Effects PROVE LightingInv'
  <1> USE DEF LightingInv, LightingType, Keyboard!deviceVars, Keyboard!daemonVars,
              Keyboard!history, Keyboard!bounds
  <1>1. /\ at = "effects"
        /\ UNCHANGED <<hw, device, queue, owed, dcfg, watch, by_user, kicked,
                       cooldown, asked, mode_asked, lost, waived, stale, bumped,
                       requests, faults>>
    BY DEF Keyboard!Effects
  <1>2. Batch(work) /\ Batch(queue) /\ T(queue') = T(queue) /\ cfg \in Settings
        /\ Keyboard!targets(work) = T(work) /\ snap = Keyboard!Defaults
    BY <1>1 DEF WorkerType, T
  <1>3. DaemonType' /\ HistoryType'
    BY <1>1 DEF DaemonType, HistoryType
  <1>4. CASE /\ T(work) # {}
             /\ LET t == CHOOSE u \in T(work) :
                           \A v \in T(work) : Keyboard!rank(u) <= Keyboard!rank(v)
                IN  /\ cfg'  = Keyboard!apply_zone_update(cfg, t, work.effects[t])
                    /\ work' = [work EXCEPT !.effects[t] = Keyboard!None]
             /\ snap' = cfg' /\ at' = "show"
    <2>1. PICK t \in T(work) :
             /\ \A v \in T(work) : Keyboard!rank(t) <= Keyboard!rank(v)
             /\ cfg'  = Keyboard!apply_zone_update(cfg, t, work.effects[t])
             /\ work' = [work EXCEPT !.effects[t] = Keyboard!None]
      BY <1>2, <1>4, NextEffect
    <2>2. t \in Targets /\ work.effects[t] \in Colors
      BY <1>2, TargetsAre DEF Batch
    <2>3. /\ cfg' \in Settings /\ cfg'.level = cfg.level
          /\ cfg'.lighting_mode = "effects"
          /\ \A z \in Zones : cfg'.zones[z] =
                IF z \in Keyboard!covers(t) THEN work.effects[t] ELSE cfg.zones[z]
      BY <1>2, <2>1, <2>2, ZonesSet
    <2>4. Batch(work') /\ work'.level = work.level /\ work'.restore = work.restore
      BY <1>2, <2>1, EffectOut
    <2>5. WorkerType'
      BY <1>1, <1>2, <1>4, <2>3, <2>4 DEF WorkerType, Places
    <2>6. StoredLast'
      <3>1. ASSUME NEW z \in Zones
            PROVE  Final(queue', Final(work', cfg'.zones[z], z), z)
                      = Final(queue, Final(work, cfg.zones[z], z), z)
        BY <1>1, <1>2, <2>1, <2>3, FinalStep
      <3>2. QED
        BY <1>1, <1>4, <2>3, <3>1 DEF StoredLast
    <2>7. ShownLast'
      BY <1>4 DEF ShownLast, Keyboard!shown
    <2>8. LitLast'
      BY <1>1, <1>4, <2>3 DEF LitLast, ToLight
    <2>9. QED
      BY <1>3, <2>5, <2>6, <2>7, <2>8
  <1>5. CASE /\ work.restore
             /\ work' = [work EXCEPT !.restore = FALSE]
             /\ snap' = cfg /\ at' = "show" /\ UNCHANGED cfg
    <2>1. Batch(work') /\ T(work') = T(work) /\ T(work) = {}
      BY <1>2, <1>5, RestoreOut DEF Batch
    <2>2. WorkerType'
      BY <1>1, <1>2, <1>5, <2>1 DEF WorkerType, Places
    <2>3. StoredLast'
      <3>1. ASSUME NEW z \in Zones
            PROVE  Final(work', cfg'.zones[z], z) = Final(work, cfg.zones[z], z)
        BY <1>5, <2>1 DEF Final
      <3>2. QED
        BY <1>1, <1>5, <2>1, <3>1 DEF StoredLast
    <2>4. ShownLast'
      BY <1>5 DEF ShownLast, Keyboard!shown
    <2>5. LitLast'
      BY <1>1, <1>5 DEF LitLast, ToLight
    <2>6. QED
      BY <1>3, <2>2, <2>3, <2>4, <2>5
  <1>6. CASE /\ T(work) = {} /\ ~work.restore
             /\ work' = Keyboard!NoBatch /\ at' = "recv" /\ UNCHANGED <<cfg, snap>>
    <2>1. Batch(work') /\ T(work') = {} /\ work'.restore = FALSE
      BY <1>6, NoBatchIs
    <2>2. WorkerType'
      BY <1>1, <1>2, <1>6, <2>1 DEF WorkerType, Places
    <2>3. StoredLast'
      <3>1. ASSUME NEW z \in Zones
            PROVE  Final(work', cfg'.zones[z], z) = Final(work, cfg.zones[z], z)
        BY <1>6, <2>1, FinalNone
      <3>2. QED
        BY <1>1, <1>6, <2>1, <3>1 DEF StoredLast
    <2>4. ShownLast'
      BY <1>1, <1>6, <2>1 DEF ShownLast, ToShow, Pends, Keyboard!shown
    <2>5. LitLast'
      BY <1>1, <1>6 DEF LitLast, ToLight
    <2>6. QED
      BY <1>3, <2>2, <2>3, <2>4, <2>5
  <1>7. QED
    BY <1>2, <1>4, <1>5, <1>6 DEF Keyboard!Effects
-----------------------------------------------------------------------------
LEMMA LightingSetEffect ==
    ASSUME LightingInv, Keyboard!SetEffect PROVE LightingInv'
  <1> USE DEF LightingInv, LightingType, Keyboard!deviceVars, Keyboard!daemonVars,
              Keyboard!workerVars
  <1>1. PICK t \in Targets, c \in Colors :
          /\ queue' = Keyboard!absorb_effect(queue, t, c)
          /\ asked' = [z \in Zones |-> IF z \in Keyboard!covers(t) THEN c
                                       ELSE asked[z]]
          /\ lost' = (lost \ Keyboard!covers(t)) \cup Keyboard!gives_up(queue, t)
          /\ waived' = waived \ (Keyboard!covers(t) \cup {"mode"})
    BY DEF Keyboard!SetEffect
  <1>2. /\ mode_asked' = "effects"
        /\ requests' \in 0 .. Requests
        /\ UNCHANGED <<hw, device, cfg, at, work, snap, owed, dcfg, watch, by_user,
                       kicked, cooldown, stale, bumped, faults>>
    BY LightingAssumption DEF Keyboard!SetEffect, Keyboard!Gui, Keyboard!Asks, HistoryType
  <1>3. Batch(queue) /\ Batch(work)
    BY DEF WorkerType
  <1>4. Batch(queue') /\ T(queue') # {} /\ queue'.level = queue.level
    <2> DEFINE d == Keyboard!absorb_effect(queue, t, c)
    <2>1. /\ Batch(d) /\ d.restore = FALSE /\ d.level = queue.level
          /\ t \in T(d)
          /\ d.effects[t] = c
          /\ t = "all" => T(d) = {"all"}
          /\ t # "all" => "all" \notin T(d)
          /\ t # "all" => \A u \in Targets \ {t, "all"} :
                d.effects[u] = queue.effects[u]
          /\ t # "all" => \A u \in Targets \ {t, "all"} :
                u \in T(d) <=> u \in T(queue)
      BY <1>3, AbsorbEffect
    <2>2. queue' = d
      BY <1>1
    <2> HIDE DEF d
    <2>3. QED
      BY <2>1, <2>2
  <1>5. WorkerType'
    BY <1>2, <1>3, <1>4 DEF WorkerType, Batch, T, Keyboard!targets
  <1>6. DaemonType'
    BY <1>2 DEF DaemonType
  <1>7. HistoryType'
    <2>1. Keyboard!gives_up(queue, t) \subseteq Zones
      BY <1>3, GivesUpIs
    <2>2. c \in Keyboard!Lights
      BY DEF Keyboard!Lights
    <2>3. asked' \in Zoned
      BY <1>1, <2>2 DEF HistoryType, Zoned
    <2>4. QED
      BY <1>1, <1>2, <2>1, <2>3 DEF HistoryType
  <1>8. StoredLast'
    <2>1. ASSUME NEW z \in Zones \ (lost' \cup waived')
          PROVE  Final(queue', Final(work', cfg'.zones[z], z), z) = asked'[z]
      <3>1. z \notin Keyboard!gives_up(queue, t)
        BY <1>1, <2>1
      <3>2. Final(queue', Final(work, cfg.zones[z], z), z)
               = IF z \in Keyboard!covers(t) THEN c
                 ELSE Final(queue, Final(work, cfg.zones[z], z), z)
        BY <1>1, <1>3, <2>1, <3>1, FinalAbsorb
      <3>3. z \notin Keyboard!covers(t) => z \notin lost \cup waived
        BY <1>1, <2>1, ZoneNames
      <3>4. Final(work', cfg'.zones[z], z) = Final(work, cfg.zones[z], z)
        BY <1>2
      <3>5. QED
        BY <1>1, <2>1, <3>2, <3>3, <3>4 DEF StoredLast
    <2>2. QED
      BY <1>2, <1>4, <2>1 DEF StoredLast
  <1>9. ShownLast' /\ LitLast'
    BY <1>2, <1>4 DEF ShownLast, ToShow, Pends, LitLast, ToLight
  <1>10. QED
    BY <1>5, <1>6, <1>7, <1>8, <1>9

\* A brightness changes nothing else of what is queued.
LEMMA LevelKeeps ==
    ASSUME LightingInv, NEW l \in Keyboard!AllLevels,
           queue' = [queue EXCEPT !.level = l], owed' \subseteq Keyboard!Owings,
           owed # {} => owed' # {},
           UNCHANGED <<hw, cfg, at, work, snap, asked, mode_asked, lost, waived,
                       stale, bumped>>
    PROVE  WorkerType' /\ StoredLast' /\ ShownLast' /\ LitLast'
  <1> USE DEF LightingInv, LightingType
  <1>1. Batch(queue) /\ l \in Loads /\ l # Keyboard!NoLevel
    BY DEF WorkerType, Loads, Keyboard!AllLevels, Keyboard!NoLevel
  <1>2. /\ Batch(queue') /\ queue'.level = l /\ queue'.restore = queue.restore
        /\ T(queue') = T(queue) /\ queue'.effects = queue.effects
    BY <1>1, LevelIn
  <1>3. WorkerType'
    BY <1>2 DEF WorkerType, Batch, T, Keyboard!targets
  <1>4. StoredLast'
    <2>1. \A v, z : Final(queue', v, z) = Final(queue, v, z)
      BY <1>2 DEF Final
    <2>2. \A v, z : Final(work', v, z) = Final(work, v, z)
      OBVIOUS
    <2>3. QED
      BY <1>2, <2>1, <2>2 DEF StoredLast
  <1>5. ShownLast'
    BY <1>2 DEF ShownLast, ToShow, Pends, Keyboard!shown
  <1>6. LitLast'
    BY <1>1, <1>2 DEF LitLast, ToLight
  <1>7. QED
    BY <1>3, <1>4, <1>5, <1>6

LEMMA LightingSetBrightness ==
    ASSUME LightingInv, Keyboard!SetBrightness PROVE LightingInv'
  <1> USE DEF Keyboard!deviceVars, Keyboard!daemonVars, Keyboard!workerVars,
              Keyboard!history
  <1>1. PICK l \in Levels : queue' = [queue EXCEPT !.level = l]
    BY DEF Keyboard!SetBrightness
  <1>2. /\ requests' \in 0 .. Requests
        /\ UNCHANGED <<hw, device, cfg, at, work, snap, owed, dcfg, watch, by_user,
                       kicked, cooldown, asked, mode_asked, lost, waived, stale,
                       bumped, faults>>
    BY LightingAssumption DEF LightingInv, LightingType, HistoryType,
       Keyboard!SetBrightness, Keyboard!Gui, Keyboard!Asks
  <1>3. l \in Keyboard!AllLevels /\ owed' \subseteq Keyboard!Owings
    BY <1>2, LightingAssumption DEF LightingInv, LightingType, WorkerType
  <1>4. WorkerType' /\ StoredLast' /\ ShownLast' /\ LitLast'
    BY <1>1, <1>2, <1>3, LevelKeeps
  <1>5. DaemonType' /\ HistoryType'
    BY <1>2 DEF LightingInv, LightingType, DaemonType, HistoryType
  <1>6. QED
    BY <1>4, <1>5 DEF LightingInv, LightingType

\* The brightness of a profile that is loaded.
LEMMA LightingOwedLevel ==
    ASSUME LightingInv, Keyboard!OwedLevel PROVE LightingInv'
  <1> USE DEF Keyboard!deviceVars, Keyboard!daemonVars, Keyboard!workerVars,
              Keyboard!history, Keyboard!bounds
  <1>1. PICK o \in owed :
          /\ o[2] # Keyboard!NoLevel
          /\ queue' = [queue EXCEPT !.level = o[2]]
          /\ owed' = (owed \ {o}) \cup {<<o[1], Keyboard!NoLevel, o[3]>>}
    BY DEF Keyboard!OwedLevel
  <1>2. UNCHANGED <<hw, device, cfg, at, work, snap, dcfg, watch, by_user, kicked,
                    cooldown, asked, mode_asked, lost, waived, stale, bumped,
                    requests, faults>>
    BY DEF Keyboard!OwedLevel
  <1>3. owed \subseteq Keyboard!Owings
    BY DEF LightingInv, LightingType, WorkerType
  <1>4. o \in {"paint", "now", "load"}
               \X (Keyboard!AllLevels \cup {Keyboard!NoLevel}) \X (0 .. Requests)
    BY <1>3 DEF Keyboard!Owings
  <1>5. /\ o[1] \in {"paint", "now", "load"} /\ o[3] \in 0 .. Requests
        /\ o[2] \in Keyboard!AllLevels
    BY <1>1, <1>4
  <1>6. <<o[1], Keyboard!NoLevel, o[3]>> \in Keyboard!Owings
    BY <1>5 DEF Keyboard!Owings
  <1>7. owed' \subseteq Keyboard!Owings /\ owed' # {}
    BY <1>1, <1>3, <1>6
  <1>8. WorkerType' /\ StoredLast' /\ ShownLast' /\ LitLast'
    BY <1>1, <1>2, <1>5, <1>7, LevelKeeps
  <1>9. DaemonType' /\ HistoryType'
    BY <1>2 DEF LightingInv, LightingType, DaemonType, HistoryType
  <1>10. QED
    BY <1>8, <1>9 DEF LightingInv, LightingType

\* A restore gives up the effects that wait, and will show what is stored.
LEMMA RestoreKeeps ==
    ASSUME LightingInv, queue' = Keyboard!absorb_restore(queue),
           waived' = waived \cup Keyboard!zones_of(queue),
           UNCHANGED <<cfg, at, work, snap, asked, mode_asked, lost>>
    PROVE  /\ Batch(queue') /\ Pends(queue') /\ StoredLast'
           /\ waived' \subseteq Zones \cup {"mode"}
           /\ queue'.level = queue.level
  <1> USE DEF LightingInv, LightingType
  <1>1. Batch(queue) /\ waived \subseteq Zones \cup {"mode"}
    BY DEF WorkerType, HistoryType
  <1>2. /\ Batch(queue') /\ queue'.restore = TRUE /\ queue'.level = queue.level
        /\ T(queue') = {}
    BY <1>1, AbsorbRestore
  <1>3. StoredLast'
    <2>1. ASSUME NEW z \in Zones \ (lost' \cup waived')
          PROVE  Final(queue', Final(work', cfg'.zones[z], z), z) = asked'[z]
      <3>1. Final(queue, Final(work, cfg.zones[z], z), z)
               = Final(work, cfg.zones[z], z)
        BY <1>1, <2>1, ZonesOf
      <3>2. Final(queue', Final(work, cfg.zones[z], z), z)
               = Final(work, cfg.zones[z], z)
        BY <1>2, FinalNone
      <3>3. QED
        BY <2>1, <3>1, <3>2 DEF StoredLast
    <2>2. "mode" \notin waived' => "mode" \notin waived /\ T(queue) = {}
      BY <1>1, ZonesOf
    <2>3. T(work') = T(work)
      OBVIOUS
    <2>4. QED
      BY <1>2, <2>1, <2>2, <2>3 DEF StoredLast
  <1>4. QED
    BY <1>1, <1>2, <1>3, ZonesOf DEF Pends

LEMMA LightingRestores ==
    ASSUME LightingInv, Keyboard!Reapply \/ Keyboard!OwedRestore
    PROVE  LightingInv'
  <1> USE DEF LightingInv, LightingType, Keyboard!deviceVars, Keyboard!daemonVars,
              Keyboard!workerVars, Keyboard!bounds
  <1>1. /\ requests' \in 0 .. Requests
        /\ waived' = waived \cup Keyboard!zones_of(queue)
        /\ queue' = Keyboard!absorb_restore(queue)
        /\ UNCHANGED <<hw, device, cfg, at, work, snap, dcfg, watch, by_user,
                       kicked, cooldown, asked, mode_asked, lost, stale, bumped,
                       faults>>
    BY LightingAssumption
       DEF Keyboard!Reapply, Keyboard!OwedRestore, Keyboard!Gui, Keyboard!Asks,
           HistoryType
  <1>2. owed' \subseteq owed /\ \A o \in owed : o[2] # Keyboard!NoLevel => o \in owed'
    BY DEF Keyboard!Reapply, Keyboard!OwedRestore
  <1>3. /\ Batch(queue') /\ Pends(queue') /\ StoredLast'
        /\ waived' \subseteq Zones \cup {"mode"}
        /\ queue'.level = queue.level
    BY <1>1, RestoreKeeps
  <1>4. WorkerType'
    BY <1>1, <1>2, <1>3 DEF WorkerType, Batch, T, Keyboard!targets
  <1>5. DaemonType' /\ HistoryType'
    BY <1>1, <1>3 DEF DaemonType, HistoryType
  <1>6. ShownLast'
    <2>1. Pends(queue)'
      BY <1>3 DEF Pends, T, Keyboard!targets
    <2>2. QED
      BY <2>1 DEF ShownLast, ToShow
  <1>7. LitLast'
    <2>1. ~ToLight' => ~ToLight
      BY <1>1, <1>2, <1>3 DEF ToLight
    <2>2. QED
      BY <1>1, <2>1 DEF LitLast
  <1>8. QED
    BY <1>3, <1>4, <1>5, <1>6, <1>7
-----------------------------------------------------------------------------
\* The GUI thread changes the settings, and owes the worker a restore.
LEMMA LightingEdits ==
    ASSUME LightingInv, NEW c \in Settings, NEW zones \in Zoned,
           NEW job \in Keyboard!Owings, Keyboard!Edits(c, zones, job),
           c.level = cfg.level \/ job[2] # Keyboard!NoLevel,
           waived' \subseteq Zones \cup {"mode"}, lost' \subseteq Zones,
           StoredLast'
    PROVE  LightingInv'
  <1> USE DEF LightingInv, LightingType, Keyboard!deviceVars, Keyboard!daemonVars,
              Keyboard!workerVars
  <1>1. /\ requests' \in 0 .. Requests
        /\ cfg' = c /\ asked' = zones /\ mode_asked' = c.lighting_mode
        /\ owed' = owed \cup {job}
        /\ UNCHANGED <<hw, device, queue, at, work, snap, dcfg, watch, by_user,
                       kicked, cooldown, stale, bumped, faults>>
    BY LightingAssumption DEF Keyboard!Edits, Keyboard!Gui, Keyboard!Asks, HistoryType
  <1>2. WorkerType'
    BY <1>1 DEF WorkerType, Batch, T, Keyboard!targets
  <1>3. DaemonType'
    BY <1>1 DEF DaemonType
  <1>4. HistoryType'
    BY <1>1, ConfigIs DEF HistoryType
  <1>5. ShownLast'
    BY <1>1 DEF ShownLast, ToShow
  <1>6. LitLast'
    <2>1. ~ToLight' => ~ToLight /\ job[2] = Keyboard!NoLevel
      BY <1>1 DEF ToLight
    <2>2. QED
      BY <1>1, <2>1 DEF LitLast
  <1>7. QED
    BY <1>2, <1>3, <1>4, <1>5, <1>6

\* What is in hand: nothing that changes a zone it does not name.
LEMMA InHandIs ==
    ASSUME LightingInv
    PROVE  /\ Keyboard!InHand \subseteq Zones \cup {"mode"}
           /\ "mode" \notin Keyboard!InHand => T(queue) = {} /\ T(work) = {}
           /\ \A z \in Zones \ Keyboard!InHand :
                 \A v : Final(queue, Final(work, v, z), z) = v
  <1>1. Batch(queue) /\ Batch(work) /\ (at = "recv" => work = Keyboard!NoBatch)
    BY DEF LightingInv, LightingType, WorkerType
  <1>2. at = "recv" => T(work) = {} /\ \A v, z : Final(work, v, z) = v
    BY <1>1, NoBatchIs, FinalNone
  <1>3. /\ Keyboard!zones_of(queue) \subseteq Zones \cup {"mode"}
        /\ "mode" \in Keyboard!zones_of(queue) <=> T(queue) # {}
        /\ \A z \in Zones \ Keyboard!zones_of(queue) : \A v : Final(queue, v, z) = v
    BY <1>1, ZonesOf
  <1>4. /\ Keyboard!zones_of(work) \subseteq Zones \cup {"mode"}
        /\ "mode" \in Keyboard!zones_of(work) <=> T(work) # {}
        /\ \A z \in Zones \ Keyboard!zones_of(work) : \A v : Final(work, v, z) = v
    BY <1>1, ZonesOf
  <1>5. CASE at = "recv"
    BY <1>2, <1>3, <1>5 DEF Keyboard!InHand
  <1>6. CASE at # "recv"
    BY <1>3, <1>4, <1>6 DEF Keyboard!InHand
  <1>7. QED
    BY <1>5, <1>6

LEMMA LightingPaints ==
    ASSUME LightingInv, Keyboard!set_per_key_color \/ Keyboard!clear_per_key
    PROVE  LightingInv'
  <1> USE DEF LightingInv, LightingType, Keyboard!deviceVars, Keyboard!daemonVars,
              Keyboard!workerVars
  <1>1. cfg \in Settings /\ asked \in Zoned /\ lost \subseteq Zones
        /\ waived \subseteq Zones \cup {"mode"}
    BY DEF WorkerType, HistoryType
  <1>2. PICK p \in Flags, m \in {"effects", "per-key"}, o \in {"paint", "now"} :
          /\ Keyboard!Edits(Painted(cfg, p, m), asked, <<o, Keyboard!NoLevel, 0>>)
          /\ lost' = lost
          /\ \/ waived' = (waived \ {"mode"}) \cup (Keyboard!InHand \cap {"mode"})
             \/ m = "effects" /\ waived' = waived \ {"mode"}
    <2>1. CASE Keyboard!set_per_key_color
      <3>1. /\ \E o \in {"paint", "now"} :
                  Keyboard!Edits(Painted(cfg, TRUE, "per-key"), asked,
                                 <<o, Keyboard!NoLevel, 0>>)
            /\ waived' = (waived \ {"mode"}) \cup (Keyboard!InHand \cap {"mode"})
            /\ lost' = lost
        BY <2>1, Zenon DEF Keyboard!set_per_key_color, Painted
      <3>2. TRUE \in Flags /\ "per-key" \in {"effects", "per-key"}
        BY DEF Flags
      <3>3. QED
        BY <3>1, <3>2, Zenon
    <2>2. CASE Keyboard!clear_per_key
      <3>1. /\ Keyboard!Edits(Painted(cfg, FALSE, "effects"), asked,
                              <<"now", Keyboard!NoLevel, 0>>)
            /\ waived' = waived \ {"mode"}
            /\ lost' = lost
        BY <2>2, Zenon DEF Keyboard!clear_per_key, Painted
      <3>2. /\ FALSE \in Flags /\ "effects" \in {"effects", "per-key"}
            /\ "now" \in {"paint", "now"}
        BY DEF Flags
      <3>3. QED
        BY <3>1, <3>2, Zenon
    <2>3. QED
      BY <2>1, <2>2
  <1> DEFINE c == Painted(cfg, p, m)
             job == <<o, Keyboard!NoLevel, 0>>
  <1>3. c \in Settings /\ c.level = cfg.level /\ c.zones = cfg.zones
        /\ c.lighting_mode = m
    BY <1>1, <1>2, ModeSet
  <1>4. Keyboard!Edits(c, asked, job) /\ job \in Keyboard!Owings
    BY <1>2, LightingAssumption DEF Keyboard!Owings
  <1> HIDE DEF c, job
  <1>5. /\ cfg' = c /\ asked' = asked /\ mode_asked' = m
        /\ UNCHANGED <<queue, work>>
    BY <1>3, <1>4 DEF Keyboard!Edits
  <1>6. waived' \subseteq Zones \cup {"mode"} /\ lost' \subseteq Zones
    BY <1>1, <1>2
  <1>7. StoredLast'
    <2>1. \A z \in Zones \ (lost' \cup waived') : z \in Zones \ (lost \cup waived)
      BY <1>2, ZoneNames
    <2>2. \A z \in Zones \ (lost' \cup waived') :
             Final(queue', Final(work', cfg'.zones[z], z), z) = asked'[z]
      BY <1>3, <1>5, <2>1 DEF StoredLast
    <2>3. m = "effects" \/ ("mode" \notin waived' => T(queue) = {} /\ T(work) = {})
      BY <1>2, InHandIs
    <2>4. QED
      BY <1>3, <1>5, <2>2, <2>3 DEF StoredLast
  <1>8. QED
    BY <1>1, <1>3, <1>4, <1>6, <1>7, LightingEdits

LEMMA LightingProfile ==
    ASSUME LightingInv, Keyboard!apply_profile PROVE LightingInv'
  <1>1. PICK p \in Profiles :
          Keyboard!Edits(p, p.zones, <<"load", p.level, requests>>)
    BY DEF Keyboard!apply_profile
  <1>2. waived' = Keyboard!InHand /\ lost' = {}
    BY DEF Keyboard!apply_profile
  <1>3. p \in Settings
    BY LightingAssumption DEF Settings
  <1>4. p.zones \in Zoned
    BY <1>3, ConfigIs
  <1>5. /\ cfg' = p /\ asked' = p.zones /\ mode_asked' = p.lighting_mode
        /\ UNCHANGED <<queue, work>>
    BY <1>1 DEF Keyboard!Edits, Keyboard!workerVars
  <1>6. waived' \subseteq Zones \cup {"mode"} /\ lost' \subseteq Zones
    BY <1>2, InHandIs
  <1>7. StoredLast'
    <2>1. \A z \in Zones \ (lost' \cup waived') :
             Final(queue, Final(work, p.zones[z], z), z) = p.zones[z]
      BY <1>2, InHandIs
    <2>2. "mode" \notin waived' => T(queue) = {} /\ T(work) = {}
      BY <1>2, InHandIs
    <2>3. QED
      BY <1>5, <2>1, <2>2 DEF StoredLast
  <1>8. p.level \in Keyboard!AllLevels /\ p.level # Keyboard!NoLevel
    BY <1>3, ConfigIs DEF Keyboard!AllLevels, Keyboard!NoLevel
  <1> DEFINE job == <<"load", p.level, requests>>
  <1>9. job \in Keyboard!Owings /\ job[2] # Keyboard!NoLevel
    BY <1>8 DEF Keyboard!Owings, LightingInv, LightingType, HistoryType
  <1>10. QED
    BY <1>1, <1>3, <1>4, <1>6, <1>7, <1>9, LightingEdits
-----------------------------------------------------------------------------
\* The daemon and the device: what they write to the device they record.
LEMMA LightingOthers ==
    ASSUME LightingInv,
           UNCHANGED <<cfg, queue, at, work, snap, owed, asked, mode_asked, lost,
                       waived>>,
           stale' = TRUE \/ (stale' = stale /\ hw'.zones = hw.zones),
           bumped' = TRUE \/ (bumped' = bumped /\ hw'.level = hw.level),
           requests' \in 0 .. Requests, faults' \in 0 .. Faults, DaemonType'
    PROVE  LightingInv'
  <1>1. WorkerType' /\ StoredLast' /\ ShownLast' /\ LitLast'
    BY OthersKeep
  <1>2. stale \in BOOLEAN /\ bumped \in BOOLEAN
    BY DEF LightingInv, LightingType, HistoryType
  <1>3. stale' \in BOOLEAN /\ bumped' \in BOOLEAN
    BY <1>2, Zenon
  <1>4. HistoryType'
    BY <1>3 DEF LightingInv, LightingType, HistoryType
  <1>5. QED
    BY <1>1, <1>4 DEF LightingInv, LightingType

LEMMA LightingAsksDaemon ==
    ASSUME LightingInv, Keyboard!FixRgbPanic \/ Keyboard!TrayBrightness \/ Keyboard!Fault
    PROVE  LightingInv'
  <1> USE DEF Keyboard!deviceVars, Keyboard!daemonVars, Keyboard!workerVars,
              Keyboard!history, Keyboard!bounds
  <1>1. DaemonType /\ requests \in 0 .. Requests /\ faults \in 0 .. Faults
    BY DEF LightingInv, LightingType, HistoryType
  <1>2. hw \in Screens /\ dcfg \in Settings
    BY <1>1 DEF DaemonType
  <1>3. CASE Keyboard!FixRgbPanic
    <2>1. /\ UNCHANGED <<cfg, queue, at, work, snap, owed, asked, mode_asked, lost,
                         waived, stale, bumped, hw, dcfg, kicked, cooldown,
                         faults>>
          /\ watch' = "bright" /\ by_user' = TRUE /\ watch = "watch"
          /\ device' = IF device = "blocked" THEN "ok" ELSE device
          /\ requests' \in 0 .. Requests
      BY <1>1, <1>3, LightingAssumption DEF Keyboard!FixRgbPanic, Keyboard!Asks
    <2>2. DaemonType'
      BY <1>1, <2>1 DEF DaemonType, Repairs
    <2>3. QED
      BY <1>1, <2>1, <2>2, LightingOthers
  <1>4. CASE Keyboard!TrayBrightness
    <2>1. PICK l \in Levels : hw' = [hw EXCEPT !.level = l]
                              /\ dcfg' = [dcfg EXCEPT !.level = l]
      BY <1>4 DEF Keyboard!TrayBrightness
    <2>2. /\ UNCHANGED <<cfg, queue, at, work, snap, owed, asked, mode_asked, lost,
                         waived, stale, device, watch, by_user, kicked,
                         cooldown,
                         faults>>
          /\ bumped' = TRUE
          /\ requests' \in 0 .. Requests
      BY <1>1, <1>4, LightingAssumption
         DEF Keyboard!TrayBrightness, Keyboard!Asks
    <2>3. l \in Keyboard!AllLevels
      BY LightingAssumption
    <2>4. hw' \in Screens /\ hw'.zones = hw.zones /\ dcfg' \in Settings
      BY <1>2, <2>1, <2>3, ScreenOf, LevelSet
    <2>5. DaemonType'
      BY <1>1, <2>2, <2>4 DEF DaemonType
    <2>6. QED
      BY <1>1, <2>2, <2>4, <2>5, LightingOthers
  <1>5. CASE Keyboard!Fault
    <2>1. /\ UNCHANGED <<cfg, queue, at, work, snap, owed, asked, mode_asked, lost,
                         waived, stale, dcfg, watch, by_user, kicked, cooldown,
                         requests>>
          /\ faults' \in 0 .. Faults
          /\ \/ hw' = [hw EXCEPT !.level = 0] /\ bumped' = TRUE /\ UNCHANGED device
             \/ device' \in {"ok", "blocked", "dead"} /\ UNCHANGED <<hw, bumped>>
      BY <1>1, <1>5, LightingAssumption DEF Keyboard!Fault
    <2>2. 0 \in Keyboard!AllLevels
      BY DEF Keyboard!AllLevels
    <2>3. hw' \in Screens /\ hw'.zones = hw.zones
      <3>1. LET g == [hw EXCEPT !.level = 0] IN g \in Screens /\ g.zones = hw.zones
        BY <1>2, <2>2, ScreenOf
      <3>2. QED
        BY <1>2, <2>1, <3>1
    <2>4. DaemonType'
      BY <1>1, <2>1, <2>3 DEF DaemonType
    <2>5. bumped' = TRUE \/ (bumped' = bumped /\ hw'.level = hw.level)
      BY <2>1
    <2>6. QED
      BY <1>1, <2>1, <2>3, <2>4, <2>5, LightingOthers
  <1>6. QED
    BY <1>3, <1>4, <1>5

LEMMA LightingWatchdog ==
    ASSUME LightingInv, Keyboard!Watchdog PROVE LightingInv'
  <1> USE DEF Keyboard!deviceVars, Keyboard!workerVars, Keyboard!bounds, Keyboard!Daemon
  <1>1. DaemonType /\ requests \in 0 .. Requests /\ faults \in 0 .. Faults
    BY DEF LightingInv, LightingType, HistoryType
  <1>2. hw \in Screens /\ dcfg \in Settings
    BY <1>1 DEF DaemonType
  <1>3. UNCHANGED <<cfg, queue, at, work, snap, owed, asked, mode_asked, lost,
                    waived, requests, faults>>
    BY DEF Keyboard!Watchdog, Keyboard!Watch, Keyboard!DaemonBright,
           Keyboard!DaemonWhite, Keyboard!DaemonRestore, Keyboard!DaemonFails,
           Keyboard!Kick, Keyboard!KickFails, Keyboard!Verify, Keyboard!Ends
  <1>4. CASE Keyboard!Watch
    <2>1. UNCHANGED <<hw, stale, bumped>>
      BY <1>4 DEF Keyboard!Watch
    <2>2. DaemonType'
      BY <1>1, <1>4, LightingAssumption DEF Keyboard!Watch, DaemonType, Repairs
    <2>3. QED
      BY <1>1, <1>3, <2>1, <2>2, LightingOthers
  <1>5. CASE Keyboard!DaemonBright
    <2>1. /\ hw' = [hw EXCEPT !.level = 9] /\ dcfg' = [dcfg EXCEPT !.level = 9]
          /\ bumped' = TRUE /\ watch' = "white" /\ watch = "bright"
          /\ UNCHANGED <<device, by_user, kicked, cooldown, stale>>
      BY <1>5 DEF Keyboard!DaemonBright
    <2>2. 9 \in Keyboard!AllLevels
      BY DEF Keyboard!AllLevels
    <2>3. hw' \in Screens /\ hw'.zones = hw.zones /\ dcfg' \in Settings
      BY <1>2, <2>1, <2>2, ScreenOf, LevelSet
    <2>4. DaemonType'
      BY <1>1, <2>1, <2>3 DEF DaemonType, Repairs
    <2>5. QED
      BY <1>1, <1>3, <2>1, <2>3, <2>4, LightingOthers
  <1>6. CASE Keyboard!DaemonWhite
    <2>1. dcfg' \in Settings
      <3>1. [z \in Zones |-> Keyboard!White] \in Zoned /\ dcfg.zones \in Zoned
        BY <1>2, ConfigIs DEF Zoned, Keyboard!Lights
      <3>2. dcfg.level \in Keyboard!AllLevels
        BY <1>2, ConfigIs
      <3>3. FALSE \in Flags
        BY DEF Flags
      <3>4. QED
        BY <1>6, <3>1, <3>2, <3>3, ConfigOf DEF Keyboard!DaemonWhite
    <2>2. /\ UNCHANGED <<device, by_user, kicked, cooldown>>
          /\ watch = "white" /\ watch' \in {"verify", "kick", "restore"}
          /\ \/ UNCHANGED <<hw, stale, bumped>>
             \/ hw' = Keyboard!lit(hw, dcfg') /\ stale' = TRUE /\ bumped' = TRUE
      BY <1>6 DEF Keyboard!DaemonWhite
    <2>3. hw' \in Screens
      BY <1>2, <2>1, <2>2, LitIs
    <2>4. DaemonType'
      BY <1>1, <2>1, <2>2, <2>3 DEF DaemonType, Repairs
    <2>5. QED
      BY <1>1, <1>3, <2>2, <2>4, LightingOthers
  <1>7. CASE Keyboard!DaemonRestore
    <2>1. /\ hw' = Keyboard!lit(hw, dcfg) /\ stale' = TRUE /\ bumped' = TRUE
          /\ watch = "restore" /\ watch' = "verify"
          /\ UNCHANGED <<device, dcfg, by_user, kicked, cooldown>>
      BY <1>7 DEF Keyboard!DaemonRestore
    <2>2. hw' \in Screens
      BY <1>2, <2>1, LitIs
    <2>3. DaemonType'
      BY <1>1, <2>1, <2>2 DEF DaemonType, Repairs
    <2>4. QED
      BY <1>1, <1>3, <2>1, <2>3, LightingOthers
  <1>8. CASE Keyboard!DaemonFails
    <2>1. UNCHANGED <<hw, stale, bumped>>
      BY <1>8 DEF Keyboard!DaemonFails
    <2>2. DaemonType'
      BY <1>1, <1>8 DEF Keyboard!DaemonFails, DaemonType, Repairs
    <2>3. QED
      BY <1>1, <1>3, <2>1, <2>2, LightingOthers
  <1>9. CASE Keyboard!Kick
    <2>1. UNCHANGED <<hw, stale, bumped>>
      BY <1>9 DEF Keyboard!Kick
    <2>2. DaemonType'
      BY <1>1, <1>9 DEF Keyboard!Kick, DaemonType, Repairs
    <2>3. QED
      BY <1>1, <1>3, <2>1, <2>2, LightingOthers
  <1>10. CASE Keyboard!KickFails \/ Keyboard!Verify
    <2>1. UNCHANGED <<hw, stale, bumped, device, dcfg>>
      BY <1>10 DEF Keyboard!KickFails, Keyboard!Verify
    <2>2. \/ /\ watch # "watch" /\ watch' \in {"verify", "again"}
             /\ UNCHANGED <<by_user, kicked, cooldown>>
          \/ Keyboard!Ends
      BY <1>10 DEF Keyboard!KickFails, Keyboard!Verify
    <2>3. CASE /\ watch # "watch" /\ watch' \in {"verify", "again"}
               /\ UNCHANGED <<by_user, kicked, cooldown>>
      <3>1. DaemonType'
        BY <1>1, <2>1, <2>3 DEF DaemonType, Repairs
      <3>2. QED
        BY <1>1, <1>3, <2>1, <3>1, LightingOthers
    <2>4. CASE Keyboard!Ends
      <3>1. ~kicked' /\ ~by_user' /\ kicked' \in BOOLEAN /\ by_user' \in BOOLEAN
        BY <2>4, Zenon DEF Keyboard!Ends
      <3>2. watch' = "watch" /\ cooldown' \in {cooldown, Cooldown}
        BY <2>4 DEF Keyboard!Ends
      <3>3. cooldown' \in 0 .. Cooldown
        BY <1>1, <3>2, LightingAssumption DEF DaemonType
      <3>4. DaemonType'
        BY <1>1, <2>1, <3>1, <3>2, <3>3 DEF DaemonType, Repairs
      <3>5. QED
        BY <1>1, <1>3, <2>1, <3>4, LightingOthers
    <2>5. QED
      BY <2>2, <2>3, <2>4
  <1>11. QED
    BY <1>4, <1>5, <1>6, <1>7, <1>8, <1>9, <1>10 DEF Keyboard!Watchdog
-----------------------------------------------------------------------------
LEMMA LightingInit ==
    ASSUME Keyboard!Init PROVE LightingInv
  <1> USE DEF Keyboard!Init
  <1>1. /\ Keyboard!Defaults \in Settings /\ Keyboard!Defaults.level = 9
        /\ Keyboard!Defaults.lighting_mode = "effects"
    BY DefaultsAre DEF Keyboard!Defaults
  <1>2. hw \in Screens /\ hw.zones = Keyboard!shown(cfg) /\ hw.level = cfg.level
    BY <1>1, ShownIs, ConfigIs DEF Screens
  <1>3. WorkerType
    BY <1>1, NoBatchIs DEF WorkerType, Places
  <1>4. DaemonType
    <2>1. kicked \in BOOLEAN /\ by_user \in BOOLEAN /\ ~by_user /\ ~kicked
      BY Zenon
    <2>2. /\ device = "ok" /\ dcfg \in Settings /\ watch \in Repairs
          /\ cooldown \in 0 .. Cooldown
      BY <1>1, LightingAssumption DEF Repairs
    <2> HIDE DEF Keyboard!Init
    <2>3. QED
      BY <1>2, <2>1, <2>2 DEF DaemonType
  <1>5. HistoryType
    <2>1. asked \in Zoned
      BY <1>1, ConfigIs
    <2>2. stale \in BOOLEAN /\ bumped \in BOOLEAN
      BY Zenon
    <2>3. /\ requests \in 0 .. Requests /\ faults \in 0 .. Faults
          /\ lost = {} /\ waived = {} /\ mode_asked = "effects"
      BY LightingAssumption
    <2> HIDE DEF Keyboard!Init
    <2>4. QED
      BY <2>1, <2>2, <2>3 DEF HistoryType
  <1>6. StoredLast
    BY <1>1, NoBatchIs, FinalNone DEF StoredLast
  <1>7. ShownLast /\ LitLast
    BY <1>2 DEF ShownLast, LitLast
  <1>8. QED
    BY <1>3, <1>4, <1>5, <1>6, <1>7 DEF LightingInv, LightingType

LEMMA LightingNext ==
    ASSUME LightingInv, Keyboard!Next PROVE LightingInv'
  BY LightingTake, LightingFails, LightingBright, LightingShow, LightingEffects,
     LightingSetEffect, LightingSetBrightness, LightingOwedLevel,
     LightingRestores, LightingPaints, LightingProfile, LightingAsksDaemon, LightingWatchdog
     DEF Keyboard!Next, Keyboard!Client, Keyboard!Owed, Keyboard!Worker

LEMMA LightingStays ==
    ASSUME LightingInv, UNCHANGED KeyboardVars PROVE LightingInv'
  <1>1. UNCHANGED <<hw, device, cfg, queue, at, work, snap, owed, dcfg, watch,
                    by_user, kicked, cooldown, asked, mode_asked, lost, waived,
                    stale, bumped, requests, faults>>
    BY DEF KeyboardVars
  <1>2. DaemonType'
    BY <1>1 DEF LightingInv, LightingType, DaemonType
  <1>3. requests' \in 0 .. Requests /\ faults' \in 0 .. Faults
    BY <1>1 DEF LightingInv, LightingType, HistoryType
  <1>4. QED
    BY <1>1, <1>2, <1>3, LightingOthers

LEMMA LightingSafe ==
    ASSUME LightingInv
    PROVE  Keyboard!LastRequestWins /\ Keyboard!SettledShows
  <1> SUFFICES ASSUME Keyboard!Settled
               PROVE  Keyboard!LastRequestWins /\ Keyboard!SettledShows
    BY DEF Keyboard!LastRequestWins, Keyboard!SettledShows
  <1>1. at = "recv" /\ queue = Keyboard!NoBatch /\ owed = {}
        /\ work = Keyboard!NoBatch
    BY DEF Keyboard!Settled, LightingInv, LightingType, WorkerType
  <1>2. /\ T(queue) = {} /\ T(work) = {} /\ ~queue.restore /\ ~work.restore
        /\ queue.level = Keyboard!NoLevel
    BY <1>1, NoBatchIs
  <1>3. \A z \in Zones \ (lost \cup waived) : cfg.zones[z] = asked[z]
    BY <1>2, FinalNone DEF LightingInv, StoredLast
  <1>4. "mode" \notin waived => cfg.lighting_mode = mode_asked
    BY <1>2 DEF LightingInv, StoredLast
  <1>5. ~stale => hw.zones = Keyboard!shown(cfg)
    BY <1>1, <1>2 DEF LightingInv, ShownLast, ToShow, Pends
  <1>6. ~bumped => hw.level = cfg.level \/ (hw.level = 1 /\ cfg.level = 0)
    BY <1>1, <1>2 DEF LightingInv, LitLast, ToLight
  <1>7. QED
    BY <1>3, <1>4, <1>5, <1>6
       DEF Keyboard!LastRequestWins, Keyboard!SettledShows
-----------------------------------------------------------------------------
(***************************************************************************)
(* The composition: a step is one of the component that runs.              *)
(***************************************************************************)
LEMMA PartsAlone ==
    ASSUME [NextParts]_allVars
    PROVE  /\ [Next]_vars
           /\ Keyboard!Next \/ UNCHANGED KeyboardVars
           /\ part' = part
  BY DEF NextParts, MainSteps, KeyboardSteps, allVars

\* The editor of the composition is the editor (CurveUi): what holds of Spec
\* holds of it.
THEOREM EditorRuns == SpecParts => Spec
  <1>1. InitParts => Init
    BY DEF InitParts
  <1>2. [NextParts]_allVars => [Next]_vars
    BY PartsAlone
  <1>3. QED
    BY <1>1, <1>2, PTL DEF SpecParts, Spec

\* What is stored becomes, with the jobs still in hand, what was asked for; and
\* what is stored is shown or about to be (keyboard.rs).
THEOREM LightingInvariant == SpecParts => []LightingInv
  <1>1. InitParts => LightingInv
    BY LightingInit DEF InitParts
  <1>2. LightingInv /\ [NextParts]_allVars => LightingInv'
    BY PartsAlone, LightingNext, LightingStays
  <1>3. QED
    BY <1>1, <1>2, PTL DEF SpecParts

\* The types of both components.
THEOREM TypesCorrect == SpecParts => []TypesOK
  <1>1. IInv /\ LightingInv => TypesOK
    BY LightingTypes DEF IInv, LightingInv, TypesOK
  <1>2. QED
    BY <1>1, EditorRuns, IInvHolds, LightingInvariant, PTL

\* Once the worker is done every zone has the effect last asked for it, and the
\* mode is the last, the requests the coalescing gives up excepted.
THEOREM LastRequestIsStored == SpecParts => []LastRequestWins
  <1>1. LightingInv => LastRequestWins
    BY LightingSafe DEF LastRequestWins
  <1>2. QED
    BY <1>1, LightingInvariant, PTL

\* Once the worker is done the device shows what is stored, unless the batch
\* failed or the daemon wrote after it.
THEOREM StoredIsShown == SpecParts => []SettledShows
  <1>1. LightingInv => SettledShows
    BY LightingSafe DEF SettledShows
  <1>2. QED
    BY <1>1, LightingInvariant, PTL
=============================================================================
