--------------------------- MODULE Listener_proofs ---------------------------
(***************************************************************************)
(* Proofs about Listener, for any number of messages with any bodies, of    *)
(* connections that break and of kills: what is lost, and what is worked on *)
(* again.                                                                   *)
(***************************************************************************)
EXTENDS Listener, WellFoundedInduction, FiniteSetTheorems, TLAPS

\* What the broker can still deliver.
Kept == ready \cup unacked

\* The message that basic_get takes is one that is ready.
LEMMA MinReady ==
  ASSUME NEW S \in SUBSET Nat, S # {}
  PROVE  Min(S) \in S
<1> DEFINE Less == OpToRel(<, Nat)
<1>1. \E n \in S : \A m \in S : ~(<<m, n>> \in Less)
  <2>1. IsWellFoundedOn(Less, Nat)
    BY NatLessThanWellFounded
  <2> HIDE DEF Less
  <2> QED BY <2>1, WFMin
<1>2. \A m, n \in Nat : ~(<<m, n>> \in Less) => n <= m
  BY DEF OpToRel
<1>3. \E n \in S : \A m \in S : n <= m
  BY <1>1, <1>2
<1> QED BY <1>3 DEF Min

\* Until the acknowledgement the broker keeps the message.
KeptInv == pc \in {"decode", "ack"} => message \in Kept

TypeInv == TypeOK /\ KeptInv

LEMMA TypeStep == TypeInv /\ [Next]_vars => TypeInv'
<1> SUFFICES ASSUME TypeInv, [Next]_vars PROVE TypeInv'
  OBVIOUS
<1> USE ListenerAssumption DEF ListenerAssumption, TypeInv, TypeOK, KeptInv, Kept, Ids, Bodies,
        broker, worked, Loop, Stop
<1>1. CASE BasicGet
  <2>1. Min(ready) \in ready
    BY <1>1, MinReady DEF BasicGet
  <2>2. message' \in ready /\ pc' = "decode" /\ ready' = ready \ {message'}
        /\ unacked' = unacked \cup {message'} /\ UNCHANGED <<published, worked, drops, kills>>
    BY <1>1, <2>1 DEF BasicGet
  <2> QED BY <2>2
<1>2. CASE Decode
  BY <1>2 DEF Decode
<1>3. CASE BasicAck
  BY <1>3 DEF BasicAck
<1>4. CASE BasicAckLost
  BY <1>4 DEF BasicAckLost
<1>5. CASE Validate
  BY <1>5 DEF Validate
<1>6. CASE Work
  <2>1. message \in 1..published
    BY <1>6 DEF Work
  <2> QED BY <1>6, <2>1 DEF Work
<1>7. CASE Publish
  BY <1>7 DEF Publish
<1>8. ASSUME NEW m \in Ids, Requeue(m) PROVE TypeInv'
  BY <1>8 DEF Requeue
<1>9. CASE Kill \/ Restart
  <2>1. CASE Kill
    BY <2>1 DEF Kill
  <2>2. CASE Restart
    BY <2>2 DEF Restart
  <2> QED BY <1>9, <2>1, <2>2
<1>10. CASE UNCHANGED vars
  BY <1>10 DEF vars
<1> QED BY <1>1, <1>2, <1>3, <1>4, <1>5, <1>6, <1>7, <1>8, <1>9, <1>10 DEF Next, Thread

LEMMA TypeInvariance == Spec => []TypeInv
<1>1. Init => TypeInv
  BY ListenerAssumption DEF ListenerAssumption, Init, TypeInv, TypeOK, KeptInv
<1> QED BY <1>1, TypeStep, PTL DEF Spec

\* The broker has a message ready or delivered, never both, and the thread has
\* one exactly while it is at it.
THEOREM TypeCorrect == Spec => []TypeOK
BY TypeInvariance, PTL DEF TypeInv

(***************************************************************************)
(* What is lost.                                                            *)
(***************************************************************************)

\* Only a kill loses a message that fits the model, the one the thread has.
LEMMA LossStep ==
  TypeInv /\ [Next]_vars =>
    \/ LostBodies' \subseteq LostBodies /\ kills' = kills
    \/ LostBodies' \subseteq LostBodies \cup {message} /\ kills' = kills + 1
<1> SUFFICES ASSUME TypeInv, [Next]_vars
             PROVE  \/ LostBodies' \subseteq LostBodies /\ kills' = kills
                    \/ LostBodies' \subseteq LostBodies \cup {message} /\ kills' = kills + 1
  OBVIOUS
<1> USE ListenerAssumption DEF ListenerAssumption, TypeInv, TypeOK, KeptInv, Kept, Ids, Bodies,
        broker, worked, Loop, Stop, LostBodies, Lost
<1>1. CASE BasicGet
  BY <1>1 DEF BasicGet
<1>2. CASE Decode
  BY <1>2 DEF Decode
<1>3. CASE BasicAck \/ BasicAckLost
  BY <1>3 DEF BasicAck, BasicAckLost
<1>4. CASE Validate
  BY <1>4 DEF Validate
<1>5. CASE Work
  BY <1>5 DEF Work
<1>6. CASE Publish
  BY <1>6 DEF Publish
<1>7. ASSUME NEW m \in Ids, Requeue(m) PROVE LostBodies' \subseteq LostBodies /\ kills' = kills
  BY <1>7 DEF Requeue
<1>8. CASE Kill
  BY <1>8 DEF Kill
<1>9. CASE Restart \/ UNCHANGED vars
  BY <1>9 DEF Restart, vars
<1> QED BY <1>1, <1>2, <1>3, <1>4, <1>5, <1>6, <1>7, <1>8, <1>9 DEF Next, Thread

\* Whatever stops the program, at most one message per kill is lost, beside those
\* that do not fit the model: the thread has only the message that it works on.
THEOREM LossCorrect == Spec => []LostByKill
<1>1. IsFiniteSet(LostBodies) /\ Cardinality(LostBodies) \in Nat
  <2>1. IsFiniteSet(Ids) /\ LostBodies \subseteq Ids
    BY ListenerAssumption, FS_Interval DEF ListenerAssumption, LostBodies, Ids
  <2> QED BY <2>1, FS_Subset, FS_CardinalityType
<1>2. Init => LostByKill
  <2>1. Init => LostBodies = {}
    BY ListenerAssumption DEF ListenerAssumption, Init, LostBodies, Lost, Ids
  <2> QED BY <2>1, FS_EmptySet DEF Init, LostByKill
<1>3. TypeInv /\ LostByKill /\ [Next]_vars => LostByKill'
  <2> SUFFICES ASSUME TypeInv, LostByKill, [Next]_vars PROVE Cardinality(LostBodies') <= kills'
    BY DEF LostByKill
  <2>1. kills \in Nat /\ Cardinality(LostBodies) <= kills
    BY DEF LostByKill, TypeInv, TypeOK
  <2>2. ASSUME LostBodies' \subseteq LostBodies PROVE Cardinality(LostBodies') <= kills /\ Cardinality(LostBodies') \in Nat
    BY <1>1, <2>1, <2>2, FS_Subset, FS_CardinalityType
  <2>3. ASSUME LostBodies' \subseteq LostBodies \cup {message} PROVE Cardinality(LostBodies') <= kills + 1
    <3>1. /\ IsFiniteSet(LostBodies \cup {message})
          /\ Cardinality(LostBodies \cup {message}) \in {Cardinality(LostBodies), Cardinality(LostBodies) + 1}
      BY <1>1, FS_AddElement
    <3>2. /\ Cardinality(LostBodies') \in Nat
          /\ Cardinality(LostBodies') <= Cardinality(LostBodies \cup {message})
      BY <2>3, <3>1, FS_Subset, FS_CardinalityType
    <3> QED BY <1>1, <2>1, <3>1, <3>2
  <2> QED BY <2>1, <2>2, <2>3, LossStep
<1> QED BY <1>2, <1>3, TypeInvariance, PTL DEF Spec

(***************************************************************************)
(* What is worked on again.                                                 *)
(***************************************************************************)

\* Messages that were worked on and will be delivered again.
Returning == handled \cap Kept

\* The thread is past the acknowledgement of a message that was worked on, or that
\* the broker still has.
Past ==
  IF pc \in {"validate", "work"} /\ message \in Kept \cup handled THEN 1 ELSE 0

\* The thread is about to acknowledge a message that it no longer holds.
Late == IF pc \in {"decode", "ack"} /\ message \notin unacked THEN 1 ELSE 0

\* Each connection that broke accounts for one repetition, done or to come.
RepeatInv == repeated + Cardinality(Returning) + Past + Late <= drops

\* Messages that were published are finitely many.
LEMMA FiniteParts ==
  \A n \in Nat : \A S \in SUBSET (1..n) : IsFiniteSet(S) /\ Cardinality(S) \in Nat
<1> SUFFICES ASSUME NEW n \in Nat, NEW S \in SUBSET (1..n) PROVE IsFiniteSet(S)
  BY FS_CardinalityType
<1>1. IsFiniteSet(1..n)
  BY FS_Interval
<1> QED BY <1>1, FS_Subset

\* What every step preserves, and what a repetition costs.
LEMMA RepeatStep == TypeInv /\ RepeatInv /\ [Next]_vars => RepeatInv'
<1> SUFFICES ASSUME TypeInv, RepeatInv, [Next]_vars
             PROVE  repeated' + Cardinality(Returning') + Past' + Late' <= drops'
  BY DEF RepeatInv
<1> DEFINE Goal == repeated' + Cardinality(Returning') + Past' + Late' <= drops'
<1>1. /\ TypeOK /\ TypeOK' /\ KeptInv /\ KeptInv'
      /\ repeated \in Nat /\ repeated' \in Nat /\ drops \in Nat /\ drops' \in Nat
      /\ IsFiniteSet(Returning) /\ Cardinality(Returning) \in Nat
      /\ IsFiniteSet(Returning') /\ Cardinality(Returning') \in Nat
      /\ Past \in {0, 1} /\ Past' \in {0, 1} /\ Late \in {0, 1} /\ Late' \in {0, 1}
      /\ repeated + Cardinality(Returning) + Past + Late <= drops
  <2>1. TypeInv'
    BY TypeStep
  <2>2. TypeOK /\ TypeOK' /\ KeptInv /\ KeptInv'
    BY <2>1 DEF TypeInv
  <2>3. repeated \in Nat /\ repeated' \in Nat /\ drops \in Nat /\ drops' \in Nat
    BY <2>2, ListenerAssumption DEF ListenerAssumption, TypeOK
  <2>4. \A S \in {Returning, Returning'} : IsFiniteSet(S) /\ Cardinality(S) \in Nat
    <3>1. published \in Nat /\ published' \in Nat
      BY <2>2, ListenerAssumption DEF ListenerAssumption, TypeOK
    <3>2. Returning \subseteq 1..published /\ Returning' \subseteq 1..published'
      BY <2>2 DEF TypeOK, Returning
    <3> QED BY <3>1, <3>2, FiniteParts
  <2> QED BY <2>2, <2>3, <2>4 DEF Past, Late, RepeatInv
<1>2. ASSUME Returning' \subseteq Returning, repeated' + Past' + Late' + drops <= repeated + Past + Late + drops'
      PROVE  Goal
  <2>1. Cardinality(Returning') <= Cardinality(Returning)
    BY <1>1, <1>2, FS_Subset
  <2>2. Past \in Nat /\ Past' \in Nat /\ Late \in Nat /\ Late' \in Nat
    BY DEF Past, Late
  <2>3. /\ repeated \in Nat /\ repeated' \in Nat /\ drops \in Nat /\ drops' \in Nat
        /\ Cardinality(Returning) \in Nat /\ Cardinality(Returning') \in Nat
        /\ repeated + Cardinality(Returning) + Past + Late <= drops
    BY <1>1
  <2>4. \A r, s, n, k, d, e, a, b, x, y \in Nat :
          r + n + a + b <= d /\ s + x + y + d <= r + a + b + e /\ k <= n => s + k + x + y <= e
    OBVIOUS
  <2> QED BY <1>2, <2>1, <2>2, <2>3, <2>4
<1> USE DEF TypeOK, KeptInv, Kept, Returning, Past, Late, broker, worked, Loop, Stop
<1>3. CASE BasicGet
  <2>1. Kept' = Kept /\ pc = "loop" /\ pc' = "decode" /\ message' \in unacked'
    <3>1. Min(ready) \in ready
      BY <1>1, <1>3, MinReady DEF BasicGet
    <3> QED BY <1>3, <3>1 DEF BasicGet
  <2> QED BY <1>1, <1>2, <1>3, <2>1 DEF BasicGet
<1>4. CASE Decode
  BY <1>1, <1>2, <1>4 DEF Decode
<1>5. CASE BasicAck
  <2> DEFINE m == message
  <2>1. pc = "ack" /\ pc' = "validate" /\ message' = m /\ m \in unacked /\ m \notin Kept'
        /\ UNCHANGED <<worked, drops>> /\ Returning' = Returning \ {m}
    BY <1>1, <1>5 DEF BasicAck
  <2>2. CASE m \in handled
    <3>1. m \in Returning
      BY <2>1, <2>2
    <3>2. Cardinality(Returning') = Cardinality(Returning) - 1
      BY <1>1, <2>1, <3>1, FS_RemoveElement
    <3>3. Past = 0 /\ Late = 0 /\ Past' = 1 /\ Late' = 0
      BY <2>1, <2>2
    <3> HIDE DEF Past, Late, Returning
    <3> QED BY <1>1, <2>1, <3>2, <3>3
  <2>3. CASE m \notin handled
    <3>1. Past' = 0 /\ Late' = 0
      BY <2>1, <2>3
    <3> HIDE DEF Past, Late, Returning
    <3> QED BY <1>1, <1>2, <2>1, <3>1
  <2> QED BY <2>2, <2>3
<1>6. CASE BasicAckLost
  BY <1>1, <1>2, <1>6 DEF BasicAckLost
<1>7. CASE Validate
  BY <1>1, <1>2, <1>7 DEF Validate
<1>8. CASE Work
  <2> DEFINE m == message
  <2>1. /\ pc = "work" /\ pc' = "loop" /\ handled' = handled \cup {m} /\ Kept' = Kept
        /\ drops' = drops /\ Late = 0 /\ Past' = 0 /\ Late' = 0
    BY <1>1, <1>8 DEF Work
  <2>2. CASE m \in handled
    <3>1. Past = 1 /\ repeated' = repeated + 1 /\ Returning' = Returning
      BY <1>8, <2>1, <2>2 DEF Work
    <3> HIDE DEF Past, Late, Returning
    <3> QED BY <1>1, <2>1, <3>1
  <2>3. CASE m \notin handled /\ m \in Kept
    <3>1. Past = 1 /\ repeated' = repeated /\ Returning' = Returning \cup {m} /\ m \notin Returning
      BY <1>8, <2>1, <2>3 DEF Work
    <3>2. Cardinality(Returning') = Cardinality(Returning) + 1
      BY <1>1, <3>1, FS_AddElement
    <3> HIDE DEF Past, Late, Returning
    <3> QED BY <1>1, <2>1, <3>1, <3>2
  <2>4. CASE m \notin handled /\ m \notin Kept
    <3>1. repeated' = repeated /\ Returning' = Returning
      BY <1>8, <2>1, <2>4 DEF Work
    <3> HIDE DEF Past, Late, Returning
    <3> QED BY <1>1, <2>1, <3>1
  <2> QED BY <2>2, <2>3, <2>4
<1>9. CASE Publish
  <2>1. published' \notin handled /\ UNCHANGED <<pc, message, worked, drops, unacked>>
        /\ ready' = ready \cup {published'} /\ message # published'
    BY <1>1, <1>9, ListenerAssumption DEF Publish, ListenerAssumption, Ids
  <2> QED BY <1>1, <1>2, <2>1
<1>10. ASSUME NEW m \in Ids, Requeue(m) PROVE Goal
  <2>1. Kept' = Kept /\ UNCHANGED <<pc, message, worked>> /\ m \in unacked
        /\ unacked' = unacked \ {m}
        /\ drops' = IF m = message THEN drops + 1 ELSE drops
    BY <1>10 DEF Requeue
  <2>2. Past' = Past /\ Returning' = Returning /\ repeated' = repeated
    BY <2>1
  <2>3. Late' <= IF m = message THEN Late + 1 ELSE Late
    BY <1>1, <2>1
  <2> HIDE DEF Past, Late, Returning
  <2> QED BY <1>1, <2>1, <2>2, <2>3
<1>11. CASE Kill \/ Restart
  BY <1>1, <1>2, <1>11 DEF Kill, Restart
<1>12. CASE UNCHANGED vars
  BY <1>1, <1>2, <1>12 DEF vars
<1> QED
  BY <1>3, <1>4, <1>5, <1>6, <1>7, <1>8, <1>9, <1>10, <1>11, <1>12 DEF Next, Thread

\* Each repetition of work is paid for by a connection that broke, however many
\* kills, restarts and unreadable bodies there are.
THEOREM RepeatCorrect == Spec => []RepeatedByDrop
<1>1. Init => RepeatInv
  <2> SUFFICES ASSUME Init PROVE RepeatInv
    OBVIOUS
  <2>1. Returning = {} /\ Past = 0 /\ Late = 0
    BY DEF Init, Returning, Past, Late
  <2> QED BY <2>1, FS_EmptySet DEF Init, RepeatInv
<1>2. TypeInv /\ RepeatInv => RepeatedByDrop
  <2> SUFFICES ASSUME TypeInv, RepeatInv PROVE repeated <= drops
    BY DEF RepeatedByDrop
  <2>1. repeated \in Nat /\ drops \in Nat /\ published \in Nat
    BY ListenerAssumption DEF ListenerAssumption, TypeInv, TypeOK
  <2>2. Returning \subseteq 1..published
    BY DEF TypeInv, TypeOK, Returning
  <2>3. Cardinality(Returning) \in Nat /\ Past \in Nat /\ Late \in Nat
    BY <2>1, <2>2, FiniteParts DEF Past, Late
  <2> QED BY <2>1, <2>3 DEF RepeatInv
<1> QED BY <1>1, <1>2, RepeatStep, TypeInvariance, PTL DEF Spec
=============================================================================
