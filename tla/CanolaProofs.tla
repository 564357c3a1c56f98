---------------------------- MODULE CanolaProofs ----------------------------
(***************************************************************************)
(* Canola is correct for any number of controllers and messages and for    *)
(* any thresholds.  Whatever is seen wrong, a message is pending, in the   *)
(* hands of its node or reported, and what is reported done has been       *)
(* received by every node that was error active throughout.  On an         *)
(* undisturbed bus arbitration is not an error, no message arrives twice,  *)
(* and none is given up while there are at least as many retransmissions   *)
(* as other messages.                                                      *)
(***************************************************************************)
EXTENDS Canola, FiniteSetTheorems, WellFoundedInduction, TLAPS

(***************************************************************************)
(* What CleanBus needs of the bus.  A sender that is alone on it gets no   *)
(* acknowledgment.  Arbitration cannot tell two nodes apart that send with *)
(* the same identifier.  Losing the SRR bit to a standard frame with the   *)
(* same first part is a bit error here (the CAN High Level Protocol sends  *)
(* standard frames only, can_hlp.py:106).                                  *)
(***************************************************************************)
Company == \E n, k \in Node : n # k
DistinctIds == \A m, o \in Msg :
  m.src # o.src /\ m.ida = o.ida /\ m.ext = o.ext => m.ext /\ m.idb # o.idb
Unmixed == \A m, o \in Msg : m.ida = o.ida => m.ext = o.ext

-----------------------------------------------------------------------------
\* A message is pending, in the hands of its node, or reported.
InHand(n) == tx[n] # "IDLE"
HandInv ==
  /\ \A n \in Node : IF InHand(n) THEN /\ cur[n] \in Msg \ (pending \cup done \cup failed)
                                       /\ cur[n].src = n
                                  ELSE cur[n] = NoMsg
  /\ (done \cup failed) \cap pending = {}

\* The senders that are left agree on the fields that are over, so that after
\* the identifiers only the winner is left.
Idle == field = "idle"
IdAPassed == field \notin {"idle", "SOF", "ID_A"}
Decided == field \notin {"idle", "SOF", "ID_A", "SRR_RTR", "IDE", "ID_B"}
AgreeInv ==
  /\ Idle => Sender = {}
  /\ IdAPassed => \A n, k \in Sender : cur[n].ida = cur[k].ida
  /\ field = "ID_B" => \A n \in Sender : cur[n].ext
  /\ Decided => \A n, k \in Sender : n = k
  /\ Decided => \A n \in Sender : frame = cur[n]
  /\ \A n \in Node : won[n] => ~Idle /\ Sender \subseteq {n}

\* While somebody sends, a node that has been error active throughout receives
\* it, has objected, or has the message.
WeakInv == \A n \in Node \ weak : tec[n] < Passive /\ rec[n] < Passive
HearInv ==
  \A s \in Sender : \A n \in Node \ (weak \cup {s}) :
    jam \/ IF field = "EOF_7" THEN got[n][cur[s]] > 0 ELSE rx[n] = "RECV"

\* On an undisturbed bus nothing has been counted as an error, nobody objects,
\* and somebody sends to all.
Calm ==
  /\ jam = FALSE
  /\ \A n \in Node : tec[n] = 0 /\ rec[n] = 0 /\ crcBad[n] = FALSE
FrameInv ==
  /\ Sender = {} => Idle
  /\ \A n \in Node : rx[n] = IF Idle THEN "IDLE" ELSE IF field = "EOF_7" THEN "OUT" ELSE "RECV"
  /\ \A n \in Node : Decided /\ n \in Sender => won[n]

\* A message has arrived nowhere before the end of its only complete frame.
GotInv ==
  \A n \in Node, m \in Msg :
    /\ got[n][m] <= 1
    /\ m \in pending => got[n][m] = 0
    /\ \A k \in Node : InHand(k) /\ m = cur[k] /\ ~(field = "EOF_7" /\ k \in Sender)
                         => got[n][m] = 0

\* An attempt fails when another message wins the arbitration, which is done
\* at the end of that frame.
Lost(n) == tx[n] = "WAIT" /\ ~Idle
TryInv ==
  Cardinality(Msg) <= RetransmitMax + 1 =>
    /\ \A m \in failed : m.src \in OneShot
    /\ \A n \in Node :
         InHand(n) => attempts[n] <= Cardinality(done) + (IF Lost(n) THEN 1 ELSE 0)

TypeInv == TypeOK /\ HandInv
BusInv == AgreeInv /\ WeakInv /\ HearInv /\ DoneMeansReceived
CleanInv == Calm /\ FrameInv /\ GotInv /\ TryInv

-----------------------------------------------------------------------------
\* A nonempty set of naturals has a least element.
LEMMA LeastOf ==
  ASSUME NEW S, S \subseteq Nat, S # {}
  PROVE  \E x \in S : \A y \in S : x <= y
  <1> DEFINE R == {ss \in Nat \X Nat : ss[1] < ss[2]}
  <1>1. IsWellFoundedOn(R, Nat)
    BY NatLessThanWellFounded DEF OpToRel
  <1>2. PICK x \in S : \A y \in S : ~ (<<y, x>> \in R)
    <2> HIDE DEF R
    <2> QED BY <1>1, WFMin
  <1>3. ASSUME NEW y \in S PROVE x <= y
    <2>1. ~ (<<y, x>> \in R)
      BY <1>2
    <2>2. x \in Nat /\ y \in Nat
      OBVIOUS
    <2>3. ~ (y < x)
      BY <2>1, <2>2
    <2> QED BY <2>2, <2>3
  <1> QED BY <1>3

\* What a field can mean to the two machines of a node.
TxOutcomes == {"none", "ok", "done", "arbLost", "bitError", "ackError"}
RxOutcomes == {"none", "ok", "crc", "valid", "error", "ackBitError"}

LEMMA OutcomeTypes ==
  ASSUME NEW n \in Node, NEW D, NEW g
  PROVE  TxOutcome(n, D) \in TxOutcomes \ {"none"} /\ RxOutcome(n, D, g) \in RxOutcomes \ {"none"}
  <1>1. TxOutcome(n, D) \in TxOutcomes \ {"none"}
    BY DEF TxOutcome, TxOutcomes
  <1>2. RxOutcome(n, D, g) \in RxOutcomes \ {"none"}
    BY DEF RxOutcome, RxOutcomes, Stuffed
  <1> QED BY <1>1, <1>2

\* A field that is over takes each machine by its outcome: the form in which
\* Field is used below.
LEMMA FieldIsAdvance ==
  ASSUME TypeOK, NEW D \in SUBSET Exposed, NEW G \in Garbled(D), Field(D, G)
  PROVE  /\ faults' = faults + Cardinality(D) /\ faults' \in 0 .. MaxFaults
         /\ Cardinality(D) \in Nat /\ (Cardinality(D) = 0 => D = {})
         /\ \E t \in [Node -> TxOutcomes], r \in [Node -> RxOutcomes] :
              /\ t = [n \in Node |-> IF tx[n] = "SEND" THEN TxOutcome(n, D) ELSE "none"]
              /\ r = [n \in Node |-> IF rx[n] = "RECV" THEN RxOutcome(n, D, n \in G) ELSE "none"]
              /\ Advance(t, r)
  <1>1. D \subseteq Node
    BY DEF Exposed, Sender
  <1>2. IsFiniteSet(D)
    BY <1>1, FS_Subset, MessagesKnown
  <1>3. Cardinality(D) \in Nat /\ (Cardinality(D) = 0 => D = {})
    BY <1>2, FS_CardinalityType, FS_EmptySet
  <1>4. faults' = faults + Cardinality(D) /\ faults' \in 0 .. MaxFaults
    BY <1>3, ThresholdsOrdered DEF Field, TypeOK
  <1> DEFINE t == [n \in Node |-> IF tx[n] = "SEND" THEN TxOutcome(n, D) ELSE "none"]
             r == [n \in Node |-> IF rx[n] = "RECV" THEN RxOutcome(n, D, n \in G) ELSE "none"]
  <1>5. Advance(t, r)
    BY DEF Field
  <1>6. t \in [Node -> TxOutcomes]
    BY OutcomeTypes DEF TxOutcomes
  <1>7. r \in [Node -> RxOutcomes]
    BY OutcomeTypes DEF RxOutcomes
  <1> QED BY <1>3, <1>4, <1>5, <1>6, <1>7

LEMMA CountersStay ==
  ASSUME NEW n \in Node, tec[n] \in 0 .. CountMax, rec[n] \in 0 .. CountMax
  PROVE  /\ \A bitError, ackError, success :
              TecAfter(n, bitError, ackError, success) \in 0 .. CountMax
         /\ \A error, success : RecAfter(n, error, success) \in 0 .. CountMax
  <1>1. \A k \in Nat : Cap(k) \in 0 .. CountMax
    BY ThresholdsOrdered DEF Cap
  <1>2. \A k \in 0 .. CountMax : Less(k) \in 0 .. CountMax
    BY ThresholdsOrdered DEF Less
  <1>3. tec[n] + TecStep \in Nat /\ rec[n] + 1 \in Nat /\ RecJump \in 0 .. CountMax
    BY ThresholdsOrdered
  <1> QED BY <1>1, <1>2, <1>3 DEF TecAfter, RecAfter

\* What a node tries again or is finished with is in its hands.
LEMMA AdvanceTypes ==
  ASSUME TypeOK, HandInv, field # "idle", faults' \in 0 .. MaxFaults,
         NEW t \in [Node -> TxOutcomes], NEW r \in [Node -> RxOutcomes], Advance(t, r),
         \A n \in Node : t[n] # "none" => tx[n] = "SEND"
  PROVE  TypeOK' /\ HandInv'
  <1> DEFINE Again == {n \in Node : t[n] \in {"arbLost", "bitError", "ackError"}}
             GiveUp == {n \in Again : Exhausted(n)}
             Finish == {n \in Node : t[n] = "done"}
             Left == {n \in Node : t[n] = "ok"}
             Over == GiveUp \cup Finish
  <1>1. /\ \A n \in Again \cup Finish \cup Left : tx[n] = "SEND" /\ cur[n] \in Msg
        /\ Over \subseteq Again \cup Finish /\ GiveUp \subseteq Again
        /\ Over \subseteq Node
    BY DEF HandInv, InHand
  <1>2. /\ tx' = [n \in Node |-> IF n \in Over THEN "IDLE" ELSE IF n \in Again THEN "WAIT" ELSE tx[n]]
        /\ attempts' = [n \in Node |-> IF n \in Over THEN 0
                                       ELSE IF n \in Again THEN attempts[n] + 1 ELSE attempts[n]]
        /\ cur' = [n \in Node |-> IF n \in Over THEN NoMsg ELSE cur[n]]
        /\ done' = done \cup {cur[n] : n \in Finish}
        /\ failed' = failed \cup {cur[n] : n \in GiveUp}
        /\ pending' = pending /\ quiet' = quiet
    BY DEF Advance
  <1> HIDE DEF Again, GiveUp, Finish
  <1>3. tx' \in [Node -> {"IDLE", "WAIT", "SEND"}]
    BY <1>2 DEF TypeOK
  <1>4. attempts' \in [Node -> 0 .. RetransmitMax]
    <2>1. ASSUME NEW n \in Again, n \notin GiveUp PROVE attempts[n] + 1 \in 0 .. RetransmitMax
      <3>1. n \in Node /\ attempts[n] # RetransmitMax
        BY <2>1 DEF Exhausted, GiveUp, Again
      <3>2. attempts[n] \in 0 .. RetransmitMax /\ RetransmitMax \in Nat
        BY <3>1, ThresholdsOrdered DEF TypeOK
      <3> QED BY <3>1, <3>2
    <2>2. attempts \in [Node -> 0 .. RetransmitMax] /\ 0 \in 0 .. RetransmitMax
      BY ThresholdsOrdered DEF TypeOK
    <2> QED BY <1>2, <2>1, <2>2
  <1>5. cur' \in [Node -> Msg \cup {NoMsg}] /\ done' \subseteq Msg /\ failed' \subseteq Msg
    BY <1>1, <1>2 DEF TypeOK, GiveUp
  <1>6. field' \in Stuffed \cup Fixed \cup {"idle"} /\ jam' \in BOOLEAN
    <2>1. jam' \in BOOLEAN
      BY DEF Advance, TypeOK
    <2>2. NextField(Left) \in Stuffed \cup Fixed \cup {"idle"}
      BY DEF NextField, Stuffed, Fixed
    <2>3. field' \in {field, "idle", NextField(Left)}
      BY DEF Advance
    <2> QED BY <2>1, <2>2, <2>3 DEF TypeOK
  <1>7. frame' \in Msg \cup {NoMsg}
    <2> DEFINE In == {n \in Node : r[n] \in {"ok", "crc"}}
               next == IF Left \cup In = {} THEN "idle" ELSE NextField(Left)
               Winner == IF next = "BODY" /\ field \in {"IDE", "ID_B"} THEN Left ELSE {}
    <2>1. frame' = IF next = "idle" THEN NoMsg
                   ELSE IF Winner # {} THEN cur[CHOOSE n \in Winner : TRUE] ELSE frame
      BY DEF Advance
    <2>2. Winner \subseteq Left
      OBVIOUS
    <2>3. Winner # {} => (CHOOSE n \in Winner : TRUE) \in Winner
      OBVIOUS
    <2> HIDE DEF Winner, next, Left
    <2>4. Winner # {} => cur[CHOOSE n \in Winner : TRUE] \in Msg
      BY <2>2, <2>3, <1>1
    <2> QED BY <2>1, <2>4 DEF TypeOK
  <1>8. rx' \in [Node -> {"IDLE", "RECV", "OUT"}]
    BY DEF Advance, TypeOK
  <1>9. crcBad' \in [Node -> BOOLEAN] /\ won' \in [Node -> BOOLEAN]
    BY DEF Advance, TypeOK
  <1>10. tec' \in [Node -> 0 .. CountMax] /\ rec' \in [Node -> 0 .. CountMax]
    BY CountersStay DEF Advance, TypeOK
  <1>11. got' \in [Node -> [Msg -> 0 .. 2]]
    <2>1. ASSUME NEW n \in Node, NEW m \in Msg PROVE got[n][m] \in 0 .. 2
      BY DEF TypeOK
    <2>2. got' = [n \in Node |-> [m \in Msg |->
                    IF n \in {k \in Node : r[k] = "valid" /\ ~won[k]} /\ frame = m /\ got[n][m] < 2
                    THEN got[n][m] + 1 ELSE got[n][m]]]
      BY DEF Advance
    <2> QED BY <2>1, <2>2
  <1>12. weak' \subseteq Node
    BY DEF Advance, TypeOK
  <1>13. quiet' \in [Node -> 0 .. Recovery] /\ pending' \subseteq Msg
    BY <1>2 DEF TypeOK
  <1>14. TypeOK'
    BY <1>3, <1>4, <1>5, <1>6, <1>7, <1>8, <1>9, <1>10, <1>11, <1>12, <1>13 DEF TypeOK
  <1>15. ASSUME NEW n \in Node
         PROVE  /\ InHand(n)' => cur[n]' \in Msg \ (pending \cup done \cup failed)' /\ cur[n].src' = n
                /\ ~InHand(n)' => cur[n]' = NoMsg
    <2>1. CASE n \in Over
      BY <2>1, <1>2 DEF InHand
    <2>2. CASE n \notin Over
      <3>1. cur'[n] = cur[n] /\ (InHand(n)' <=> InHand(n))
        BY <2>2, <1>1, <1>2 DEF InHand
      <3>2. ASSUME InHand(n), NEW k \in Over PROVE cur[k] # cur[n]
        <4>1. k \in Node /\ k # n /\ InHand(k)
          BY <2>2, <1>1 DEF InHand
        <4>2. cur[k].src = k /\ cur[n].src = n
          BY <3>2, <4>1 DEF HandInv
        <4> QED BY <4>1, <4>2
      <3> QED BY <3>1, <3>2, <1>2 DEF HandInv
    <2> QED BY <2>1, <2>2
  <1>16. (done' \cup failed') \cap pending' = {}
    <2>1. \A n \in Again \cup Finish : cur[n] \notin pending
      BY <1>1 DEF HandInv, InHand, Again, Finish
    <2>2. done' \cup failed' = done \cup failed \cup {cur[n] : n \in Over}
      BY <1>2
    <2> QED BY <2>1, <2>2, <1>1, <1>2 DEF HandInv
  <1> QED BY <1>14, <1>15, <1>16 DEF HandInv

-----------------------------------------------------------------------------
\* Who sends has a message, whose identifier the bus compares as numbers.
LEMMA SenderHas ==
  ASSUME TypeInv, NEW n \in Sender
  PROVE  /\ n \in Node /\ InHand(n) /\ cur[n] \in Msg /\ cur[n].src = n
         /\ cur[n].ida \in Nat /\ cur[n].idb \in Nat /\ cur[n].ext \in BOOLEAN
         /\ Value(n, field) \in Nat
  <1>1. n \in Node /\ InHand(n) /\ cur[n] \in Msg /\ cur[n].src = n
    BY DEF Sender, InHand, TypeInv, HandInv
  <1>2. cur[n].ida \in Nat /\ cur[n].idb \in Nat /\ cur[n].ext \in BOOLEAN
    BY <1>1, MessagesKnown
  <1>3. Value(n, field) \in Nat
    BY <1>2 DEF Value
  <1> QED BY <1>1, <1>2, <1>3

\* Who goes on sending, and what the others then have on the bus.
Goes == {n \in Node : tx'[n] = "SEND"}
Following(r) ==
  IF Goes \cup {n \in Node : r[n] \in {"ok", "crc"}} = {} THEN "idle" ELSE NextField(Goes)
Winners(r) == IF Following(r) = "BODY" /\ field \in {"IDE", "ID_B"} THEN Goes ELSE {}

LEMMA FieldPasses ==
  ASSUME TypeInv, field # "idle", NEW D, NEW t \in [Node -> TxOutcomes], NEW r \in [Node -> RxOutcomes],
         t = [n \in Node |-> IF tx[n] = "SEND" THEN TxOutcome(n, D) ELSE "none"], Advance(t, r)
  PROVE  /\ Sender' = Goes /\ Goes \subseteq Sender /\ Goes = {n \in Node : t[n] = "ok"}
         /\ \A n \in Goes : cur'[n] = cur[n] /\ (field = "ACK_SLOT" \/ ~Overruled(n))
         /\ field = "EOF_7" => Goes = {}
         /\ \A n \in Node : t[n] = "done" => n \in Sender /\ field = "EOF_7" /\ ~Overruled(n)
         /\ Following(r) # "idle" /\ jam => jam'
         /\ \A n \in Node : Following(r) # "idle" /\ RaisesFlag(n, t[n], r[n])
                            /\ ErrorState(n) = "ERROR_ACTIVE" => jam'
         /\ field' = Following(r) \/ (field' = field /\ field \in {"ID_A", "ID_B"})
         /\ frame' = IF Following(r) = "idle" THEN NoMsg
                     ELSE IF Winners(r) # {} THEN cur[CHOOSE n \in Winners(r) : TRUE] ELSE frame
         /\ won' = [n \in Node |-> Following(r) # "idle" /\ (won[n] \/ n \in Winners(r))]
  <1> DEFINE Again == {n \in Node : t[n] \in {"arbLost", "bitError", "ackError"}}
             GiveUp == {n \in Again : Exhausted(n)}
             Finish == {n \in Node : t[n] = "done"}
             Flag == {n \in Node : RaisesFlag(n, t[n], r[n])}
             Left == {n \in Node : t[n] = "ok"}
             In == {n \in Node : r[n] \in {"ok", "crc"}}
             next == IF Left \cup In = {} THEN "idle" ELSE NextField(Left)
             Winner == IF next = "BODY" /\ field \in {"IDE", "ID_B"} THEN Left ELSE {}
  <1>1. /\ jam' = (next # "idle" /\ (jam \/ \E n \in Flag : ErrorState(n) = "ERROR_ACTIVE"))
        /\ field' \in {next} \cup IF jam' /\ field \in {"ID_A", "ID_B"} THEN {field} ELSE {}
        /\ frame' = IF next = "idle" THEN NoMsg
                    ELSE IF Winner # {} THEN cur[CHOOSE n \in Winner : TRUE] ELSE frame
        /\ won' = [n \in Node |-> next # "idle" /\ (won[n] \/ n \in Winner)]
        /\ tx' = [n \in Node |-> IF n \in GiveUp \cup Finish THEN "IDLE"
                                 ELSE IF n \in Again THEN "WAIT" ELSE tx[n]]
        /\ cur' = [n \in Node |-> IF n \in GiveUp \cup Finish THEN NoMsg ELSE cur[n]]
    BY DEF Advance
  <1>2. \A n \in Node : (tx[n] = "SEND" <=> t[n] # "none") /\ (n \in Sender <=> tx[n] = "SEND")
    <2>1. \A n \in Node : TxOutcome(n, D) # "none"
      BY OutcomeTypes
    <2> QED BY <2>1 DEF Sender
  <1>3. Goes = Left
    BY <1>1, <1>2 DEF Goes, TxOutcomes
  <1>4. Sender' = Goes /\ Goes \subseteq Sender
    BY <1>2, <1>3 DEF Sender, Goes
  <1>5. \A n \in Goes : cur'[n] = cur[n]
    BY <1>1, <1>3
  <1>6. \A n \in Goes : (field = "ACK_SLOT" \/ ~Overruled(n)) /\ field # "EOF_7"
    BY <1>2, <1>3 DEF TxOutcome
  <1>7. \A n \in Node : t[n] = "done" => n \in Sender /\ field = "EOF_7" /\ ~Overruled(n)
    BY <1>2 DEF TxOutcome
  <1>8. next = Following(r) /\ Winner = Winners(r)
    BY <1>3 DEF Following, Winners
  <1>9. Following(r) # "idle" /\ jam => jam'
    BY <1>1, <1>8
  <1>10. ASSUME NEW n \in Node, RaisesFlag(n, t[n], r[n]), ErrorState(n) = "ERROR_ACTIVE",
                Following(r) # "idle"
         PROVE  jam'
    BY <1>1, <1>8, <1>10
  <1>11. field' = Following(r) \/ (field' = field /\ field \in {"ID_A", "ID_B"})
    <2> HIDE DEF next, Winner
    <2> QED BY <1>1, <1>8
  <1>12. /\ frame' = IF Following(r) = "idle" THEN NoMsg
                     ELSE IF Winners(r) # {} THEN cur[CHOOSE n \in Winners(r) : TRUE] ELSE frame
         /\ won' = [n \in Node |-> Following(r) # "idle" /\ (won[n] \/ n \in Winners(r))]
    <2> HIDE DEF next, Winner
    <2> QED BY <1>1, <1>8
  <1> QED BY <1>3, <1>4, <1>5, <1>6, <1>7, <1>9, <1>10, <1>11, <1>12

\* Whoever is disturbed, the senders that go on agree.
LEMMA AgreeKept ==
  ASSUME TypeInv, AgreeInv, DistinctIds, field # "idle", NEW D,
         NEW t \in [Node -> TxOutcomes], NEW r \in [Node -> RxOutcomes],
         t = [n \in Node |-> IF tx[n] = "SEND" THEN TxOutcome(n, D) ELSE "none"], Advance(t, r)
  PROVE  AgreeInv'
  <1>1. Sender' = Goes /\ Goes \subseteq Sender /\ Goes \subseteq Node
        /\ \A n \in Goes : cur'[n] = cur[n] /\ (field = "ACK_SLOT" \/ ~Overruled(n))
    BY FieldPasses DEF Goes
  <1>2. field' = Following(r) \/ (field' = field /\ field \in {"ID_A", "ID_B"})
    BY FieldPasses
  <1>3. field \in Stuffed \cup Fixed
    BY DEF TypeInv, TypeOK
  <1>4. field' = "idle" => Goes = {}
    <2>1. field = "EOF_7" => Goes = {}
      BY FieldPasses
    <2>2. NextField(Goes) = "idle" => field = "EOF_7"
      BY <1>3 DEF NextField, Stuffed, Fixed
    <2> QED BY <1>2, <2>1, <2>2 DEF Following
  \* Of those that are not overruled none has a lower value.
  <1>5. ASSUME NEW n \in Goes, NEW k \in Goes, field \in {"ID_A", "IDE", "ID_B"}
        PROVE  Value(n, field) = Value(k, field)
    <2>1. n \in Sender /\ k \in Sender /\ ~Overruled(n) /\ ~Overruled(k)
      BY <1>1, <1>5
    <2>2. ~ (Value(n, field) < Value(k, field)) /\ ~ (Value(k, field) < Value(n, field))
      BY <1>5, <2>1 DEF Overruled, TypeInv, TypeOK
    <2> QED BY <2>1, <2>2, SenderHas
  <1>6. ASSUME field = "ID_A" \/ IdAPassed, NEW n \in Goes, NEW k \in Goes
        PROVE  cur[n].ida = cur[k].ida
    <2>1. CASE field = "ID_A"
      BY <1>5, <2>1 DEF Value, Fixed
    <2>2. CASE IdAPassed
      BY <1>1, <2>2 DEF AgreeInv
    <2> QED BY <1>6, <2>1, <2>2
  <1>7. ASSUME field = "IDE", NEW n \in Goes, NEW k \in Goes
        PROVE  cur[n].ext = cur[k].ext
    <2>1. Value(n, field) = Value(k, field)
      BY <1>5, <1>7
    <2>2. cur[n].ext \in BOOLEAN /\ cur[k].ext \in BOOLEAN
      BY <1>1, SenderHas
    <2> QED BY <1>7, <2>1, <2>2 DEF Value, Fixed
  \* The end of the identifier leaves one.
  <1>8. ASSUME field \in {"IDE", "ID_B"}, Following(r) = "BODY", NEW n \in Goes, NEW k \in Goes
        PROVE  n = k
    <2>1. n \in Sender /\ k \in Sender /\ cur[n].ida = cur[k].ida
      BY <1>1, <1>6, <1>8 DEF IdAPassed
    <2>2. CASE field = "IDE"
      <3>1. ~ \E j \in Goes : cur[j].ext
        BY <1>8, <2>2 DEF Following, NextField
      <3> QED BY <1>7, <2>1, <2>2, <3>1, SenderHas DEF DistinctIds
    <2>3. CASE field = "ID_B"
      <3>1. cur[n].ext /\ cur[k].ext
        BY <2>1, <2>3 DEF AgreeInv
      <3>2. cur[n].idb = cur[k].idb
        BY <1>5, <2>3 DEF Value, Fixed
      <3>3. cur[n].ext = cur[k].ext
        BY <2>1, <3>1, SenderHas
      <3> QED BY <2>1, <3>2, <3>3, SenderHas DEF DistinctIds
    <2> QED BY <1>8, <2>2, <2>3
  <1>9. ASSUME IdAPassed', NEW n \in Sender', NEW k \in Sender' PROVE cur'[n].ida = cur'[k].ida
    <2>1. field = "ID_A" \/ IdAPassed
      BY <1>2, <1>9, <1>3 DEF IdAPassed, Following, NextField
    <2> QED BY <1>1, <1>6, <2>1
  <1>10. ASSUME field' = "ID_B", NEW n \in Sender' PROVE cur'[n].ext
    <2>1. CASE field = "ID_B"
      BY <1>1, <2>1 DEF AgreeInv
    <2>2. CASE field # "ID_B"
      <3>1. field = "IDE" /\ \E k \in Goes : cur[k].ext
        BY <1>2, <1>10, <2>2 DEF Following, NextField
      <3> QED BY <1>1, <1>7, <3>1
    <2> QED BY <2>1, <2>2
  <1>11. Decided' => /\ field' = Following(r)
                     /\ Decided \/ (field \in {"IDE", "ID_B"} /\ Following(r) = "BODY")
    BY <1>2 DEF Decided, Following, NextField
  <1>12. ASSUME Decided', NEW n \in Sender', NEW k \in Sender' PROVE n = k
    BY <1>1, <1>8, <1>11, <1>12 DEF AgreeInv
  <1>13. ASSUME Decided', NEW n \in Sender' PROVE frame' = cur'[n]
    <2>1. n \in Goes /\ cur'[n] = cur[n] /\ Following(r) # "idle"
      BY <1>1, <1>11, <1>13 DEF Decided
    <2>2. frame' = IF Winners(r) # {} THEN cur[CHOOSE k \in Winners(r) : TRUE] ELSE frame
      BY <2>1, FieldPasses
    <2>3. CASE Decided
      <3>1. Winners(r) = {}
        BY <2>3 DEF Winners, Decided
      <3> QED BY <1>1, <2>1, <2>2, <2>3, <3>1 DEF AgreeInv
    <2>4. CASE field \in {"IDE", "ID_B"} /\ Following(r) = "BODY"
      <3>1. Winners(r) = Goes
        BY <2>4 DEF Winners
      <3>2. (CHOOSE k \in Goes : TRUE) \in Goes
        BY <2>1
      <3>3. (CHOOSE k \in Goes : TRUE) = n
        BY <1>8, <2>1, <2>4, <3>2
      <3> QED BY <2>1, <2>2, <3>1, <3>3
    <2> QED BY <1>11, <1>13, <2>3, <2>4
  <1>14. ASSUME NEW n \in Node, won'[n] PROVE field' # "idle" /\ Sender' \subseteq {n}
    <2>1. Following(r) # "idle" /\ (won[n] \/ n \in Winners(r))
      <3>1. won' = [k \in Node |-> Following(r) # "idle" /\ (won[k] \/ k \in Winners(r))]
        BY FieldPasses
      <3>2. won'[n] <=> Following(r) # "idle" /\ (won[n] \/ n \in Winners(r))
        BY <3>1
      <3> QED BY <1>14, <3>2
    <2>2. field' # "idle"
      BY <1>2, <2>1
    <2>3. won[n] => Sender' \subseteq {n}
      BY <1>1 DEF AgreeInv
    <2>4. n \in Winners(r) => Sender' \subseteq {n}
      BY <1>1, <1>8 DEF Winners
    <2> QED BY <2>1, <2>2, <2>3, <2>4
  <1> QED BY <1>1, <1>4, <1>9, <1>10, <1>12, <1>13, <1>14 DEF AgreeInv, Idle

\* A node that is error active and hears something wrong objects, so that no
\* sender goes on.
LEMMA HearKept ==
  ASSUME TypeInv, AgreeInv, WeakInv, HearInv, DoneMeansReceived, field # "idle", NEW D, NEW G,
         NEW t \in [Node -> TxOutcomes], NEW r \in [Node -> RxOutcomes],
         t = [n \in Node |-> IF tx[n] = "SEND" THEN TxOutcome(n, D) ELSE "none"],
         r = [n \in Node |-> IF rx[n] = "RECV" THEN RxOutcome(n, D, n \in G) ELSE "none"],
         Advance(t, r), TypeInv'
  PROVE  WeakInv' /\ HearInv' /\ DoneMeansReceived'
  <1>1. weak' = weak \cup {n \in Node : tec'[n] >= Passive \/ rec'[n] >= Passive}
    BY DEF Advance
  <1>2. WeakInv'
    <2>1. ASSUME NEW n \in Node \ weak' PROVE tec'[n] < Passive /\ rec'[n] < Passive
      <3>1. ~ (tec'[n] >= Passive) /\ ~ (rec'[n] >= Passive)
        BY <1>1
      <3>2. tec'[n] \in Int /\ rec'[n] \in Int /\ Passive \in Int
        BY ThresholdsOrdered DEF TypeInv, TypeOK
      <3> QED BY <3>1, <3>2
    <2> QED BY <2>1 DEF WeakInv
  <1>3. got' = [n \in Node |-> [m \in Msg |->
                  IF n \in {k \in Node : r[k] = "valid" /\ ~won[k]} /\ frame = m /\ got[n][m] < 2
                  THEN got[n][m] + 1 ELSE got[n][m]]]
    BY DEF Advance
  <1>4. \A n \in Node, m \in Msg : got[n][m] \in 0 .. 2
    BY DEF TypeInv, TypeOK
  <1>5. \A n \in Node, m \in Msg : got[n][m] > 0 => got'[n][m] > 0
    BY <1>3, <1>4
  <1>6. ASSUME NEW s \in Sender', NEW n \in Node, n \notin weak', n # s
        PROVE  jam' \/ IF field' = "EOF_7" THEN got'[n][cur'[s]] > 0 ELSE rx'[n] = "RECV"
    <2>1. s \in Goes /\ s \in Sender /\ cur'[s] = cur[s] /\ field # "EOF_7" /\ cur[s] \in Msg
      BY FieldPasses, SenderHas
    <2>2. n \notin weak /\ ErrorState(n) = "ERROR_ACTIVE"
      <3>1. n \notin weak /\ tec[n] < Passive /\ rec[n] < Passive
        BY <1>1, <1>6 DEF WeakInv
      <3>2. tec[n] \in Int /\ rec[n] \in Int /\ {Passive, BusOff} \subseteq Int /\ Passive < BusOff
        BY ThresholdsOrdered DEF TypeInv, TypeOK
      <3> QED BY <3>1, <3>2 DEF ErrorState
    <2>3. ~won[n]
      BY <1>6, <2>1 DEF AgreeInv
    <2>4. Following(r) # "idle"
      BY <2>1 DEF Following, NextField, TypeInv, TypeOK, Stuffed, Fixed
    <2>5. jam \/ RaisesFlag(n, t[n], r[n]) => jam'
      BY <2>2, <2>4, FieldPasses
    <2>6. CASE jam
      BY <2>5, <2>6
    <2>7. CASE ~jam
      <3>1. rx[n] = "RECV" /\ r[n] = RxOutcome(n, D, n \in G)
        BY <1>6, <2>1, <2>2, <2>7 DEF HearInv
      <3>2. r[n] \in {"ok", "crc", "valid", "error", "ackBitError"}
        BY <3>1, OutcomeTypes DEF RxOutcomes
      <3>3. CASE r[n] \in {"error", "ackBitError"}
        BY <2>3, <2>5, <3>3 DEF RaisesFlag
      <3>4. CASE r[n] = "valid"
        <4>1. field = "EOF_6"
          BY <3>1, <3>4 DEF RxOutcome
        <4>2. frame = cur[s] /\ field' = "EOF_7"
          BY <2>1, <2>4, <4>1, FieldPasses DEF AgreeInv, Decided, Following, NextField
        <4>3. got'[n][cur[s]] > 0
          <5>1. n \in {k \in Node : r[k] = "valid" /\ ~won[k]}
            BY <2>3, <3>4
          <5>2. got'[n][cur[s]] = IF got[n][cur[s]] < 2 THEN got[n][cur[s]] + 1 ELSE got[n][cur[s]]
            BY <1>3, <2>1, <4>2, <5>1
          <5>3. got[n][cur[s]] \in 0 .. 2
            BY <1>4, <2>1
          <5> QED BY <5>2, <5>3
        <4> QED BY <2>1, <4>2, <4>3
      <3>5. CASE r[n] \in {"ok", "crc"}
        <4>1. field # "EOF_6"
          BY <3>1, <3>5 DEF RxOutcome, Stuffed
        <4>2. field' # "EOF_7"
          BY <2>1, <2>4, <4>1, FieldPasses DEF Following, NextField
        <4>3. rx'[n] = "RECV"
          <5>1. rx' = [k \in Node |-> IF Following(r) = "idle" THEN "IDLE"
                         ELSE IF k \in {j \in Node : r[j] \in {"error", "ackBitError"}} \/ r[k] = "valid"
                         THEN "OUT" ELSE rx[k]]
            <6>1. Goes = {k \in Node : t[k] = "ok"}
              BY FieldPasses
            <6> QED BY <6>1 DEF Advance, Following
          <5> QED BY <2>4, <3>1, <3>5, <5>1
        <4> QED BY <4>2, <4>3
      <3> QED BY <3>2, <3>3, <3>4, <3>5
    <2> QED BY <2>6, <2>7
  <1>7. DoneMeansReceived'
    <2>1. done' = done \cup {cur[k] : k \in {j \in Node : t[j] = "done"}}
      BY DEF Advance
    <2>2. ASSUME NEW m \in done, NEW n \in Node \ ({m.src} \cup weak') PROVE got'[n][m] > 0
      <3>1. got[n][m] > 0 /\ m \in Msg
        BY <1>1 DEF DoneMeansReceived, TypeInv, TypeOK
      <3> QED BY <1>5, <3>1
    <2>3. ASSUME NEW k \in Node, t[k] = "done", NEW n \in Node \ ({cur[k].src} \cup weak')
          PROVE  got'[n][cur[k]] > 0
      <3>1. k \in Sender /\ field = "EOF_7" /\ ~Overruled(k)
        BY <2>3, FieldPasses
      <3>2. jam = FALSE
        BY <3>1 DEF Overruled, TypeInv, TypeOK
      <3>3. cur[k] \in Msg /\ cur[k].src = k
        BY <3>1, SenderHas
      <3>4. got[n][cur[k]] > 0
        BY <1>1, <2>3, <3>1, <3>2, <3>3 DEF HearInv
      <3> QED BY <1>5, <3>3, <3>4
    <2> QED BY <2>1, <2>2, <2>3 DEF DoneMeansReceived
  <1> QED BY <1>2, <1>6, <1>7 DEF HearInv

-----------------------------------------------------------------------------
\* The steps between frames.
LEMMA TxStartTypes ==
  ASSUME TypeInv, NEW n \in Node, NEW m \in Msg, TxStart(n, m)
  PROVE  TypeInv'
  <1>1. /\ tx[n] = "IDLE" /\ m \in pending /\ m.src = n
        /\ tx' = [tx EXCEPT ![n] = "WAIT"] /\ cur' = [cur EXCEPT ![n] = m]
        /\ attempts' = [attempts EXCEPT ![n] = 0] /\ pending' = pending \ {m}
        /\ UNCHANGED <<bus, rxVars, eml, frame, done, failed, got, weak, faults>>
    BY DEF TxStart
  <1>2. TypeOK'
    BY <1>1, ThresholdsOrdered DEF TypeInv, TypeOK, bus, rxVars, eml
  <1>3. ASSUME NEW k \in Node
        PROVE  /\ InHand(k)' => cur'[k] \in Msg \ (pending' \cup done' \cup failed') /\ cur'[k].src = k
               /\ ~InHand(k)' => cur'[k] = NoMsg
    <2>1. CASE k = n
      BY <1>1, <2>1 DEF TypeInv, TypeOK, HandInv, InHand
    <2>2. CASE k # n
      BY <1>1, <2>2 DEF TypeInv, TypeOK, HandInv, InHand
    <2> QED BY <2>1, <2>2
  <1>4. HandInv'
    BY <1>1, <1>3 DEF TypeInv, HandInv
  <1> QED BY <1>2, <1>4 DEF TypeInv

LEMMA StartFrameTypes ==
  ASSUME TypeInv, StartFrame
  PROVE  TypeInv' /\ \A n \in Node : InHand(n)' <=> InHand(n)
  <1>1. /\ field' = "SOF"
        /\ tx' = [n \in Node |-> IF tx[n] = "WAIT" THEN "SEND" ELSE tx[n]]
        /\ rx' = [n \in Node |-> "RECV"]
        /\ UNCHANGED <<jam, cur, attempts, crcBad, won, eml, hist>>
    BY DEF StartFrame
  <1>2. TypeOK'
    BY <1>1 DEF TypeInv, TypeOK, Stuffed, eml, hist
  <1>3. \A n \in Node : InHand(n)' <=> InHand(n)
    BY <1>1 DEF InHand
  <1>4. HandInv'
    BY <1>1, <1>3 DEF TypeInv, HandInv, hist
  <1> QED BY <1>2, <1>3, <1>4 DEF TypeInv

LEMMA ElevenRecessiveTypes ==
  ASSUME TypeInv, NEW n \in Node, ElevenRecessive(n)
  PROVE  TypeInv'
  <1>1. UNCHANGED <<bus, txVars, rxVars, hist>>
    BY DEF ElevenRecessive
  <1>2. quiet' \in [Node -> 0 .. Recovery]
    <2>1. quiet \in [Node -> 0 .. Recovery] /\ Recovery \in Nat /\ quiet[n] \in 0 .. Recovery
      BY ThresholdsOrdered DEF TypeInv, TypeOK
    <2>2. \/ quiet' = [quiet EXCEPT ![n] = 0]
          \/ quiet[n] # Recovery /\ quiet' = [quiet EXCEPT ![n] = @ + 1]
      BY DEF ElevenRecessive
    <2> QED BY <2>1, <2>2
  <1>3. tec' \in [Node -> 0 .. CountMax] /\ rec' \in [Node -> 0 .. CountMax]
    <2>1. /\ tec \in [Node -> 0 .. CountMax] /\ rec \in [Node -> 0 .. CountMax]
          /\ 0 \in 0 .. CountMax
      BY ThresholdsOrdered DEF TypeInv, TypeOK
    <2>2. /\ tec' = [tec EXCEPT ![n] = 0] \/ tec' = tec
          /\ rec' = [rec EXCEPT ![n] = 0] \/ rec' = rec
      BY DEF ElevenRecessive
    <2> QED BY <2>1, <2>2
  <1>4. TypeOK'
    BY <1>1, <1>2, <1>3 DEF TypeInv, TypeOK, bus, txVars, rxVars, hist
  <1>5. HandInv'
    BY <1>1 DEF TypeInv, HandInv, InHand, txVars, hist
  <1> QED BY <1>4, <1>5 DEF TypeInv

LEMMA FieldTypes ==
  ASSUME TypeInv, NEW D \in SUBSET Exposed, NEW G \in Garbled(D), Field(D, G)
  PROVE  TypeInv'
  <1>1. field # "idle"
    BY DEF Field
  <1> QED BY <1>1, FieldIsAdvance, AdvanceTypes DEF TypeInv

LEMMA InitTypes == Init => TypeInv
  <1> SUFFICES ASSUME Init PROVE TypeInv
    OBVIOUS
  <1>1. TypeOK
    <2>1. \A k \in {RetransmitMax, CountMax, Recovery, MaxFaults} : 0 \in 0 .. k
      BY ThresholdsOrdered
    <2>2. /\ attempts \in [Node -> 0 .. RetransmitMax] /\ faults \in 0 .. MaxFaults
          /\ tec \in [Node -> 0 .. CountMax] /\ rec \in [Node -> 0 .. CountMax]
          /\ quiet \in [Node -> 0 .. Recovery]
      BY <2>1 DEF Init
    <2>3. /\ field \in Stuffed \cup Fixed \cup {"idle"} /\ jam \in BOOLEAN
          /\ tx \in [Node -> {"IDLE", "WAIT", "SEND"}] /\ rx \in [Node -> {"IDLE", "RECV", "OUT"}]
          /\ cur \in [Node -> Msg \cup {NoMsg}]
          /\ crcBad \in [Node -> BOOLEAN] /\ won \in [Node -> BOOLEAN]
      BY DEF Init
    <2>4. /\ frame \in Msg \cup {NoMsg} /\ pending \subseteq Msg /\ done \subseteq Msg /\ failed \subseteq Msg
          /\ got \in [Node -> [Msg -> 0 .. 2]] /\ weak \subseteq Node
      BY DEF Init
    <2> QED BY <2>2, <2>3, <2>4 DEF TypeOK
  <1>2. HandInv
    BY DEF Init, HandInv, InHand
  <1> QED BY <1>1, <1>2 DEF TypeInv

LEMMA NextTypes == TypeInv /\ [Next]_vars => TypeInv'
  <1> SUFFICES ASSUME TypeInv, [Next]_vars PROVE TypeInv'
    OBVIOUS
  <1>1. CASE \E m \in Msg : TxStart(m.src, m)
    BY <1>1, TxStartTypes, MessagesKnown
  <1>2. CASE StartFrame
    BY <1>2, StartFrameTypes
  <1>3. CASE \E D \in SUBSET Exposed : \E G \in Garbled(D) : Field(D, G)
    BY <1>3, FieldTypes
  <1>4. CASE \E n \in Node : ElevenRecessive(n)
    BY <1>4, ElevenRecessiveTypes
  <1>5. CASE UNCHANGED vars
    BY <1>5 DEF vars, bus, txVars, rxVars, eml, hist, TypeInv, TypeOK, HandInv, InHand
  <1> QED BY <1>1, <1>2, <1>3, <1>4, <1>5 DEF Next

\* The controllers keep to the states and ranges that the model states, and a
\* message in hand is its node's own and not reported yet.
THEOREM TypeCorrect == Spec => [](TypeOK /\ HandInv)
  <1>1. Spec => []TypeInv
    BY InitTypes, NextTypes, PTL DEF Spec
  <1> QED BY <1>1, PTL DEF TypeInv

-----------------------------------------------------------------------------
LEMMA InitBus == Init => BusInv
  <1> SUFFICES ASSUME Init PROVE BusInv
    OBVIOUS
  <1>1. Sender = {}
    BY DEF Init, Sender
  <1>2. AgreeInv
    BY <1>1 DEF Init, AgreeInv, Idle, IdAPassed, Decided
  <1>3. WeakInv
    BY ThresholdsOrdered DEF Init, WeakInv
  <1>4. HearInv /\ DoneMeansReceived
    BY <1>1 DEF Init, HearInv, DoneMeansReceived
  <1> QED BY <1>2, <1>3, <1>4 DEF BusInv

LEMMA NextBus == DistinctIds => (TypeInv /\ TypeInv' /\ BusInv /\ [Next]_vars => BusInv')
  <1> SUFFICES ASSUME DistinctIds, TypeInv, TypeInv', BusInv, [Next]_vars PROVE BusInv'
    OBVIOUS
  <1>1. ASSUME NEW n \in Node, NEW m \in Msg, TxStart(n, m) PROVE BusInv'
    <2>1. /\ Idle /\ tx' = [tx EXCEPT ![n] = "WAIT"]
          /\ UNCHANGED <<bus, rxVars, eml, frame, done, failed, got, weak, faults>>
      BY <1>1 DEF TxStart, Idle
    <2>2. Sender' = {}
      BY <2>1 DEF BusInv, AgreeInv, Sender, TypeInv, TypeOK
    <2>3. AgreeInv'
      BY <2>1, <2>2 DEF BusInv, AgreeInv, Idle, IdAPassed, Decided, bus, rxVars
    <2>4. WeakInv' /\ DoneMeansReceived'
      BY <2>1 DEF BusInv, WeakInv, DoneMeansReceived, eml
    <2>5. HearInv'
      BY <2>2 DEF HearInv
    <2> QED BY <2>3, <2>4, <2>5 DEF BusInv
  <1>2. CASE StartFrame
    <2>1. /\ Idle /\ field' = "SOF" /\ rx' = [n \in Node |-> "RECV"]
          /\ UNCHANGED <<jam, cur, attempts, crcBad, won, eml, hist>>
      BY <1>2 DEF StartFrame, Idle
    <2>2. \A n \in Node : ~won'[n]
      BY <2>1 DEF BusInv, AgreeInv
    <2>3. AgreeInv'
      BY <2>1, <2>2 DEF AgreeInv, Idle, IdAPassed, Decided
    <2>4. WeakInv' /\ DoneMeansReceived'
      BY <2>1 DEF BusInv, WeakInv, DoneMeansReceived, eml, hist
    <2>5. HearInv'
      BY <2>1 DEF HearInv
    <2> QED BY <2>3, <2>4, <2>5 DEF BusInv
  <1>3. ASSUME NEW D \in SUBSET Exposed, NEW G \in Garbled(D), Field(D, G) PROVE BusInv'
    <2>1. field # "idle"
      BY <1>3 DEF Field
    <2>2. PICK t \in [Node -> TxOutcomes], r \in [Node -> RxOutcomes] :
            /\ t = [n \in Node |-> IF tx[n] = "SEND" THEN TxOutcome(n, D) ELSE "none"]
            /\ r = [n \in Node |-> IF rx[n] = "RECV" THEN RxOutcome(n, D, n \in G) ELSE "none"]
            /\ Advance(t, r)
      BY <1>3, FieldIsAdvance DEF TypeInv
    <2>3. AgreeInv'
      BY <2>1, <2>2, AgreeKept DEF BusInv
    <2>4. WeakInv' /\ HearInv' /\ DoneMeansReceived'
      BY <2>1, <2>2, HearKept DEF BusInv
    <2> QED BY <2>3, <2>4 DEF BusInv
  <1>4. ASSUME NEW n \in Node, ElevenRecessive(n) PROVE BusInv'
    <2>1. UNCHANGED <<bus, txVars, rxVars, hist>>
      BY <1>4 DEF ElevenRecessive
    <2>2. WeakInv'
      <3>1. \A k \in Node : (tec'[k] = tec[k] /\ rec'[k] = rec[k]) \/ (tec'[k] = 0 /\ rec'[k] = 0)
        BY <1>4 DEF ElevenRecessive, TypeInv, TypeOK
      <3> QED BY <2>1, <3>1, ThresholdsOrdered DEF BusInv, WeakInv, hist
    <2>3. AgreeInv' /\ HearInv' /\ DoneMeansReceived'
      BY <2>1 DEF BusInv, AgreeInv, HearInv, DoneMeansReceived, Sender, Idle, IdAPassed, Decided,
                  bus, txVars, rxVars, hist
    <2> QED BY <2>2, <2>3 DEF BusInv
  <1>5. CASE UNCHANGED vars
    BY <1>5 DEF vars, bus, txVars, rxVars, eml, hist, BusInv, AgreeInv, WeakInv, HearInv,
                DoneMeansReceived, Sender, Idle, IdAPassed, Decided
  <1> QED BY <1>1, <1>2, <1>3, <1>4, <1>5, MessagesKnown DEF Next

\* TX_DONE is a promise about the others, whatever is disturbed: as long as no
\* two nodes use the same identifier, a message reported done is with every
\* node that has been error active throughout (error flags and ACK slot of
\* canola_frame_rx_fsm.vhd and canola_bsp.vhd).
THEOREM DoneIsReceived == DistinctIds => (Spec => []DoneMeansReceived)
  <1>1. CASE DistinctIds
    <2>1. TypeInv /\ TypeInv' /\ BusInv /\ [Next]_vars => BusInv'
      BY <1>1, NextBus
    <2>2. BusInv => DoneMeansReceived
      BY DEF BusInv
    <2> QED BY <2>1, <2>2, InitTypes, NextTypes, InitBus, PTL DEF Spec
  <1> QED BY <1>1

-----------------------------------------------------------------------------
\* The undisturbed bus.
Loses(n) == field \in {"ID_A", "ID_B"} /\ \E k \in Sender : Value(k, field) < Value(n, field)
Losers == {n \in Sender : Loses(n)}
Stays == Sender \ Losers

\* Arbitration leaves somebody.
LEMMA SomebodyStays ==
  ASSUME TypeInv, Sender # {}
  PROVE  Stays # {}
  <1> DEFINE Values == {Value(n, field) : n \in Sender}
  <1>1. Values \subseteq Nat /\ Values # {}
    BY SenderHas
  <1>2. PICK x \in Values : \A y \in Values : x <= y
    BY <1>1, LeastOf
  <1>3. PICK n \in Sender : x = Value(n, field)
    BY <1>2
  <1>4. ASSUME NEW k \in Sender PROVE ~ (Value(k, field) < Value(n, field))
    <2>1. Value(n, field) <= Value(k, field)
      BY <1>2, <1>3
    <2> QED BY <2>1, SenderHas
  <1>5. n \notin Losers
    BY <1>4 DEF Losers, Loses
  <1> QED BY <1>5 DEF Stays

\* All that an undisturbed field means: a lost arbitration, the end of the
\* message, a valid message, or nothing.
LEMMA CleanTx ==
  ASSUME TypeInv, AgreeInv, CleanInv, Company, Unmixed, field # "idle", NEW n \in Sender
  PROVE  TxOutcome(n, {}) = IF n \in Losers THEN "arbLost" ELSE IF field = "EOF_7" THEN "done" ELSE "ok"
  <1>1. jam = FALSE
    BY DEF CleanInv, Calm
  <1>2. CASE field \in {"ID_A", "ID_B"}
    BY <1>1, <1>2 DEF TxOutcome, Overruled, Arbitrates, Losers, Loses
  <1>3. CASE field \in {"SRR_RTR", "IDE"}
    <2>1. \A k \in Sender : cur[k].ida = cur[n].ida
      BY <1>3 DEF AgreeInv, IdAPassed
    <2>2. \A k \in Sender : cur[k].ext = cur[n].ext
      BY <2>1, SenderHas DEF Unmixed
    <2>3. \A k \in Sender : ~ (Value(k, field) < Value(n, field))
      BY <2>2, <1>3 DEF Value
    <2>4. ~ Overruled(n) /\ n \notin Losers
      BY <2>3, <1>1, <1>3 DEF Overruled, Losers, Loses
    <2> QED BY <2>4, <1>3 DEF TxOutcome
  <1>4. CASE field = "ACK_SLOT"
    <2>1. PICK k \in Node : k # n
      BY DEF Company
    <2>2. k \notin Sender
      BY <1>4, <2>1 DEF AgreeInv, Decided
    <2>3. Acking(k)
      BY <1>4, <2>1 DEF Acking, AgreeInv, CleanInv, FrameInv, Idle, Calm
    <2> QED BY <1>4, <2>3, <1>1 DEF TxOutcome, Losers, Loses
  <1>5. CASE field \notin {"ID_A", "ID_B", "SRR_RTR", "IDE", "ACK_SLOT"}
    BY <1>1, <1>5 DEF TxOutcome, Overruled, Losers, Loses
  <1> QED BY <1>2, <1>3, <1>4, <1>5

LEMMA CleanRx ==
  ASSUME TypeInv, CleanInv, field # "idle", NEW n \in Node, rx[n] = "RECV"
  PROVE  RxOutcome(n, {}, FALSE) = IF field = "EOF_6" THEN "valid" ELSE "ok"
  <1>1. jam = FALSE /\ crcBad[n] = FALSE /\ Sender # {} /\ field # "EOF_7"
    BY DEF CleanInv, Calm, FrameInv, Idle
  <1>2. field \in {"SOF", "ID_A", "SRR_RTR", "IDE", "ID_B", "BODY", "CRC_DELIM",
                   "ACK_SLOT", "ACK_DELIM", "EOF", "EOF_6"}
    BY <1>1 DEF TypeInv, TypeOK, Stuffed, Fixed
  <1> QED BY <1>1, <1>2 DEF RxOutcome, Stuffed

\* What a field does on the undisturbed bus.
Last == field = "EOF_7"
Next_field == IF Last THEN "idle" ELSE NextField(Stays)
Decides == field \in {"IDE", "ID_B"} /\ Next_field = "BODY"
Dropped == {n \in Losers : Exhausted(n)}
Leave == Dropped \cup (IF Last THEN Sender ELSE {})
CleanStep ==
  /\ field' = Next_field /\ jam' = FALSE
  /\ tec' = [n \in Node |-> 0] /\ rec' = [n \in Node |-> 0] /\ crcBad' = [n \in Node |-> FALSE]
  /\ tx' = [n \in Node |-> IF n \in Leave THEN "IDLE" ELSE IF n \in Losers THEN "WAIT" ELSE tx[n]]
  /\ cur' = [n \in Node |-> IF n \in Leave THEN NoMsg ELSE cur[n]]
  /\ attempts' = [n \in Node |-> IF n \in Leave THEN 0
                                 ELSE IF n \in Losers THEN attempts[n] + 1 ELSE attempts[n]]
  /\ done' = done \cup {cur[n] : n \in IF Last THEN Sender ELSE {}}
  /\ failed' = failed \cup {cur[n] : n \in Dropped}
  /\ rx' = [n \in Node |-> IF Last THEN "IDLE" ELSE IF field = "EOF_6" THEN "OUT" ELSE rx[n]]
  /\ won' = [n \in Node |-> ~Last /\ (won[n] \/ (Decides /\ n \in Stays))]
  /\ frame' = IF Last THEN NoMsg ELSE IF Decides THEN cur[CHOOSE n \in Stays : TRUE] ELSE frame
  /\ got' = [n \in Node |-> [m \in Msg |->
               IF field = "EOF_6" /\ ~won[n] /\ frame = m /\ got[n][m] < 2
               THEN got[n][m] + 1 ELSE got[n][m]]]
  /\ pending' = pending

LEMMA FieldIsClean ==
  ASSUME TypeInv, AgreeInv, CleanInv, Company, Unmixed, faults = 0, faults' = 0,
         NEW D \in SUBSET Exposed, NEW G \in Garbled(D), Field(D, G)
  PROVE  CleanStep
  <1>1. D = {} /\ G = {}
    <2>1. Cardinality(D) = 0
      <3>1. faults' = faults + Cardinality(D) /\ Cardinality(D) \in Nat
        BY FieldIsAdvance DEF TypeInv
      <3> QED BY <3>1
    <2>2. D = {}
      BY <2>1, FieldIsAdvance DEF TypeInv
    <2> QED BY <2>2 DEF Garbled
  <1>2. PICK t \in [Node -> TxOutcomes], r \in [Node -> RxOutcomes] :
          /\ t = [n \in Node |-> IF tx[n] = "SEND" THEN TxOutcome(n, {}) ELSE "none"]
          /\ r = [n \in Node |-> IF rx[n] = "RECV" THEN RxOutcome(n, {}, FALSE) ELSE "none"]
          /\ Advance(t, r)
    <2>1. \A n \in Node : (n \in G) = FALSE
      BY <1>1
    <2>2. \A n \in Node : RxOutcome(n, D, n \in G) = RxOutcome(n, {}, FALSE)
      BY <1>1, <2>1
    <2>3. \A n \in Node : TxOutcome(n, D) = TxOutcome(n, {})
      BY <1>1
    <2>4. PICK t \in [Node -> TxOutcomes], r \in [Node -> RxOutcomes] :
            /\ t = [n \in Node |-> IF tx[n] = "SEND" THEN TxOutcome(n, D) ELSE "none"]
            /\ r = [n \in Node |-> IF rx[n] = "RECV" THEN RxOutcome(n, D, n \in G) ELSE "none"]
            /\ Advance(t, r)
      BY FieldIsAdvance DEF TypeInv
    <2>5. t = [n \in Node |-> IF tx[n] = "SEND" THEN TxOutcome(n, {}) ELSE "none"]
      BY <2>3, <2>4
    <2>6. r = [n \in Node |-> IF rx[n] = "RECV" THEN RxOutcome(n, {}, FALSE) ELSE "none"]
      BY <2>2, <2>4
    <2> QED BY <2>4, <2>5, <2>6
  <1>3. field # "idle" /\ Sender # {} /\ Sender \subseteq Node
    BY DEF Field, CleanInv, FrameInv, Idle, Sender
  <1>4. \A n \in Node : t[n] = IF n \in Sender
                                 THEN IF n \in Losers THEN "arbLost" ELSE IF Last THEN "done" ELSE "ok"
                                 ELSE "none"
    BY <1>2, <1>3, CleanTx DEF Sender, Last
  <1>5. \A n \in Node : r[n] = IF Last THEN "none" ELSE IF field = "EOF_6" THEN "valid" ELSE "ok"
    BY <1>2, <1>3, CleanRx DEF CleanInv, FrameInv, Idle, Last
  <1>6. Losers \subseteq Sender /\ (Last => Losers = {}) /\ (~Last => Stays # {})
    BY <1>3, SomebodyStays DEF Losers, Loses, Last
  <1> DEFINE Again == {n \in Node : t[n] \in {"arbLost", "bitError", "ackError"}}
             GiveUp == {n \in Again : Exhausted(n)}
             Finish == {n \in Node : t[n] = "done"}
             Valid == {n \in Node : r[n] = "valid" /\ ~won[n]}
             RxError == {n \in Node : r[n] \in {"error", "ackBitError"}}
             Flag == {n \in Node : RaisesFlag(n, t[n], r[n])}
             Left == {n \in Node : t[n] = "ok"}
             In == {n \in Node : r[n] \in {"ok", "crc"}}
             next == IF Left \cup In = {} THEN "idle" ELSE NextField(Left)
             Winner == IF next = "BODY" /\ field \in {"IDE", "ID_B"} THEN Left ELSE {}
  <1>7. Again = Losers /\ GiveUp = Dropped /\ Finish = IF Last THEN Sender ELSE {}
    <2>1. Again = Losers
      BY <1>3, <1>4, <1>6
    <2>2. Finish = IF Last THEN Sender ELSE {}
      BY <1>3, <1>4, <1>6
    <2> QED BY <2>1, <2>2 DEF Dropped
  <1>8. Left = IF Last THEN {} ELSE Stays
    BY <1>3, <1>4, <1>6 DEF Stays
  <1>9. RxError = {} /\ Flag = {} /\ (Last => In = {})
    BY <1>4, <1>5 DEF RaisesFlag
  <1>10. next = Next_field
    BY <1>6, <1>8, <1>9 DEF Next_field
  <1>11. ~Last => Next_field # "idle"
    BY <1>3 DEF Next_field, NextField, Last, TypeInv, TypeOK, Stuffed, Fixed
  <1>12. Winner = IF Decides THEN Stays ELSE {}
    BY <1>8, <1>10 DEF Decides, Last
  <1>13. Advance(t, r)
    BY <1>2
  <1>14. /\ jam' = (next # "idle" /\ (jam \/ \E n \in Flag : ErrorState(n) = "ERROR_ACTIVE"))
         /\ field' \in {next} \cup IF jam' /\ field \in {"ID_A", "ID_B"} THEN {field} ELSE {}
         /\ frame' = IF next = "idle" THEN NoMsg
                     ELSE IF Winner # {} THEN cur[CHOOSE n \in Winner : TRUE] ELSE frame
         /\ tx' = [n \in Node |-> IF n \in GiveUp \cup Finish THEN "IDLE"
                                  ELSE IF n \in Again THEN "WAIT" ELSE tx[n]]
         /\ attempts' = [n \in Node |-> IF n \in GiveUp \cup Finish THEN 0
                                        ELSE IF n \in Again THEN attempts[n] + 1 ELSE attempts[n]]
         /\ rx' = [n \in Node |-> IF next = "idle" THEN "IDLE"
                                  ELSE IF n \in RxError \/ r[n] = "valid" THEN "OUT" ELSE rx[n]]
         /\ crcBad' = [n \in Node |-> next # "idle" /\ (crcBad[n] \/ r[n] = "crc")]
         /\ won' = [n \in Node |-> next # "idle" /\ (won[n] \/ n \in Winner)]
    BY <1>13 DEF Advance
  <1>15. /\ tec' = [n \in Node |-> TecAfter(n, t[n] = "bitError" \/ (r[n] = "ackBitError" /\ ~won[n]),
                                            t[n] = "ackError", n \in Finish)]
         /\ rec' = [n \in Node |-> RecAfter(n, r[n] = "error" /\ ~won[n], n \in Valid)]
         /\ got' = [n \in Node |-> [m \in Msg |->
                      IF n \in Valid /\ frame = m /\ got[n][m] < 2 THEN got[n][m] + 1 ELSE got[n][m]]]
         /\ done' = done \cup {cur[n] : n \in Finish}
         /\ failed' = failed \cup {cur[n] : n \in GiveUp}
         /\ cur' = [n \in Node |-> IF n \in GiveUp \cup Finish THEN NoMsg ELSE cur[n]]
         /\ pending' = pending
    BY <1>13 DEF Advance
  <1>16. \A n \in Valid : field = "EOF_6" /\ ~won[n]
    BY <1>5
  <1>17. \A n \in Node : n \in Valid <=> field = "EOF_6" /\ ~won[n]
    BY <1>5 DEF Last
  <1> HIDE DEF Again, GiveUp, Finish, Valid, RxError, Flag, Left, In, next, Winner
  <1>18. jam' = FALSE /\ field' = Next_field
    BY <1>9, <1>10, <1>14 DEF CleanInv, Calm
  <1>19. crcBad' = [n \in Node |-> FALSE]
    BY <1>14, <1>5 DEF CleanInv, Calm
  <1>20. tec' = [n \in Node |-> 0]
    <2>1. \A n \in Node : TecAfter(n, FALSE, FALSE, n \in Finish) = 0
      BY DEF TecAfter, Less, CleanInv, Calm
    <2>2. \A n \in Node : ~ (t[n] = "bitError" \/ (r[n] = "ackBitError" /\ ~won[n])) /\ t[n] # "ackError"
      BY <1>4, <1>5
    <2>3. \A n \in Node : /\ (t[n] = "bitError" \/ (r[n] = "ackBitError" /\ ~won[n])) = FALSE
                          /\ (t[n] = "ackError") = FALSE
      BY <2>2
    <2> QED BY <1>15, <2>1, <2>3
  <1>21. rec' = [n \in Node |-> 0]
    <2>1. \A n \in Node : RecAfter(n, FALSE, n \in Valid) = 0
      BY ThresholdsOrdered DEF RecAfter, Less, CleanInv, Calm
    <2>2. \A n \in Node : (r[n] = "error" /\ ~won[n]) = FALSE
      BY <1>5
    <2> QED BY <1>15, <2>1, <2>2
  <1>22. /\ tx' = [n \in Node |-> IF n \in Leave THEN "IDLE" ELSE IF n \in Losers THEN "WAIT" ELSE tx[n]]
         /\ cur' = [n \in Node |-> IF n \in Leave THEN NoMsg ELSE cur[n]]
         /\ attempts' = [n \in Node |-> IF n \in Leave THEN 0
                                        ELSE IF n \in Losers THEN attempts[n] + 1 ELSE attempts[n]]
    BY <1>7, <1>14, <1>15 DEF Leave
  <1>23. /\ done' = done \cup {cur[n] : n \in IF Last THEN Sender ELSE {}}
         /\ failed' = failed \cup {cur[n] : n \in Dropped}
         /\ pending' = pending
    BY <1>7, <1>15
  <1>24. rx' = [n \in Node |-> IF Last THEN "IDLE" ELSE IF field = "EOF_6" THEN "OUT" ELSE rx[n]]
    BY <1>5, <1>9, <1>10, <1>11, <1>14 DEF Next_field
  <1>25. won' = [n \in Node |-> ~Last /\ (won[n] \/ (Decides /\ n \in Stays))]
    BY <1>10, <1>11, <1>12, <1>14 DEF Next_field
  <1>26. frame' = IF Last THEN NoMsg ELSE IF Decides THEN cur[CHOOSE n \in Stays : TRUE] ELSE frame
    <2>1. CASE Last
      BY <2>1, <1>10, <1>14 DEF Next_field
    <2>2. CASE ~Last /\ Decides
      <3>1. Winner = Stays /\ Winner # {} /\ next # "idle"
        BY <2>2, <1>6, <1>10, <1>11, <1>12
      <3> QED BY <2>2, <3>1, <1>14
    <2>3. CASE ~Last /\ ~Decides
      <3>1. Winner = {} /\ next # "idle"
        BY <2>3, <1>10, <1>11, <1>12
      <3> QED BY <2>3, <3>1, <1>14
    <2> QED BY <2>1, <2>2, <2>3
  <1>27. got' = [n \in Node |-> [m \in Msg |->
                   IF field = "EOF_6" /\ ~won[n] /\ frame = m /\ got[n][m] < 2
                   THEN got[n][m] + 1 ELSE got[n][m]]]
    BY <1>15, <1>17
  <1> QED BY <1>18, <1>19, <1>20, <1>21, <1>22, <1>23, <1>24, <1>25, <1>26, <1>27 DEF CleanStep

\* Who sends after the field: its losers, and at the end its winner, are gone.
LEMMA CleanSenders ==
  ASSUME TypeInv, AgreeInv, CleanInv, field # "idle", CleanStep
  PROVE  /\ Sender' = IF Last THEN {} ELSE Stays
         /\ (Last => Losers = {}) /\ (~Last => Stays # {} /\ Leave = Dropped)
         /\ (field' = "idle" <=> Last)
         /\ \A n \in Stays : ~Last => cur'[n] = cur[n]
         /\ \A n \in Node : InHand(n)' => n \notin Leave /\ InHand(n) /\ cur'[n] = cur[n]
         /\ Stays \subseteq Sender /\ Dropped \subseteq Losers /\ Losers \subseteq Sender
  <1>1. Sender # {} /\ Losers \subseteq Sender /\ Sender \subseteq Node /\ Stays \subseteq Sender
        /\ Dropped \subseteq Losers /\ Stays \cap Losers = {}
    BY DEF CleanInv, FrameInv, Idle, Losers, Sender, Stays, Dropped
  <1>2. (Last => Losers = {}) /\ (~Last => Stays # {} /\ Leave = Dropped)
    BY <1>1, SomebodyStays DEF Losers, Loses, Last, Leave
  <1>3. field' = "idle" <=> Last
    BY DEF CleanStep, Next_field, NextField, Last, TypeInv, TypeOK, Stuffed, Fixed
  <1>4. Sender' = IF Last THEN {} ELSE Stays
    <2>1. Sender' = {n \in Node : tx'[n] = "SEND"}
      BY DEF Sender
    <2>2. CASE Last
      <3>1. Leave = Sender
        BY <1>1, <1>2, <2>2 DEF Leave
      <3> QED BY <2>1, <2>2, <3>1 DEF CleanStep, Sender
    <2>3. CASE ~Last
      BY <1>1, <1>2, <2>1, <2>3 DEF CleanStep, Sender, Stays
    <2> QED BY <2>2, <2>3
  <1>5. \A n \in Stays : ~Last => cur'[n] = cur[n]
    BY <1>1, <1>2 DEF CleanStep
  <1>6. ASSUME NEW n \in Node, InHand(n)' PROVE n \notin Leave /\ InHand(n) /\ cur'[n] = cur[n]
    <2>1. n \notin Leave
      BY <1>6 DEF CleanStep, InHand
    <2>2. cur'[n] = cur[n]
      BY <2>1 DEF CleanStep
    <2>3. InHand(n)
      BY <1>1, <1>6, <2>1 DEF CleanStep, InHand, Sender
    <2> QED BY <2>1, <2>2, <2>3
  <1> QED BY <1>1, <1>2, <1>3, <1>4, <1>5, <1>6

LEMMA FrameKept ==
  ASSUME TypeInv, AgreeInv, CleanInv, field # "idle", CleanStep
  PROVE  FrameInv'
  <1>1. field' = Next_field /\ field \in Stuffed \cup Fixed
    BY DEF CleanStep, TypeInv, TypeOK
  <1>2. Sender' = {} => Idle'
    BY CleanSenders DEF Idle
  <1>3. \A n \in Node : rx'[n] = IF Idle' THEN "IDLE" ELSE IF field' = "EOF_7" THEN "OUT" ELSE "RECV"
    <2>1. field' = "EOF_7" <=> field = "EOF_6"
      BY <1>1 DEF Next_field, NextField, Last, Stuffed, Fixed
    <2>2. Idle' <=> Last
      BY CleanSenders DEF Idle
    <2> QED BY <2>1, <2>2 DEF CleanStep, CleanInv, FrameInv, Idle, Last
  <1>4. ASSUME NEW n \in Node, Decided', n \in Sender' PROVE won'[n]
    <2>1. ~Last /\ (Decided \/ Decides)
      BY <1>1, <1>4 DEF Decided, Decides, Next_field, NextField, Last
    <2>2. n \in Stays /\ n \in Sender
      BY <1>4, <2>1, CleanSenders
    <2> QED BY <2>1, <2>2 DEF CleanStep, CleanInv, FrameInv
  <1> QED BY <1>2, <1>3, <1>4 DEF FrameInv

LEMMA GotKept ==
  ASSUME TypeInv, AgreeInv, CleanInv, field # "idle", CleanStep
  PROVE  GotInv'
  <1> SUFFICES ASSUME NEW n \in Node, NEW m \in Msg
               PROVE  /\ got'[n][m] <= 1
                      /\ m \in pending' => got'[n][m] = 0
                      /\ \A k \in Node : InHand(k)' /\ m = cur'[k] /\ ~(field' = "EOF_7" /\ k \in Sender')
                                           => got'[n][m] = 0
    BY DEF GotInv
  <1>1. got'[n][m] = IF field = "EOF_6" /\ ~won[n] /\ frame = m /\ got[n][m] < 2
                       THEN got[n][m] + 1 ELSE got[n][m]
    BY DEF CleanStep
  <1>2. got[n][m] <= 1 /\ (m \in pending => got[n][m] = 0) /\ got[n][m] \in Nat
    BY DEF CleanInv, GotInv, TypeInv, TypeOK
  <1>3. \A k \in Node : InHand(k) /\ m = cur[k] /\ ~(field = "EOF_7" /\ k \in Sender) => got[n][m] = 0
    BY DEF CleanInv, GotInv
  <1>4. pending' = pending /\ field' = Next_field
    BY DEF CleanStep
  <1>5. CASE field = "EOF_6" /\ frame = m
    <2>1. PICK s \in Sender : cur[s] = m
      BY <1>5 DEF AgreeInv, CleanInv, FrameInv, Idle, Decided
    <2>2. s \in Node /\ InHand(s) /\ cur[s].src = s
      BY SenderHas
    <2>3. got[n][m] = 0 /\ got'[n][m] <= 1
      BY <1>1, <1>3, <1>5, <2>1, <2>2
    <2>4. m \notin pending
      BY <2>1, <2>2 DEF TypeInv, HandInv
    <2>5. ASSUME NEW k \in Node, InHand(k)', m = cur'[k] PROVE field' = "EOF_7" /\ k \in Sender'
      <3>1. InHand(k) /\ cur[k] = m
        BY <2>5, CleanSenders
      <3>2. k = s
        BY <2>1, <2>2, <3>1 DEF TypeInv, HandInv
      <3>3. Losers = {} /\ ~Last
        BY <1>5 DEF Losers, Loses, Last
      <3>4. k \in Sender'
        BY <3>2, <3>3, CleanSenders DEF Stays
      <3> QED BY <1>4, <1>5, <3>3, <3>4 DEF Next_field, NextField
    <2> QED BY <1>4, <2>3, <2>4, <2>5
  <1>6. CASE ~(field = "EOF_6" /\ frame = m)
    <2>1. got'[n][m] = got[n][m]
      BY <1>1, <1>6
    <2>2. ASSUME NEW k \in Node, InHand(k)', m = cur'[k], ~(field' = "EOF_7" /\ k \in Sender')
          PROVE  got[n][m] = 0
      <3>1. InHand(k) /\ cur[k] = m /\ k \notin Leave
        BY <2>2, CleanSenders
      <3>2. field = "EOF_7" => k \notin Sender
        BY <3>1 DEF Leave, Last
      <3> QED BY <1>3, <3>1, <3>2
    <2> QED BY <1>2, <1>4, <2>1, <2>2
  <1> QED BY <1>5, <1>6

\* While an attempt fails there are two messages that are not done: the loser's
\* and the one it lost to.
LEMMA TryKept ==
  ASSUME TypeInv, AgreeInv, CleanInv, field # "idle", CleanStep
  PROVE  TryInv'
  <1> SUFFICES ASSUME Cardinality(Msg) <= RetransmitMax + 1
               PROVE  /\ \A m \in failed' : m.src \in OneShot
                      /\ \A n \in Node : InHand(n)' =>
                           attempts'[n] <= Cardinality(done') + (IF Lost(n)' THEN 1 ELSE 0)
    BY DEF TryInv
  <1>1. /\ IsFiniteSet(done) /\ Cardinality(done) \in Nat
        /\ Cardinality(Msg) \in Nat /\ RetransmitMax \in Nat
    BY FS_Subset, FS_CardinalityType, MessagesKnown, ThresholdsOrdered DEF TypeInv, TypeOK
  <1>2. \A m \in failed : m.src \in OneShot
    BY DEF CleanInv, TryInv
  <1>3. \A n \in Node : InHand(n) => attempts[n] <= Cardinality(done) + (IF Lost(n) THEN 1 ELSE 0)
    BY DEF CleanInv, TryInv
  <1>4. \A n \in Node : attempts[n] \in Nat
    BY DEF TypeInv, TypeOK
  <1>5. ASSUME NEW n \in Losers, Exhausted(n) PROVE n \in OneShot
    <2>1. PICK k \in Sender : n \in Sender /\ Value(k, field) < Value(n, field)
      BY DEF Losers, Loses
    <2>2. k # n
      BY <2>1, SenderHas
    <2>3. cur[k] # cur[n] /\ {cur[k], cur[n]} \subseteq Msg \ done
      BY <2>1, <2>2, SenderHas DEF TypeInv, HandInv
    <2>4. Cardinality(done) <= Cardinality(Msg) - 2
      <3>1. IsFiniteSet(done \cup {cur[k]}) /\ Cardinality(done \cup {cur[k]}) = Cardinality(done) + 1
        BY <1>1, <2>3, FS_AddElement
      <3>2. Cardinality((done \cup {cur[k]}) \cup {cur[n]}) = Cardinality(done) + 2
        <4>1. cur[n] \notin done \cup {cur[k]}
          BY <2>3
        <4>2. Cardinality((done \cup {cur[k]}) \cup {cur[n]}) = Cardinality(done \cup {cur[k]}) + 1
          BY <3>1, <4>1, FS_AddElement
        <4> QED BY <1>1, <3>1, <4>2
      <3>3. (done \cup {cur[k]}) \cup {cur[n]} \in SUBSET Msg
        BY <2>3 DEF TypeInv, TypeOK
      <3>4. Cardinality((done \cup {cur[k]}) \cup {cur[n]}) <= Cardinality(Msg)
        BY <3>3, FS_Subset, MessagesKnown
      <3> QED BY <1>1, <3>2, <3>4
    <2>5. attempts[n] <= Cardinality(done)
      <3>1. ~Lost(n) /\ InHand(n) /\ n \in Node
        BY <2>1 DEF Lost, Sender, InHand
      <3> QED BY <1>1, <1>3, <1>4, <3>1
    <2>6. attempts[n] \in Nat
      BY <1>4, <2>1 DEF Sender
    <2>7. attempts[n] < RetransmitMax
      BY <1>1, <2>4, <2>5, <2>6
    <2> QED BY <1>1, <1>5, <2>6, <2>7 DEF Exhausted
  <1>6. \A n \in Dropped : cur[n].src \in OneShot
    <2>1. ASSUME NEW n \in Dropped PROVE cur[n].src = n /\ n \in Losers /\ Exhausted(n)
      BY SenderHas DEF Dropped, Losers
    <2> QED BY <1>5, <2>1
  <1>7. \A m \in failed' : m.src \in OneShot
    BY <1>2, <1>6 DEF CleanStep
  <1>8. ASSUME NEW n \in Node, InHand(n)'
        PROVE  attempts'[n] <= Cardinality(done') + (IF Lost(n)' THEN 1 ELSE 0)
    <2>1. InHand(n) /\ n \notin Leave
      BY <1>8, CleanSenders
    <2>2. field' = "idle" <=> Last
      BY CleanSenders
    <2>3. CASE ~Last /\ n \in Losers
      <3>1. attempts'[n] = attempts[n] + 1 /\ tx'[n] = "WAIT" /\ done' = done
        BY <2>1, <2>3 DEF CleanStep
      <3>2. ~Lost(n) /\ Lost(n)'
        BY <2>2, <2>3, <3>1 DEF Lost, Losers, Sender, Idle
      <3>3. attempts[n] <= Cardinality(done)
        BY <1>1, <1>3, <2>1, <3>2
      <3> QED BY <1>1, <1>4, <3>1, <3>2, <3>3
    <2>4. CASE ~Last /\ n \notin Losers
      <3>1. attempts'[n] = attempts[n] /\ tx'[n] = tx[n] /\ done' = done
        BY <2>1, <2>4 DEF CleanStep
      <3>2. Lost(n)' <=> Lost(n)
        BY <2>2, <2>4, <3>1 DEF Lost, Idle
      <3> QED BY <1>3, <2>1, <3>1, <3>2
    <2>5. CASE Last
      <3>1. Losers = {} /\ n \notin Sender
        BY <2>1, <2>5, CleanSenders DEF Leave
      <3>2. attempts'[n] = attempts[n] /\ tx'[n] = tx[n]
        BY <2>1, <3>1 DEF CleanStep
      <3>3. attempts[n] <= Cardinality(done) + 1
        BY <1>1, <1>3, <1>4, <2>1
      <3>4. PICK s \in Node : s \in Sender /\ Sender = {s}
        BY <2>5 DEF Last, AgreeInv, CleanInv, FrameInv, Idle, Decided, Sender
      <3>5. done' = done \cup {cur[s]} /\ cur[s] \notin done
        BY <2>5, <3>4, SenderHas DEF CleanStep, TypeInv, HandInv
      <3>6. Cardinality(done') = Cardinality(done) + 1
        BY <1>1, <3>5, FS_AddElement
      <3>7. ~Lost(n)'
        BY <2>2, <2>5 DEF Lost, Idle
      <3> QED BY <1>1, <1>4, <3>2, <3>3, <3>6, <3>7
    <2> QED BY <2>3, <2>4, <2>5
  <1> QED BY <1>7, <1>8

-----------------------------------------------------------------------------
LEMMA InitClean == Init => CleanInv
  <1> SUFFICES ASSUME Init PROVE CleanInv
    OBVIOUS
  <1>1. Calm /\ FrameInv
    BY DEF Init, Calm, FrameInv, Sender, Idle, Decided
  <1>2. GotInv
    BY DEF Init, GotInv
  <1>3. TryInv
    BY DEF Init, TryInv, InHand
  <1> QED BY <1>1, <1>2, <1>3 DEF CleanInv

LEMMA TxStartClean ==
  ASSUME TypeInv, AgreeInv, CleanInv, NEW n \in Node, NEW m \in Msg, TxStart(n, m)
  PROVE  CleanInv'
  <1>1. /\ Idle /\ tx[n] = "IDLE" /\ m \in pending
        /\ tx' = [tx EXCEPT ![n] = "WAIT"] /\ cur' = [cur EXCEPT ![n] = m]
        /\ attempts' = [attempts EXCEPT ![n] = 0] /\ pending' = pending \ {m}
        /\ UNCHANGED <<bus, rxVars, eml, frame, done, failed, got, weak, faults>>
    BY DEF TxStart, Idle
  <1>2. Calm'
    BY <1>1 DEF CleanInv, Calm, bus, rxVars, eml
  <1>3. FrameInv'
    BY <1>1 DEF CleanInv, FrameInv, Idle, Decided, bus, rxVars
  <1>4. GotInv'
    <2>1. ASSUME NEW k \in Node, NEW o \in Msg, NEW j \in Node, InHand(j)', o = cur'[j]
          PROVE  got[k][o] = 0
      <3>1. CASE j = n
        BY <1>1, <2>1, <3>1 DEF CleanInv, GotInv, TypeInv, TypeOK
      <3>2. CASE j # n
        BY <1>1, <2>1, <3>2 DEF CleanInv, GotInv, TypeInv, TypeOK, InHand, Idle
      <3> QED BY <3>1, <3>2
    <2> QED BY <1>1, <2>1 DEF CleanInv, GotInv
  <1>5. TryInv'
    <2>1. IsFiniteSet(done) /\ Cardinality(done) \in Nat
      BY FS_Subset, FS_CardinalityType, MessagesKnown DEF TypeInv, TypeOK
    <2>2. ASSUME NEW k \in Node, InHand(k)', Cardinality(Msg) <= RetransmitMax + 1
          PROVE  attempts'[k] <= Cardinality(done)
      <3>1. CASE k = n
        BY <1>1, <2>1, <3>1 DEF TypeInv, TypeOK
      <3>2. CASE k # n
        BY <1>1, <2>1, <2>2, <3>2 DEF CleanInv, TryInv, TypeInv, TypeOK, InHand, Lost
      <3> QED BY <3>1, <3>2
    <2>3. \A k \in Node : ~Lost(k)'
      BY <1>1 DEF Lost, Idle, bus
    <2> QED BY <1>1, <2>1, <2>2, <2>3 DEF CleanInv, TryInv
  <1> QED BY <1>2, <1>3, <1>4, <1>5 DEF CleanInv

LEMMA StartFrameClean ==
  ASSUME TypeInv, AgreeInv, CleanInv, StartFrame
  PROVE  CleanInv'
  <1>1. /\ Idle /\ field' = "SOF" /\ \E n \in Node : tx[n] = "WAIT"
        /\ tx' = [n \in Node |-> IF tx[n] = "WAIT" THEN "SEND" ELSE tx[n]]
        /\ rx' = [n \in Node |-> "RECV"]
        /\ UNCHANGED <<jam, cur, attempts, crcBad, won, eml, hist>>
    BY DEF StartFrame, Idle
  <1>2. \A n \in Node : InHand(n)' <=> InHand(n)
    BY StartFrameTypes
  <1>3. Calm'
    BY <1>1 DEF CleanInv, Calm, eml
  <1>4. FrameInv'
    BY <1>1 DEF FrameInv, Sender, Idle, Decided
  <1>5. GotInv'
    BY <1>1, <1>2 DEF CleanInv, GotInv, Idle, hist
  <1>6. TryInv'
    <2>1. \A n \in Node : ~Lost(n) /\ ~Lost(n)'
      BY <1>1 DEF Lost, Idle
    <2> QED BY <1>1, <1>2, <2>1 DEF CleanInv, TryInv, hist
  <1> QED BY <1>3, <1>4, <1>5, <1>6 DEF CleanInv

\* The first disturbance ends what CleanInv promises.
LEMMA NextClean ==
  Company /\ Unmixed =>
    (TypeInv /\ AgreeInv /\ (faults = 0 => CleanInv) /\ [Next]_vars => (faults' = 0 => CleanInv'))
  <1> SUFFICES ASSUME Company, Unmixed, TypeInv, AgreeInv, faults = 0 => CleanInv, [Next]_vars,
                      faults' = 0
               PROVE  CleanInv'
    OBVIOUS
  <1>1. ASSUME NEW n \in Node, NEW m \in Msg, TxStart(n, m) PROVE CleanInv'
    BY <1>1, TxStartClean DEF TxStart
  <1>2. CASE StartFrame
    BY <1>2, StartFrameClean DEF StartFrame, hist
  <1>3. ASSUME NEW D \in SUBSET Exposed, NEW G \in Garbled(D), Field(D, G) PROVE CleanInv'
    <2>1. faults = 0 /\ field # "idle"
      <3>1. faults' = faults + Cardinality(D) /\ Cardinality(D) \in Nat
        BY <1>3, FieldIsAdvance DEF TypeInv
      <3>2. faults \in Nat /\ field # "idle"
        BY <1>3, ThresholdsOrdered DEF Field, TypeInv, TypeOK
      <3> QED BY <3>1, <3>2
    <2>2. CleanInv /\ CleanStep
      BY <1>3, <2>1, FieldIsClean
    <2>3. Calm'
      BY <2>2 DEF CleanStep, Calm
    <2> QED BY <2>1, <2>2, <2>3, FrameKept, GotKept, TryKept DEF CleanInv
  <1>4. ASSUME NEW n \in Node, ElevenRecessive(n) PROVE FALSE
    <2>1. faults = 0 /\ tec[n] # 0
      BY <1>4, ThresholdsOrdered DEF ElevenRecessive, ErrorState, hist
    <2> QED BY <2>1 DEF CleanInv, Calm
  <1>5. CASE UNCHANGED vars
    BY <1>5 DEF vars, bus, txVars, rxVars, eml, hist, InHand, CleanInv, Calm, FrameInv, GotInv, TryInv,
                Sender, Idle, Decided, Lost
  <1> QED BY <1>1, <1>2, <1>3, <1>4, <1>5, MessagesKnown DEF Next

\* Arbitration is not an error: with somebody to acknowledge, different
\* identifiers and no standard frame that begins as an extended one, an
\* undisturbed bus counts no error, delivers nothing twice, and gives up no
\* message of a node that retransmits while there are as many retransmissions
\* as other messages (ST_RETRANSMIT of canola_frame_tx_fsm.vhd,
\* can_hlp_pkg.vhd:82).
THEOREM ArbitrationIsNoError == Company /\ DistinctIds /\ Unmixed => (Spec => []CleanBus)
  <1>1. CASE Company /\ DistinctIds /\ Unmixed
    <2>1. TypeInv /\ TypeInv' /\ BusInv /\ [Next]_vars => BusInv'
      BY <1>1, NextBus
    <2>2. TypeInv /\ BusInv /\ (faults = 0 => CleanInv) /\ [Next]_vars => (faults = 0 => CleanInv)'
      BY <1>1, NextClean DEF BusInv
    <2>3. Init => (faults = 0 => CleanInv)
      BY InitClean
    <2>4. (faults = 0 => CleanInv) => CleanBus
      BY DEF CleanInv, Calm, GotInv, TryInv, CleanBus
    <2> QED BY <2>1, <2>2, <2>3, <2>4, InitTypes, NextTypes, InitBus, PTL DEF Spec
  <1> QED BY <1>1
=============================================================================
