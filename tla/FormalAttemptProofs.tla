------------------------ MODULE FormalAttemptProofs ------------------------
(***************************************************************************)
(* What holds of the formal Attempts of a Session for any number of        *)
(* processes, correction bases, Epochs, stopped calls and clocks set back: *)
(* types, what is over before it is corrected, what closes a Session, and  *)
(* what may still start after that.                                        *)
(***************************************************************************)
EXTENDS FormalAttempt, SequenceTheorems, TLAPS

-----------------------------------------------------------------------------
(* Identities: sequences of bases and their prefixes                       *)

LEMMA PrefixIs ==
    ASSUME NEW S, NEW s \in Seq(S), NEW t \in Seq(S)
    PROVE  IsPrefix(s, t) <=> Len(s) <= Len(t) /\ \A k \in 1 .. Len(s) : s[k] = t[k]
<1>1. Len(s) \in Nat /\ Len(t) \in Nat
  OBVIOUS
<1>2. \A k \in 1 .. Len(s) : SubSeq(s, 1, Len(s))[k] = s[k]
  BY <1>1
<1>3. SubSeq(s, 1, Len(s)) \in Seq(S) /\ Len(SubSeq(s, 1, Len(s))) = Len(s)
  BY <1>1
<1>4. ASSUME Len(s) <= Len(t)
      PROVE  /\ SubSeq(t, 1, Len(s)) \in Seq(S) /\ Len(SubSeq(t, 1, Len(s))) = Len(s)
             /\ \A k \in 1 .. Len(s) : SubSeq(t, 1, Len(s))[k] = t[k]
  BY <1>1, <1>4
<1>5. ASSUME Len(s) <= Len(t), \A k \in 1 .. Len(s) : s[k] = t[k]
      PROVE  SubSeq(s, 1, Len(s)) = SubSeq(t, 1, Len(s))
  BY <1>2, <1>3, <1>4, <1>5, SeqEqual
<1>6. ASSUME Len(s) <= Len(t), SubSeq(s, 1, Len(s)) = SubSeq(t, 1, Len(s))
      PROVE  \A k \in 1 .. Len(s) : s[k] = t[k]
  BY <1>2, <1>4, <1>6
<1> QED BY <1>5, <1>6 DEF IsPrefix

LEMMA FrontIs ==
    ASSUME NEW S, NEW t \in Seq(S), t # <<>>
    PROVE  /\ Front(t) \in Seq(S) /\ Len(Front(t)) = Len(t) - 1 /\ Len(t) \in Nat \ {0}
           /\ \A k \in 1 .. Len(t) - 1 : Front(t)[k] = t[k]
<1>1. Len(t) \in Nat \ {0}
  OBVIOUS
<1> DEFINE n == Len(t) - 1
<1>2. n \in Int /\ 1 \in Int /\ \A k \in 1 .. n : t[k] \in S
  BY <1>1
<1>3. n >= 0
  BY <1>1
<1>4. /\ SubSeq(t, 1, n) \in Seq(S)
      /\ Len(SubSeq(t, 1, n)) = n
      /\ \A k \in 1 .. n : SubSeq(t, 1, n)[k] = t[k]
  <2> HIDE DEF n
  <2>1. SubSeq(t, 1, n) \in Seq(S)
    BY <1>2, SubSeqProperties
  <2>2. Len(SubSeq(t, 1, n)) = IF 1 <= n THEN n - 1 + 1 ELSE 0
    BY <1>2, SubSeqProperties
  <2>3. \A k \in 1 .. n - 1 + 1 : SubSeq(t, 1, n)[k] = t[1 + k - 1]
    BY <1>2, SubSeqProperties
  <2> QED BY <1>2, <1>3, <2>1, <2>2, <2>3
<1> QED BY <1>1, <1>4 DEF Front

\* What comes before an identity comes before its predecessor, or is that.
LEMMA BeforeFront ==
    ASSUME NEW S, NEW s \in Seq(S), NEW t \in Seq(S), t # <<>>
    PROVE  IsStrictPrefix(s, t) => s = Front(t) \/ IsStrictPrefix(s, Front(t))
<1> SUFFICES ASSUME IsStrictPrefix(s, t) PROVE s = Front(t) \/ IsStrictPrefix(s, Front(t))
  OBVIOUS
<1>1. Len(s) \in Nat /\ Len(t) \in Nat \ {0}
  OBVIOUS
<1>2. Len(s) <= Len(t) /\ (\A k \in 1 .. Len(s) : s[k] = t[k]) /\ s # t
  BY PrefixIs DEF IsStrictPrefix
<1>3. Len(s) # Len(t)
  BY <1>1, <1>2, SeqEqual
<1>4. Len(s) <= Len(t) - 1
  BY <1>1, <1>2, <1>3
<1>5. \A k \in 1 .. Len(s) : s[k] = Front(t)[k]
  BY <1>1, <1>2, <1>4, FrontIs
<1>6. IsPrefix(s, Front(t))
  BY <1>4, <1>5, FrontIs, PrefixIs
<1> QED BY <1>6 DEF IsStrictPrefix

LEMMA NoneBeforeFirst ==
    ASSUME NEW S, NEW s \in Seq(S) PROVE ~IsStrictPrefix(s, <<>>)
<1>1. <<>> \in Seq(S) /\ Len(<<>>) = 0 /\ Len(s) \in Nat
  OBVIOUS
<1>2. Len(s) <= 0 => s = <<>>
  BY <1>1
<1> QED BY <1>1, <1>2 DEF IsStrictPrefix, IsPrefix

LEMMA IdentityIs ==
    /\ First \in Identity
    /\ \A i \in Identity : i \in Seq(Basis) /\ Len(i) \in 0 .. MaxRetries
    /\ \A i \in Identity : i # First => Front(i) \in Identity /\ BasisOf(i) \in Basis
<1> USE BoundAssumption
<1>1. \A i \in Identity : i \in Seq(Basis) /\ Len(i) \in 0 .. MaxRetries
  <2> SUFFICES ASSUME NEW n \in 0 .. MaxRetries, NEW i \in [1 .. n -> Basis]
               PROVE  i \in Seq(Basis) /\ Len(i) = n
    BY DEF Identity
  <2>1. i \in Seq(Basis)
    BY SeqDef
  <2> QED BY <2>1
<1>2. \A n \in 0 .. MaxRetries : \A s \in Seq(Basis) : Len(s) = n => s \in Identity
  <2> SUFFICES ASSUME NEW s \in Seq(Basis), Len(s) \in 0 .. MaxRetries PROVE s \in Identity
    OBVIOUS
  <2>1. s \in [1 .. Len(s) -> Basis]
    OBVIOUS
  <2> QED BY <2>1 DEF Identity
<1>3. First \in Identity
  <2>1. <<>> \in Seq(Basis) /\ Len(<<>>) = 0 /\ 0 \in 0 .. MaxRetries
    OBVIOUS
  <2> QED BY <1>2, <2>1 DEF First
<1>4. \A i \in Identity : i # First => Front(i) \in Identity /\ BasisOf(i) \in Basis
  <2> SUFFICES ASSUME NEW i \in Identity, i # <<>> PROVE Front(i) \in Identity /\ i[Len(i)] \in Basis
    BY DEF First, BasisOf, Last
  <2>1. i \in Seq(Basis) /\ Len(i) \in 1 .. MaxRetries
    BY <1>1
  <2>2. Front(i) \in Seq(Basis) /\ Len(Front(i)) = Len(i) - 1
    BY <2>1, FrontIs
  <2>3. Len(Front(i)) \in 0 .. MaxRetries
    BY <2>1, <2>2
  <2> QED BY <1>2, <2>1, <2>2, <2>3
<1> QED BY <1>1, <1>3, <1>4

\* An element put into a sequence is in it once, with what was there.
LEMMA InsertAtIs ==
    ASSUME NEW S, NEW s \in Seq(S), NEW e \in S, e \notin Range(s), IsInjective(s),
           NEW at \in 1 .. Len(s) + 1
    PROVE  /\ InsertAt(s, at, e) \in Seq(S) /\ IsInjective(InsertAt(s, at, e))
           /\ Range(InsertAt(s, at, e)) = Range(s) \cup {e}
<1> DEFINE t == InsertAt(s, at, e)
           a == SubSeq(s, 1, at - 1)
           c == SubSeq(s, at, Len(s))
<1>1. Len(s) \in Nat /\ DOMAIN s = 1 .. Len(s) /\ at \in 1 .. Len(s) + 1
  OBVIOUS
<1>2. /\ a \in Seq(S) /\ Len(a) = at - 1
      /\ \A k \in 1 .. at - 1 : a[k] = s[k]
  BY <1>1
<1>3. /\ c \in Seq(S) /\ Len(c) = Len(s) - at + 1
      /\ \A k \in 1 .. Len(s) - at + 1 : c[k] = s[at + k - 1]
  BY <1>1
<1>t. t = (a \o <<e>>) \o c
  BY DEF InsertAt
<1> HIDE DEF t, a, c
<1>4. /\ a \o <<e>> \in Seq(S) /\ Len(a \o <<e>>) = at
      /\ \A k \in 1 .. at - 1 : (a \o <<e>>)[k] = s[k]
      /\ (a \o <<e>>)[at] = e
  <2>1. <<e>> \in Seq(S) /\ Len(<<e>>) = 1 /\ <<e>>[1] = e
    OBVIOUS
  <2>2. a \o <<e>> \in Seq(S) /\ Len(a \o <<e>>) = at
    BY <1>1, <1>2, <2>1, ConcatProperties
  <2>3. \A k \in 1 .. at : (a \o <<e>>)[k] = IF k <= at - 1 THEN a[k] ELSE <<e>>[k - (at - 1)]
    BY <1>1, <1>2, <2>1, ConcatProperties
  <2>4. (a \o <<e>>)[at] = <<e>>[1]
    <3>1. at \in 1 .. at /\ ~(at <= at - 1) /\ at - (at - 1) = 1
      BY <1>1
    <3>2. (a \o <<e>>)[at] = <<e>>[at - (at - 1)]
      BY <2>3, <3>1, Zenon
    <3> QED BY <3>1, <3>2
  <2>5. ASSUME NEW k \in 1 .. at - 1 PROVE (a \o <<e>>)[k] = a[k]
    <3>1. k \in 1 .. at /\ k <= at - 1
      BY <1>1
    <3> QED BY <2>3, <3>1, Zenon
  <2> QED BY <1>2, <2>1, <2>2, <2>4, <2>5
<1> DEFINE b == a \o <<e>>
<1> HIDE DEF b
<1>b. /\ b \in Seq(S) /\ Len(b) = at /\ (\A k \in 1 .. at - 1 : b[k] = s[k]) /\ b[at] = e
      /\ t = b \o c
  BY <1>4, <1>t DEF b
<1>5. t \in Seq(S) /\ Len(t) = Len(s) + 1 /\ DOMAIN t = 1 .. Len(s) + 1
  <2>1. b \o c \in Seq(S) /\ Len(b \o c) = Len(b) + Len(c)
    BY <1>b, <1>3, ConcatProperties
  <2>2. t \in Seq(S) /\ Len(t) = Len(s) + 1
    BY <1>1, <1>3, <1>b, <2>1
  <2> QED BY <2>2
<1>k. \A k \in 1 .. Len(s) + 1 : t[k] = IF k <= at THEN b[k] ELSE c[k - at]
  BY <1>1, <1>3, <1>b, ConcatProperties
<1>6. \A k \in 1 .. at - 1 : t[k] = s[k]
  BY <1>1, <1>k, <1>b
<1>7. t[at] = e
  BY <1>1, <1>k, <1>b
<1>8. \A k \in at + 1 .. Len(s) + 1 : t[k] = s[k - 1]
  <2> SUFFICES ASSUME NEW k \in at + 1 .. Len(s) + 1 PROVE t[k] = s[k - 1]
    OBVIOUS
  <2>1. k - at \in 1 .. Len(s) - at + 1 /\ at + (k - at) - 1 = k - 1
    BY <1>1
  <2>2. t[k] = c[k - at]
    BY <1>1, <1>k
  <2> QED BY <1>3, <2>1, <2>2
<1>9. \A k \in 1 .. Len(s) : s[k] # e
  BY <1>1 DEF Range
<1>10. \A k, m \in 1 .. Len(s) : s[k] = s[m] => k = m
  BY <1>1 DEF IsInjective
<1>11. IsInjective(t)
  <2> SUFFICES ASSUME NEW k \in 1 .. Len(s) + 1, NEW m \in 1 .. Len(s) + 1, t[k] = t[m]
               PROVE  k = m
    BY <1>5 DEF IsInjective
  <2>1. k \in 1 .. at - 1 \/ k = at \/ k \in at + 1 .. Len(s) + 1
    BY <1>1
  <2>2. m \in 1 .. at - 1 \/ m = at \/ m \in at + 1 .. Len(s) + 1
    BY <1>1
  <2> QED BY <1>1, <1>6, <1>7, <1>8, <1>9, <1>10, <2>1, <2>2
<1>12. \A x \in Range(t) : x \in Range(s) \cup {e}
  <2> SUFFICES ASSUME NEW k \in 1 .. Len(s) + 1 PROVE t[k] \in Range(s) \cup {e}
    BY <1>5 DEF Range
  <2>1. k \in 1 .. at - 1 \/ k = at \/ k \in at + 1 .. Len(s) + 1
    BY <1>1
  <2> QED BY <1>1, <1>6, <1>7, <1>8, <2>1 DEF Range
<1>13. \A x \in Range(s) \cup {e} : x \in Range(t)
  <2>1. e \in Range(t)
    BY <1>1, <1>5, <1>7 DEF Range
  <2>2. ASSUME NEW k \in 1 .. Len(s) PROVE s[k] \in Range(t)
    <3>1. k \in 1 .. at - 1 \/ k + 1 \in at + 1 .. Len(s) + 1
      BY <1>1
    <3>2. t[k] = s[k] \/ t[k + 1] = s[k]
      BY <1>1, <1>6, <1>8, <3>1
    <3> QED BY <1>1, <1>5, <3>2 DEF Range
  <2> QED BY <1>1, <2>1, <2>2 DEF Range
<1> QED BY <1>5, <1>11, <1>12, <1>13 DEF t
-----------------------------------------------------------------------------
(* The inductive invariant                                                 *)

CtrlState ==
    [pc : Steps, epoch : 0 .. MaxEpochs, basis : Basis \cup {NoBasis},
     attempt : Identity, head : Heads, result : Result, capture : 0 .. MaxEpochs]

CaptureRecords ==
    [attempt : DOMAIN attempt, result : Result, epoch : 1 .. MaxEpochs,
     accepted : BOOLEAN]

\* The journal: what it holds and how it lists it.
Journalled ==
    /\ DOMAIN attempt \subseteq Identity
    /\ attempt \in [DOMAIN attempt -> Records]
    /\ listed \in Seq(Identity)
    /\ IsInjective(listed) /\ Range(listed) = DOMAIN attempt

Stored ==
    /\ epoch \in 1 .. MaxEpochs /\ active \in BOOLEAN /\ asked \in BOOLEAN
    /\ session \in Heads
    /\ captures \subseteq CaptureRecords
    /\ faults \in 0 .. MaxFaults /\ setbacks \in 0 .. MaxSetbacks

Called == ctrl \in [Process -> CtrlState]

\* What an Attempt corrects is recorded and over.
Ancestors ==
    \A j \in DOMAIN attempt : \A i \in Identity :
        IsStrictPrefix(i, j) => i \in DOMAIN attempt /\ attempt[i].state = "STOPPED"

\* What the journal says of an effect that has not started or that succeeded.
Effects ==
    \A i \in DOMAIN attempt :
        /\ attempt[i].state = "PREPARED" => attempt[i].work = "none"
        /\ attempt[i].state = "SUCCEEDED" => attempt[i].work = "SUCCEEDED"

\* The steps at which the Attempt of the call is in the journal.
Holding ==
    {"control", "dispatch", "launch", "spawn", "settle", "reconcile", "record",
     "verify", "capture", "terminate"}

\* One of the captures is of this result of Attempt i, its deliverables accepted.
Accepted(kept, i, result, e) ==
    \E c \in kept : c.attempt = i /\ c.result = result /\ c.accepted /\ c.epoch = e

\* What a process whose state is r knows to be true of the journal, of the
\* captures and of the life of the Session.
Fits(r, journal, kept, life) ==
    /\ r.pc # "idle" => r.epoch # 0
    /\ r.pc \in Holding => r.attempt \in DOMAIN journal
    /\ r.pc \in {"capture", "terminate"} /\ r.result.state = "SUCCEEDED"
          => journal[r.attempt].state = "SUCCEEDED"
    /\ (/\ r.pc = "terminate" /\ r.head.life = "open"
        /\ r.result.state = "SUCCEEDED" /\ r.result.output = "declared")
          => Accepted(kept, r.attempt, r.result, r.capture)
    /\ r.head.life = "terminal" => life = "terminal"
    /\ r.pc = "spawn" =>
          /\ journal[r.attempt].work = "none"
          /\ journal[r.attempt].state \in {"ACTIVE", "UNKNOWN"}

Fitting == \A p \in Process : Fits(ctrl[p], attempt, captures, session.life)

\* An Attempt is started by the one process that made it active.
OneStarter ==
    \A p, q \in Process :
        p # q /\ ctrl[p].pc = "spawn" /\ ctrl[q].pc = "spawn"
            => ctrl[p].attempt # ctrl[q].attempt

\* The Attempt that closed the Session is in the journal.
Bound == session.life = "terminal" => session.bound.attempt \in DOMAIN attempt

IInv ==
    /\ Journalled /\ Stored /\ Called
    /\ Ancestors /\ Effects /\ Fitting /\ OneStarter
    /\ Bound /\ ClosedByTheResult

-----------------------------------------------------------------------------
(* What a change of one part leaves true of the others                     *)

\* What a process knows outlives a change of the rest that respects it.
LEMMA StillFits ==
    ASSUME NEW r, NEW journal, NEW kept, NEW life, NEW journal2, NEW kept2, NEW life2,
           Fits(r, journal, kept, life),
           kept \subseteq kept2, life = "terminal" => life2 = "terminal",
           DOMAIN journal \subseteq DOMAIN journal2,
           \A i \in DOMAIN journal :
               journal[i].state = "SUCCEEDED" => journal2[i].state = "SUCCEEDED",
           r.pc = "spawn" => /\ journal2[r.attempt].work = "none"
                             /\ journal2[r.attempt].state \in {"ACTIVE", "UNKNOWN"}
    PROVE  Fits(r, journal2, kept2, life2)
<1>1. Accepted(kept, r.attempt, r.result, r.capture) => Accepted(kept2, r.attempt, r.result, r.capture)
  BY DEF Accepted
<1>2. r.pc \in {"capture", "terminate"} => r.pc \in Holding
  BY DEF Holding
<1> QED BY <1>1, <1>2 DEF Fits

\* An Attempt that is recorded keeps what it had, or has settled what was open.
Onward(d, e) ==
    /\ e \in Records
    /\ d.state \in Settled => e.state = d.state
    /\ e.state = "PREPARED" => e.work = "none"
    /\ e.state = "SUCCEEDED" => e.work = "SUCCEEDED"

LEMMA JournalMoves ==
    ASSUME IInv, NEW i \in DOMAIN attempt, NEW e, Onward(attempt[i], e),
           attempt' = [attempt EXCEPT ![i] = e], listed' = listed, UNCHANGED storeVars
    PROVE  /\ Journalled' /\ Ancestors' /\ Effects' /\ Bound' /\ ClosedByTheResult'
           /\ captures' \subseteq CaptureRecords'
           /\ DOMAIN attempt' = DOMAIN attempt /\ attempt'[i] = e
           /\ \A j \in DOMAIN attempt \ {i} : attempt'[j] = attempt[j]
           /\ \A j \in DOMAIN attempt :
                 attempt[j].state \in Settled => attempt'[j].state = attempt[j].state
<1> USE DEF IInv, Onward
<1>1. /\ DOMAIN attempt' = DOMAIN attempt /\ attempt'[i] = e
      /\ \A j \in DOMAIN attempt \ {i} : attempt'[j] = attempt[j]
  BY DEF Journalled
<1>2. attempt' \in [DOMAIN attempt -> Records]
  BY DEF Journalled
<1>3. Journalled'
  BY <1>1, <1>2 DEF Journalled
<1>4. \A j \in DOMAIN attempt :
         attempt[j].state \in Settled => attempt'[j].state = attempt[j].state
  BY <1>1
<1>5. Ancestors'
  BY <1>1, <1>4 DEF Ancestors, Settled
<1>6. Effects'
  BY <1>1 DEF Effects
<1>7. Bound' /\ captures' \subseteq CaptureRecords'
  BY <1>1 DEF Bound, storeVars, Stored, CaptureRecords
<1>8. ClosedByTheResult'
  <2> SUFFICES ASSUME session.life = "terminal"
               PROVE  /\ attempt'[session.bound.attempt].state = "SUCCEEDED"
                      /\ attempt'[session.bound.attempt].work = "SUCCEEDED"
    BY DEF ClosedByTheResult, storeVars
  <2>1. session.bound.attempt \in DOMAIN attempt /\ attempt[session.bound.attempt].state = "SUCCEEDED"
    BY DEF Bound, ClosedByTheResult
  <2>2. attempt'[session.bound.attempt].state = "SUCCEEDED"
    BY <1>4, <2>1 DEF Settled
  <2> QED BY <1>1, <1>6, <2>1, <2>2 DEF Effects
<1> QED BY <1>1, <1>3, <1>4, <1>5, <1>6, <1>7, <1>8

LEMMA ProcessMoves ==
    ASSUME Called, NEW p \in Process, NEW r \in CtrlState, ctrl' = [ctrl EXCEPT ![p] = r]
    PROVE  Called' /\ ctrl'[p] = r /\ \A q \in Process \ {p} : ctrl'[q] = ctrl[q]
BY DEF Called

\* A step of process p to r that changes at most the record of its Attempt.
LEMMA RecordKeeps ==
    ASSUME IInv, NEW p \in Process, NEW r \in CtrlState, ctrl' = [ctrl EXCEPT ![p] = r],
           NEW i \in DOMAIN attempt, NEW e, Onward(attempt[i], e),
           attempt' = [attempt EXCEPT ![i] = e],
           UNCHANGED <<storeVars, listed, setbacks, faults>>,
           Fits(r, attempt', captures, session.life),
           r.pc = "spawn" => r.attempt = i /\ attempt[i].state = "PREPARED",
           \A q \in Process \ {p} : ctrl[q].pc = "spawn" /\ ctrl[q].attempt = i =>
               e.work = "none" /\ e.state \in {"ACTIVE", "UNKNOWN"}
    PROVE  IInv'
<1> USE DEF IInv
<1>1. Called' /\ ctrl'[p] = r /\ \A q \in Process \ {p} : ctrl'[q] = ctrl[q]
  BY ProcessMoves
<1>2. /\ Journalled' /\ Ancestors' /\ Effects' /\ Bound' /\ ClosedByTheResult'
      /\ captures' \subseteq CaptureRecords'
      /\ DOMAIN attempt' = DOMAIN attempt /\ attempt'[i] = e
      /\ \A j \in DOMAIN attempt \ {i} : attempt'[j] = attempt[j]
      /\ \A j \in DOMAIN attempt :
            attempt[j].state \in Settled => attempt'[j].state = attempt[j].state
  BY JournalMoves
<1>3. Stored'
  BY <1>2 DEF Stored, storeVars
<1>4. Fitting'
  <2> SUFFICES ASSUME NEW q \in Process PROVE Fits(ctrl'[q], attempt', captures, session.life)
    BY DEF Fitting, storeVars
  <2>1. CASE q = p
    BY <1>1, <2>1
  <2>2. CASE q # p
    <3>1. Fits(ctrl[q], attempt, captures, session.life) /\ ctrl'[q] = ctrl[q]
      BY <1>1, <2>2 DEF Fitting
    <3>2. ctrl[q].pc = "spawn" => /\ ctrl[q].attempt \in DOMAIN attempt
                                  /\ attempt[ctrl[q].attempt].work = "none"
                                  /\ attempt[ctrl[q].attempt].state \in {"ACTIVE", "UNKNOWN"}
      BY <3>1 DEF Fits, Holding
    <3>3. ctrl[q].pc = "spawn" => /\ attempt'[ctrl[q].attempt].work = "none"
                                  /\ attempt'[ctrl[q].attempt].state \in {"ACTIVE", "UNKNOWN"}
      BY <1>2, <2>2, <3>2
    <3>4. \A j \in DOMAIN attempt :
             attempt[j].state = "SUCCEEDED" => attempt'[j].state = "SUCCEEDED"
      BY <1>2 DEF Settled
    <3>5. DOMAIN attempt \subseteq DOMAIN attempt' /\ captures \subseteq captures
      BY <1>2
    <3>6. Fits(ctrl[q], attempt', captures, session.life)
      BY <3>1, <3>3, <3>4, <3>5, StillFits
    <3> QED BY <3>1, <3>6
  <2> QED BY <2>1, <2>2
<1>5. OneStarter'
  <2>1. \A q \in Process : ctrl[q].pc = "spawn" => attempt[ctrl[q].attempt].state # "PREPARED"
    BY DEF Fitting, Fits
  <2> QED BY <1>1, <2>1 DEF OneStarter
<1> QED BY <1>1, <1>2, <1>3, <1>4, <1>5

\* A step of process p to r that leaves the journal alone.
LEMMA MoveKeeps ==
    ASSUME IInv, NEW p \in Process, NEW r \in CtrlState, ctrl' = [ctrl EXCEPT ![p] = r],
           UNCHANGED journalVars, Stored', captures \subseteq captures',
           session' = session \/ session.life # "terminal",
           Bound', ClosedByTheResult',
           Fits(r, attempt, captures', session'.life), r.pc # "spawn"
    PROVE  IInv'
<1> USE DEF IInv
<1>1. Called' /\ ctrl'[p] = r /\ \A q \in Process \ {p} : ctrl'[q] = ctrl[q]
  BY ProcessMoves
<1>2. Journalled' /\ Ancestors' /\ Effects' /\ attempt' = attempt
  BY DEF Journalled, Ancestors, Effects, journalVars
<1>3. Fitting'
  <2> SUFFICES ASSUME NEW q \in Process PROVE Fits(ctrl'[q], attempt, captures', session'.life)
    BY <1>2 DEF Fitting
  <2>1. CASE q = p
    BY <1>1, <2>1
  <2>2. CASE q # p
    <3>1. Fits(ctrl[q], attempt, captures, session.life) /\ ctrl'[q] = ctrl[q]
      BY <1>1, <2>2 DEF Fitting
    <3>2. ctrl[q].pc = "spawn" => /\ attempt[ctrl[q].attempt].work = "none"
                                  /\ attempt[ctrl[q].attempt].state \in {"ACTIVE", "UNKNOWN"}
      BY <3>1 DEF Fits
    <3> QED BY <3>1, <3>2, StillFits
  <2> QED BY <2>1, <2>2
<1>4. OneStarter'
  BY <1>1 DEF OneStarter
<1> QED BY <1>1, <1>2, <1>3, <1>4

\* A step of process p to r and of nothing else.
LEMMA QuietKeeps ==
    ASSUME IInv, NEW p \in Process, NEW r \in CtrlState, ctrl' = [ctrl EXCEPT ![p] = r],
           UNCHANGED <<storeVars, journalVars>>, faults' \in 0 .. MaxFaults,
           Fits(r, attempt, captures, session.life), r.pc # "spawn"
    PROVE  IInv'
<1> USE DEF IInv
<1>1. Stored' /\ Bound' /\ ClosedByTheResult'
  BY DEF Stored, Bound, ClosedByTheResult, CaptureRecords, storeVars, journalVars
<1> QED BY <1>1, MoveKeeps DEF storeVars

-----------------------------------------------------------------------------
(* The actions, one lemma each                                             *)

LEMMA SmallTypes ==
    /\ NoBinding \in Bindings /\ NoResult \in Result
    /\ Idle \in CtrlState /\ Idle.pc = "idle" /\ Idle.head.life = "none"
    /\ Idle.result.state = "PREPARED"
<1> USE BoundAssumption
<1>1. NoResult \in Result
  BY DEF NoResult, Result, States, Outputs
<1>2. NoBinding \in Bindings
  <2>1. 0 \in 0 .. MaxEpochs /\ First \in Identity
    BY IdentityIs
  <2> QED BY <1>1, <2>1 DEF NoBinding, Bindings
<1>3. [life |-> "none", bound |-> NoBinding] \in Heads
  BY <1>2 DEF Heads
<1>4. "idle" \in Steps /\ 0 \in 0 .. MaxEpochs /\ First \in Identity
  BY IdentityIs DEF Steps
<1> QED BY <1>1, <1>2, <1>3, <1>4 DEF Idle, CtrlState, NoResult

LEMMA InitIInv == Init => IInv
<1> SUFFICES ASSUME Init PROVE IInv
  OBVIOUS
<1> USE BoundAssumption, SmallTypes DEF Init
<1>1. DOMAIN attempt = {} /\ DOMAIN listed = {}
  OBVIOUS
<1>2. Journalled
  <2>1. listed \in Seq(Identity) /\ attempt \in [DOMAIN attempt -> Records]
    BY <1>1
  <2> QED BY <1>1, <2>1 DEF Journalled, IsInjective, Range
<1>3. Stored
  BY DEF Stored, Heads
<1>4. Called /\ \A p \in Process : ctrl[p] = Idle
  BY DEF Called
<1>5. Ancestors /\ Effects
  BY <1>1 DEF Ancestors, Effects
<1>6. Fitting /\ OneStarter
  BY <1>4 DEF Fitting, OneStarter, Fits, Holding
<1> QED BY <1>2, <1>3, <1>4, <1>5, <1>6 DEF IInv, Bound, ClosedByTheResult

\* A step that only moves the call on, with what it has read.
LEMMA GotoKeeps ==
    ASSUME IInv, NEW p \in Process, NEW pc \in Steps \ {"spawn", "capture", "terminate"},
           ctrl[p].pc # "idle", pc \in Holding => ctrl[p].attempt \in DOMAIN attempt,
           Goto(p, pc), UNCHANGED <<storeVars, journalVars, faults>>
    PROVE  IInv'
<1> DEFINE r == [ctrl[p] EXCEPT !.pc = pc]
<1>1. ctrl[p] \in CtrlState /\ Fits(ctrl[p], attempt, captures, session.life)
  BY DEF IInv, Called, Fitting
<1>2. r \in CtrlState /\ r.pc = pc /\ r.epoch = ctrl[p].epoch /\ r.head = ctrl[p].head
      /\ r.attempt = ctrl[p].attempt
  BY <1>1 DEF CtrlState
<1>3. ctrl' = [ctrl EXCEPT ![p] = r]
  BY DEF Goto
<1>4. faults' \in 0 .. MaxFaults
  BY DEF IInv, Stored
<1> HIDE DEF r
<1>5. Fits(r, attempt, captures, session.life)
  BY <1>1, <1>2 DEF Fits
<1> QED BY <1>2, <1>3, <1>4, <1>5, QuietKeeps

\* A call that returns or raises.
LEMMA LeaveKeeps ==
    ASSUME IInv, NEW p \in Process, Leave(p), UNCHANGED <<storeVars, journalVars>>,
           faults' \in 0 .. MaxFaults
    PROVE  IInv'
<1>1. Fits(Idle, attempt, captures, session.life)
  BY SmallTypes DEF Fits, Holding
<1> QED BY <1>1, SmallTypes, QuietKeeps DEF Leave

\* A call that takes an Attempt up and forgets the rest.
LEMMA TakeUpIs ==
    ASSUME IInv, NEW p \in Process, ctrl[p].pc # "idle", NEW i \in Identity, NEW pc \in Steps,
           pc \notin {"idle", "spawn", "capture", "terminate"},
           pc \in Holding => i \in DOMAIN attempt, TakeUp(p, i, pc), NEW life
    PROVE  \E r \in CtrlState :
              /\ ctrl' = [ctrl EXCEPT ![p] = r] /\ r.pc = pc
              /\ Fits(r, attempt, captures, life)
<1> DEFINE r == [Idle EXCEPT !.pc = pc, !.epoch = ctrl[p].epoch, !.attempt = i]
<1>1. ctrl[p] \in CtrlState /\ Fits(ctrl[p], attempt, captures, session.life)
  BY DEF IInv, Called, Fitting
<1>2. r \in CtrlState /\ r.pc = pc /\ r.epoch = ctrl[p].epoch /\ r.head = Idle.head
      /\ r.attempt = i
  BY <1>1, SmallTypes DEF CtrlState
<1>3. ctrl' = [ctrl EXCEPT ![p] = r]
  BY DEF TakeUp
<1> HIDE DEF r
<1>4. Fits(r, attempt, captures, life)
  BY <1>1, <1>2, SmallTypes DEF Fits
<1> QED BY <1>2, <1>3, <1>4

LEMMA TakeUpKeeps ==
    ASSUME IInv, NEW p \in Process, ctrl[p].pc # "idle", NEW i \in Identity, NEW pc \in Steps,
           pc \notin {"idle", "spawn", "capture", "terminate"},
           pc \in Holding => i \in DOMAIN attempt, TakeUp(p, i, pc),
           UNCHANGED <<storeVars, journalVars, faults>>
    PROVE  IInv'
<1>1. PICK r \in CtrlState : /\ ctrl' = [ctrl EXCEPT ![p] = r] /\ r.pc = pc
                             /\ Fits(r, attempt, captures, session.life)
  BY TakeUpIs
<1>2. faults' \in 0 .. MaxFaults
  BY DEF IInv, Stored
<1> QED BY <1>1, <1>2, QuietKeeps

\* What is known of the process that takes a step.
LEMMA AtStep ==
    ASSUME IInv, NEW p \in Process
    PROVE  /\ ctrl[p] \in CtrlState /\ Fits(ctrl[p], attempt, captures, session.life)
           /\ ctrl[p].attempt \in Identity
           /\ ctrl[p].pc # "idle" => ctrl[p].epoch \in 1 .. MaxEpochs
           /\ ctrl[p].pc \in Holding => /\ ctrl[p].attempt \in DOMAIN attempt
                                        /\ attempt[ctrl[p].attempt] \in Records
           /\ faults \in 0 .. MaxFaults
<1>1. ctrl[p] \in CtrlState /\ Fits(ctrl[p], attempt, captures, session.life) /\ faults \in 0 .. MaxFaults
  BY DEF IInv, Called, Fitting, Stored
<1>2. ctrl[p].pc # "idle" => ctrl[p].epoch \in 1 .. MaxEpochs
  BY <1>1, BoundAssumption DEF Fits, CtrlState
<1>3. ctrl[p].pc \in Holding => /\ ctrl[p].attempt \in DOMAIN attempt
                                /\ attempt[ctrl[p].attempt] \in Records
  BY <1>1 DEF Fits, IInv, Journalled
<1> QED BY <1>1, <1>2, <1>3 DEF CtrlState

LEMMA EpochKeeps == ASSUME IInv, EndEpoch \/ BeginEpoch \/ Withdraw PROVE IInv'
<1> USE BoundAssumption DEF IInv
<1>1. UNCHANGED <<session, captures, journalVars, ctrl, faults>>
  BY DEF EndEpoch, BeginEpoch, Withdraw
<1>2. Stored'
  <2>1. epoch' \in 1 .. MaxEpochs
    BY DEF EndEpoch, BeginEpoch, Withdraw, Stored
  <2>2. active' \in BOOLEAN /\ asked' \in BOOLEAN
    BY DEF EndEpoch, BeginEpoch, Withdraw, Stored
  <2>3. CaptureRecords' = CaptureRecords
    BY <1>1 DEF CaptureRecords, journalVars
  <2> QED BY <1>1, <2>1, <2>2, <2>3 DEF Stored, journalVars
<1>3. Journalled' /\ Called' /\ Ancestors' /\ Effects' /\ OneStarter' /\ Bound'
  BY <1>1 DEF journalVars, Journalled, Called, Ancestors, Effects, OneStarter, Bound
<1>4. Fitting' /\ ClosedByTheResult'
  BY <1>1 DEF journalVars, Fitting, ClosedByTheResult
<1> QED BY <1>2, <1>3, <1>4

LEMMA WorkEndsKeeps == ASSUME IInv, NEW i \in DOMAIN attempt, WorkEnds(i) PROVE IInv'
<1> USE DEF IInv
<1>1. PICK end \in Settled \cup {"lost"}, output \in Outputs :
         attempt' = [attempt EXCEPT ![i].work = end, ![i].output = output]
  BY DEF WorkEnds
<1> DEFINE e == [attempt[i] EXCEPT !.work = end, !.output = output]
<1>2. attempt[i] \in Records /\ attempt[i].work = "live"
  BY DEF Journalled, WorkEnds
<1>3. e \in Records /\ e.state = attempt[i].state
  BY <1>2 DEF Records, Settled
<1>4. attempt[i].state \notin {"PREPARED", "SUCCEEDED"}
  BY <1>2 DEF Effects
<1>5. Onward(attempt[i], e)
  BY <1>3, <1>4 DEF Onward
<1>6. attempt' = [attempt EXCEPT ![i] = e]
  BY <1>1
<1>7. UNCHANGED <<storeVars, listed, setbacks, ctrl, faults>>
  BY DEF WorkEnds
<1> HIDE DEF e
<1>8. /\ Journalled' /\ Ancestors' /\ Effects' /\ Bound' /\ ClosedByTheResult'
      /\ captures' \subseteq CaptureRecords'
      /\ DOMAIN attempt' = DOMAIN attempt /\ attempt'[i] = e
      /\ \A j \in DOMAIN attempt \ {i} : attempt'[j] = attempt[j]
      /\ \A j \in DOMAIN attempt :
            attempt[j].state \in Settled => attempt'[j].state = attempt[j].state
  BY <1>5, <1>6, <1>7, JournalMoves
<1>9. Stored' /\ Called' /\ OneStarter'
  BY <1>7, <1>8 DEF Stored, storeVars, Called, OneStarter
<1>10. Fitting'
  <2> SUFFICES ASSUME NEW q \in Process PROVE Fits(ctrl[q], attempt', captures, session.life)
    BY <1>7 DEF Fitting, storeVars
  <2>1. Fits(ctrl[q], attempt, captures, session.life)
    BY DEF Fitting
  <2>2. ctrl[q].pc = "spawn" => /\ ctrl[q].attempt \in DOMAIN attempt \ {i}
                                /\ attempt[ctrl[q].attempt].work = "none"
                                /\ attempt[ctrl[q].attempt].state \in {"ACTIVE", "UNKNOWN"}
    BY <1>2, <2>1 DEF Fits, Holding
  <2>3. ctrl[q].pc = "spawn" => /\ attempt'[ctrl[q].attempt].work = "none"
                                /\ attempt'[ctrl[q].attempt].state \in {"ACTIVE", "UNKNOWN"}
    BY <1>8, <2>2
  <2>4. DOMAIN attempt \subseteq DOMAIN attempt' /\ captures \subseteq captures
        /\ \A j \in DOMAIN attempt :
              attempt[j].state = "SUCCEEDED" => attempt'[j].state = "SUCCEEDED"
    BY <1>8 DEF Settled
  <2> QED BY <2>1, <2>3, <2>4, StillFits
<1> QED BY <1>8, <1>9, <1>10

LEMMA StopKeeps == ASSUME IInv, NEW p \in Process, Stop(p) PROVE IInv'
<1>1. faults' \in 0 .. MaxFaults
  BY BoundAssumption DEF Stop, IInv, Stored
<1> QED BY <1>1, LeaveKeeps DEF Stop

LEMMA CallKeeps ==
    ASSUME IInv, NEW p \in Process, NEW b \in Basis \cup {NoBasis}, Call(p, b) PROVE IInv'
<1> DEFINE r == [Idle EXCEPT !.pc = "create", !.epoch = epoch, !.basis = b]
<1>1. epoch \in 1 .. MaxEpochs /\ faults \in 0 .. MaxFaults
  BY DEF IInv, Stored
<1>2. r \in CtrlState /\ r.pc = "create" /\ r.epoch = epoch /\ r.head = Idle.head
  <2>1. epoch \in 0 .. MaxEpochs /\ "create" \in Steps
    BY <1>1, BoundAssumption DEF Steps
  <2> QED BY <2>1, SmallTypes DEF CtrlState
<1>3. ctrl' = [ctrl EXCEPT ![p] = r] /\ UNCHANGED <<storeVars, journalVars, faults>>
  BY DEF Call
<1> HIDE DEF r
<1>4. Fits(r, attempt, captures, session.life)
  BY <1>1, <1>2, SmallTypes DEF Fits, Holding
<1> QED BY <1>1, <1>2, <1>3, <1>4, QuietKeeps

LEMMA CreateKeeps == ASSUME IInv, NEW p \in Process, Create(p) PROVE IInv'
<1> USE DEF Create
<1> DEFINE new == session.life = "none"
           allowed == Authorized(p) /\ (new => asked)
<1>1. /\ session' = IF allowed /\ new THEN [session EXCEPT !.life = "open"] ELSE session
      /\ GoOnIf(p, allowed, "read")
      /\ UNCHANGED <<epoch, active, asked, captures, journalVars, faults>>
  OBVIOUS
<1> HIDE DEF Create, allowed
<1>2. ctrl[p].pc = "create" /\ faults \in 0 .. MaxFaults
  BY AtStep DEF Create
<1>3. CASE ~(allowed /\ new)
  <2>1. UNCHANGED <<storeVars, journalVars, faults>>
    BY <1>1, <1>3 DEF storeVars
  <2>2. CASE allowed
    <3>1. Goto(p, "read") /\ "read" \in Steps \ {"spawn", "capture", "terminate"} /\ "read" \notin Holding
      BY <1>1, <2>2 DEF GoOnIf, Steps, Holding
    <3> QED BY <1>2, <2>1, <3>1, GotoKeeps
  <2>3. CASE ~allowed
    BY <1>1, <1>2, <2>1, <2>3, LeaveKeeps DEF GoOnIf
  <2> QED BY <2>2, <2>3
<1>4. CASE allowed /\ new
  <2> DEFINE r == [ctrl[p] EXCEPT !.pc = "read"]
  <2>1. ctrl' = [ctrl EXCEPT ![p] = r]
    BY <1>1, <1>4 DEF GoOnIf, Goto
  <2>2. ctrl[p] \in CtrlState /\ Fits(ctrl[p], attempt, captures, session.life) /\ "read" \in Steps
    BY AtStep DEF Steps
  <2>3. r \in CtrlState /\ r.pc = "read" /\ r.epoch = ctrl[p].epoch /\ r.head = ctrl[p].head
    BY <2>2 DEF CtrlState
  <2> HIDE DEF r
  <2>4. session \in Heads /\ session' = [session EXCEPT !.life = "open"]
    BY <1>1, <1>4 DEF IInv, Stored
  <2>5. session' \in Heads /\ session'.life = "open" /\ session.life = "none"
    BY <1>4, <2>4 DEF Heads
  <2>6. Fits(r, attempt, captures, session'.life)
    BY <1>2, <2>2, <2>3, <2>5 DEF Fits, Holding
  <2>7. Stored' /\ Bound' /\ ClosedByTheResult' /\ captures' = captures
    BY <1>1, <2>5 DEF IInv, Stored, Bound, ClosedByTheResult, CaptureRecords, journalVars
  <2> QED BY <1>1, <2>1, <2>3, <2>5, <2>6, <2>7, MoveKeeps
<1> QED BY <1>3, <1>4

LEMMA ReadKeeps == ASSUME IInv, NEW p \in Process, Read(p) PROVE IInv'
<1>1. /\ ctrl[p].pc = "read" /\ UNCHANGED <<storeVars, journalVars, faults>> /\ faults' \in 0 .. MaxFaults
      /\ session \in Heads
  BY DEF Read, IInv, Stored
<1>2. CASE session.life = "terminal" /\ BasisOf(session.bound.attempt) = ctrl[p].basis
  <2>1. TakeUp(p, session.bound.attempt, "settle")
    BY <1>2 DEF Read
  <2>2. session.bound.attempt \in DOMAIN attempt /\ session.bound.attempt \in Identity
    BY <1>1, <1>2 DEF IInv, Bound, Heads, Bindings
  <2>3. "settle" \in Steps
    BY DEF Steps
  <2> QED BY <1>1, <2>1, <2>2, <2>3, TakeUpKeeps
<1>3. CASE session.life = "terminal" /\ BasisOf(session.bound.attempt) # ctrl[p].basis
  BY <1>1, <1>3, LeaveKeeps DEF Read
<1>4. CASE session.life # "terminal"
  <2>1. Goto(p, "select") /\ "select" \in Steps /\ "select" \notin Holding
    BY <1>4 DEF Read, Steps, Holding
  <2> QED BY <1>1, <2>1, GotoKeeps
<1> QED BY <1>2, <1>3, <1>4

LEMMA SelectKeeps == ASSUME IInv, NEW p \in Process, Select(p) PROVE IInv'
<1>1. /\ ctrl[p].pc = "select" /\ UNCHANGED <<storeVars, journalVars, faults>> /\ faults' \in 0 .. MaxFaults
  BY DEF Select, IInv, Stored
<1> DEFINE i == Lineage(ctrl[p].basis)
<1>2. (i \in Identity /\ TakeUp(p, i, "prepare")) \/ Leave(p)
  BY DEF Select
<1> HIDE DEF i
<1>3. CASE i \in Identity /\ TakeUp(p, i, "prepare")
  <2>1. "prepare" \in Steps /\ "prepare" \notin Holding
    BY DEF Steps, Holding
  <2> QED BY <1>1, <1>3, <2>1, TakeUpKeeps
<1>4. CASE Leave(p)
  BY <1>1, <1>4, LeaveKeeps
<1> QED BY <1>2, <1>3, <1>4

\* The checks of authority, which change nothing.
LEMMA CheckKeeps == ASSUME IInv, NEW p \in Process, Prepare(p) \/ Dispatch(p) PROVE IInv'
<1>1. /\ ctrl[p].pc \in {"prepare", "dispatch"} /\ UNCHANGED <<storeVars, journalVars, faults>>
      /\ faults' \in 0 .. MaxFaults
  BY DEF Prepare, Dispatch, IInv, Stored
<1>2. CASE Leave(p)
  BY <1>1, <1>2, LeaveKeeps
<1>3. CASE Prepare(p) /\ Goto(p, "insert")
  <2>1. "insert" \in Steps /\ "insert" \notin Holding
    BY DEF Steps, Holding
  <2> QED BY <1>1, <1>3, <2>1, GotoKeeps
<1>4. CASE Dispatch(p) /\ Goto(p, "launch")
  <2>1. "launch" \in Steps /\ ctrl[p].attempt \in DOMAIN attempt
    BY <1>4, AtStep DEF Steps, Holding, Dispatch
  <2> QED BY <1>1, <1>4, <2>1, GotoKeeps
<1> QED BY <1>2, <1>3, <1>4 DEF Prepare, Dispatch, GoOnIf

\* A new Attempt: what it corrects is over, and nothing corrects it yet.
LEMMA InsertedIs ==
    ASSUME IInv, NEW i \in Identity, i \notin DOMAIN attempt, MayFollow(i), NEW e \in Records,
           e.state = "PREPARED", e.work = "none", NEW at \in 1 .. Len(listed) + 1,
           attempt' = [j \in DOMAIN attempt \cup {i} |-> IF j = i THEN e ELSE attempt[j]],
           listed' = InsertAt(listed, at, i)
    PROVE  Journalled' /\ Ancestors' /\ Effects'
<1> USE DEF IInv
<1>1. /\ DOMAIN attempt' = DOMAIN attempt \cup {i} /\ attempt'[i] = e
      /\ \A j \in DOMAIN attempt : attempt'[j] = attempt[j]
  OBVIOUS
<1>2. Journalled'
  <2>1. /\ listed' \in Seq(Identity) /\ IsInjective(listed')
        /\ Range(listed') = Range(listed) \cup {i}
    BY InsertAtIs DEF Journalled
  <2>2. attempt' \in [DOMAIN attempt' -> Records]
    BY <1>1 DEF Journalled
  <2> QED BY <1>1, <2>1, <2>2 DEF Journalled
<1>3. Ancestors'
  <2> SUFFICES ASSUME NEW j \in DOMAIN attempt \cup {i}, NEW k \in Identity, IsStrictPrefix(k, j)
               PROVE  k \in DOMAIN attempt /\ attempt[k].state = "STOPPED"
    BY <1>1 DEF Ancestors
  <2>1. CASE j # i
    BY <2>1 DEF Ancestors
  <2>2. CASE j = i
    <3>1. i \in Seq(Basis) /\ k \in Seq(Basis)
      BY IdentityIs
    <3>2. i # First
      BY <2>2, <3>1, NoneBeforeFirst DEF First
    <3>3. Front(i) \in DOMAIN attempt /\ attempt[Front(i)].state = "STOPPED"
      BY <3>2 DEF MayFollow, Recorded
    <3>4. k = Front(i) \/ IsStrictPrefix(k, Front(i))
      BY <2>2, <3>1, <3>2, BeforeFront DEF First
    <3> QED BY <3>3, <3>4 DEF Ancestors
  <2> QED BY <2>1, <2>2
<1>4. Effects'
  BY <1>1 DEF Effects
<1> QED BY <1>2, <1>3, <1>4

LEMMA InsertKeeps == ASSUME IInv, NEW p \in Process, Insert(p) PROVE IInv'
<1> DEFINE i == ctrl[p].attempt
<1>1. /\ ctrl[p].pc = "insert" /\ UNCHANGED <<storeVars, faults>>
      /\ GoOnIf(p, MayFollow(i) /\ (Recorded(i) => SameIntent(p)), "control")
      /\ i \in Identity /\ ctrl[p].epoch \in 1 .. MaxEpochs /\ faults \in 0 .. MaxFaults
  BY AtStep DEF Insert
<1>2. ASSUME ~(MayFollow(i) /\ ~Recorded(i)) PROVE IInv'
  <2>1. UNCHANGED journalVars
    BY <1>2 DEF Insert
  <2>2. CASE MayFollow(i) /\ (Recorded(i) => SameIntent(p))
    <3>1. Goto(p, "control") /\ "control" \in Steps /\ i \in DOMAIN attempt
      BY <1>1, <1>2, <2>2 DEF GoOnIf, Steps, Recorded
    <3> QED BY <1>1, <2>1, <3>1, GotoKeeps
  <2>3. CASE ~(MayFollow(i) /\ (Recorded(i) => SameIntent(p)))
    BY <1>1, <2>1, <2>3, LeaveKeeps DEF GoOnIf
  <2> QED BY <2>2, <2>3
<1>3. ASSUME MayFollow(i), ~Recorded(i) PROVE IInv'
  <2> DEFINE e == [epoch |-> ctrl[p].epoch, state |-> "PREPARED", rows |-> 0,
                   work |-> "none", output |-> "none"]
             r == [ctrl[p] EXCEPT !.pc = "control"]
  <2>1. PICK at \in Places : /\ listed' = InsertAt(listed, at, i)
                             /\ setbacks' = setbacks + (IF at <= Len(listed) THEN 1 ELSE 0)
    BY <1>3 DEF Insert
  <2>2. attempt' = [j \in DOMAIN attempt \cup {i} |-> IF j = i THEN e ELSE attempt[j]]
    BY <1>3 DEF Insert
  <2>3. e \in Records /\ e.state = "PREPARED" /\ e.work = "none"
    BY <1>1 DEF Records, States, Outputs
  <2>4. Len(listed) \in Nat /\ setbacks \in 0 .. MaxSetbacks
    BY DEF IInv, Journalled, Stored
  <2>5. at \in 1 .. Len(listed) + 1 /\ setbacks' \in 0 .. MaxSetbacks
    BY <2>1, <2>4, BoundAssumption DEF Places
  <2>6. ctrl[p] \in CtrlState /\ Fits(ctrl[p], attempt, captures, session.life) /\ "control" \in Steps
    BY AtStep DEF Steps
  <2>7. r \in CtrlState /\ r.pc = "control" /\ r.attempt = i /\ r.epoch = ctrl[p].epoch
        /\ r.head = ctrl[p].head
    BY <2>6 DEF CtrlState
  <2>8. ctrl' = [ctrl EXCEPT ![p] = r]
    BY <1>1, <1>3 DEF GoOnIf, Goto
  <2> HIDE DEF e, r
  <2>9. Journalled' /\ Ancestors' /\ Effects'
    BY <1>1, <1>3, <2>1, <2>2, <2>3, <2>5, InsertedIs DEF Recorded
  <2>10. /\ DOMAIN attempt' = DOMAIN attempt \cup {i} /\ i \notin DOMAIN attempt
         /\ \A j \in DOMAIN attempt : attempt'[j] = attempt[j]
    BY <1>3, <2>2 DEF Recorded
  <2>11. Called' /\ ctrl'[p] = r /\ \A q \in Process \ {p} : ctrl'[q] = ctrl[q]
    BY <2>7, <2>8, ProcessMoves DEF IInv
  <2>12. Stored' /\ Bound' /\ ClosedByTheResult'
    <3>1. captures' \subseteq CaptureRecords'
      BY <1>1, <2>10 DEF IInv, Stored, CaptureRecords, storeVars
    <3>2. Stored'
      BY <1>1, <2>5, <3>1 DEF IInv, Stored, storeVars
    <3> QED BY <1>1, <2>10, <3>2 DEF IInv, Bound, ClosedByTheResult, storeVars
  <2>13. Fitting'
    <3> SUFFICES ASSUME NEW q \in Process PROVE Fits(ctrl'[q], attempt', captures, session.life)
      BY <1>1 DEF Fitting, storeVars
    <3>1. CASE q = p
      BY <1>1, <2>6, <2>7, <2>10, <2>11, <3>1 DEF Fits
    <3>2. CASE q # p
      <4>1. Fits(ctrl[q], attempt, captures, session.life) /\ ctrl'[q] = ctrl[q]
        BY <2>11, <3>2 DEF IInv, Fitting
      <4>2. ctrl[q].pc = "spawn" => /\ attempt'[ctrl[q].attempt].work = "none"
                                    /\ attempt'[ctrl[q].attempt].state \in {"ACTIVE", "UNKNOWN"}
        BY <2>10, <4>1 DEF Fits, Holding
      <4>3. DOMAIN attempt \subseteq DOMAIN attempt' /\ captures \subseteq captures
            /\ \A j \in DOMAIN attempt :
                  attempt[j].state = "SUCCEEDED" => attempt'[j].state = "SUCCEEDED"
        BY <2>10
      <4>4. Fits(ctrl[q], attempt', captures, session.life)
        BY <4>1, <4>2, <4>3, StillFits
      <4> QED BY <4>1, <4>4
    <3> QED BY <3>1, <3>2
  <2>14. OneStarter'
    BY <2>7, <2>11 DEF IInv, OneStarter
  <2> QED BY <2>9, <2>11, <2>12, <2>13, <2>14 DEF IInv
<1> QED BY <1>2, <1>3

\* A step of the call on the record of its own Attempt.
LEMMA EffectKeeps ==
    ASSUME IInv, NEW p \in Process, NEW pc \in {"settle", "spawn", "verify"},
           ctrl[p].pc \in Holding, Goto(p, pc), NEW e, Onward(Mine(p), e),
           attempt' = [attempt EXCEPT ![ctrl[p].attempt] = e],
           UNCHANGED <<storeVars, listed, setbacks, faults>>,
           pc = "spawn" => /\ Mine(p).state = "PREPARED" /\ e.work = "none"
                           /\ e.state \in {"ACTIVE", "UNKNOWN"},
           \A q \in Process \ {p} :
               ctrl[q].pc = "spawn" /\ ctrl[q].attempt = ctrl[p].attempt =>
                   e.work = "none" /\ e.state \in {"ACTIVE", "UNKNOWN"}
    PROVE  IInv'
<1> DEFINE r == [ctrl[p] EXCEPT !.pc = pc]
           i == ctrl[p].attempt
<1>1. /\ ctrl[p] \in CtrlState /\ Fits(ctrl[p], attempt, captures, session.life)
      /\ i \in DOMAIN attempt /\ pc \in Steps
  BY AtStep DEF Steps
<1>2. r \in CtrlState /\ r.pc = pc /\ r.epoch = ctrl[p].epoch /\ r.head = ctrl[p].head
      /\ r.attempt = i
  BY <1>1 DEF CtrlState
<1>3. ctrl' = [ctrl EXCEPT ![p] = r]
  BY DEF Goto
<1>4. DOMAIN attempt' = DOMAIN attempt /\ attempt'[i] = e
  BY <1>1 DEF IInv, Journalled
<1> HIDE DEF r
<1>5. Fits(r, attempt', captures, session.life)
  BY <1>1, <1>2, <1>4 DEF Fits, Holding
<1>6. r.pc = "spawn" => r.attempt = i /\ attempt[i].state = "PREPARED"
  BY <1>2 DEF Mine
<1> QED BY <1>1, <1>2, <1>3, <1>5, <1>6, RecordKeeps DEF Mine

LEMMA SpawnsOpen ==
    ASSUME IInv, NEW q \in Process, ctrl[q].pc = "spawn"
    PROVE  attempt[ctrl[q].attempt].work = "none" /\ attempt[ctrl[q].attempt].state \in {"ACTIVE", "UNKNOWN"}
BY AtStep DEF Fits

LEMMA ControlKeeps == ASSUME IInv, NEW p \in Process, Control(p) PROVE IInv'
<1> DEFINE i == ctrl[p].attempt
           e == [attempt[i] EXCEPT !.state = "STOPPED", !.rows = 1]
<1>1. /\ ctrl[p].pc = "control" /\ UNCHANGED <<storeVars, listed, setbacks, faults>>
      /\ faults' \in 0 .. MaxFaults /\ i \in DOMAIN attempt /\ attempt[i] \in Records
      /\ ctrl[p].pc \in Holding
  BY AtStep DEF Control, IInv, Stored, Holding
<1>2. CASE /\ attempt[i].state = "PREPARED" /\ Goto(p, "settle")
           /\ attempt' = [attempt EXCEPT ![i].state = "STOPPED", ![i].rows = 1]
  <2>1. attempt' = [attempt EXCEPT ![i] = e]
    BY <1>2
  <2>2. e \in Records /\ e.state = "STOPPED"
    <3>1. "STOPPED" \in States /\ 1 \in 0 .. 2
      BY DEF States
    <3> QED BY <1>1, <3>1 DEF Records
  <2> HIDE DEF e
  <2>3. Onward(Mine(p), e)
    BY <1>2, <2>2 DEF Onward, Settled, Mine
  <2>4. \A q \in Process \ {p} : ~(ctrl[q].pc = "spawn" /\ ctrl[q].attempt = i)
    BY <1>2, SpawnsOpen
  <2> QED BY <1>1, <1>2, <2>1, <2>3, <2>4, EffectKeeps
<1>3. CASE UNCHANGED attempt /\ Goto(p, IF attempt[i].state = "PREPARED" THEN "dispatch" ELSE "settle")
  <2>1. UNCHANGED <<storeVars, journalVars, faults>>
    BY <1>1, <1>3 DEF journalVars
  <2>2. {"dispatch", "settle"} \subseteq Steps
    BY DEF Steps
  <2> QED BY <1>1, <1>3, <2>1, <2>2, GotoKeeps
<1> QED BY <1>2, <1>3 DEF Control

LEMMA LaunchKeeps == ASSUME IInv, NEW p \in Process, Launch(p) PROVE IInv'
<1> DEFINE i == ctrl[p].attempt
           e == [attempt[i] EXCEPT !.state = "ACTIVE"]
<1>1. /\ ctrl[p].pc = "launch" /\ UNCHANGED <<storeVars, listed, setbacks, faults>>
      /\ faults' \in 0 .. MaxFaults /\ i \in DOMAIN attempt /\ attempt[i] \in Records
      /\ ctrl[p].pc \in Holding
  BY AtStep DEF Launch, IInv, Stored, Holding
<1>2. CASE attempt[i].state = "PREPARED"
  <2>1. attempt' = [attempt EXCEPT ![i] = e] /\ Goto(p, "spawn")
    BY <1>2 DEF Launch
  <2>2. e \in Records /\ e.state = "ACTIVE" /\ e.work = attempt[i].work
    BY <1>1 DEF Records, States
  <2>3. e.work = "none"
    BY <1>1, <1>2, <2>2 DEF IInv, Effects
  <2> HIDE DEF e
  <2>4. Onward(Mine(p), e)
    BY <1>2, <2>2 DEF Onward, Settled, Mine
  <2>5. \A q \in Process \ {p} : ~(ctrl[q].pc = "spawn" /\ ctrl[q].attempt = i)
    BY <1>2, SpawnsOpen
  <2> QED BY <1>1, <1>2, <2>1, <2>2, <2>3, <2>4, <2>5, EffectKeeps DEF Mine
<1>3. CASE attempt[i].state # "PREPARED"
  <2>1. UNCHANGED <<storeVars, journalVars, faults>> /\ Goto(p, "settle")
    BY <1>1, <1>3 DEF journalVars, Launch
  <2>2. "settle" \in Steps
    BY DEF Steps
  <2> QED BY <1>1, <2>1, <2>2, GotoKeeps
<1> QED BY <1>2, <1>3

LEMMA StartKeeps == ASSUME IInv, NEW p \in Process, Start(p) \/ Reject(p) PROVE IInv'
<1> DEFINE i == ctrl[p].attempt
<1>1. /\ ctrl[p].pc = "spawn" /\ UNCHANGED <<storeVars, listed, setbacks, faults>>
      /\ i \in DOMAIN attempt /\ attempt[i] \in Records
      /\ ctrl[p].pc \in Holding /\ Goto(p, "settle")
  BY AtStep DEF Start, Reject, Holding
<1>2. attempt[i].state \in {"ACTIVE", "UNKNOWN"}
  BY <1>1, SpawnsOpen
<1>3. \A q \in Process \ {p} : ~(ctrl[q].pc = "spawn" /\ ctrl[q].attempt = i)
  BY <1>1 DEF IInv, OneStarter
<1>4. CASE Start(p)
  <2>1. PICK state \in {attempt[i].state, "UNKNOWN"} :
           attempt' = [attempt EXCEPT ![i].work = "live", ![i].state = state]
    BY <1>4 DEF Start
  <2> DEFINE e == [attempt[i] EXCEPT !.work = "live", !.state = state]
  <2>2. attempt' = [attempt EXCEPT ![i] = e]
    BY <2>1
  <2>3. e \in Records /\ e.state \in {"ACTIVE", "UNKNOWN"}
    BY <1>1, <1>2 DEF Records, States
  <2> HIDE DEF e
  <2>4. Onward(Mine(p), e)
    BY <1>2, <2>3 DEF Onward, Settled, Mine
  <2> QED BY <1>1, <1>3, <2>2, <2>4, EffectKeeps
<1>5. CASE Reject(p)
  <2> DEFINE e == [attempt[i] EXCEPT !.state = "STOPPED", !.rows = 1]
  <2>1. attempt' = [attempt EXCEPT ![i] = e]
    BY <1>5 DEF Reject
  <2>2. e \in Records /\ e.state = "STOPPED"
    <3>1. "STOPPED" \in States /\ 1 \in 0 .. 2
      BY DEF States
    <3> QED BY <1>1, <3>1 DEF Records
  <2> HIDE DEF e
  <2>3. Onward(Mine(p), e)
    BY <1>2, <2>2 DEF Onward, Settled, Mine
  <2> QED BY <1>1, <1>3, <2>1, <2>3, EffectKeeps
<1> QED BY <1>4, <1>5

LEMMA SettleKeeps == ASSUME IInv, NEW p \in Process, Settle(p) PROVE IInv'
<1> DEFINE r == [ctrl[p] EXCEPT !.pc = "reconcile", !.head = session]
<1>1. /\ ctrl[p].pc = "settle" /\ UNCHANGED <<storeVars, journalVars, faults>>
      /\ ctrl' = [ctrl EXCEPT ![p] = r]
      /\ faults \in 0 .. MaxFaults /\ session \in Heads
  BY DEF Settle, IInv, Stored
<1>2. /\ ctrl[p] \in CtrlState /\ Fits(ctrl[p], attempt, captures, session.life)
      /\ "reconcile" \in Steps
  BY AtStep DEF Steps
<1>3. r \in CtrlState /\ r.pc = "reconcile" /\ r.epoch = ctrl[p].epoch /\ r.head = session
      /\ r.attempt = ctrl[p].attempt
  BY <1>1, <1>2 DEF CtrlState
<1> HIDE DEF r
<1>4. Fits(r, attempt, captures, session.life)
  BY <1>1, <1>2, <1>3 DEF Fits, Holding
<1> QED BY <1>1, <1>3, <1>4, QuietKeeps

LEMMA ReconcileKeeps == ASSUME IInv, NEW p \in Process, Reconcile(p) PROVE IInv'
<1>1. /\ ctrl[p].pc = "reconcile" /\ UNCHANGED <<storeVars, journalVars, faults>>
      /\ ctrl[p].attempt \in DOMAIN attempt
      /\ \E pc \in {"record", "verify"} : Goto(p, pc)
  BY AtStep DEF Reconcile, Holding
<1>2. {"record", "verify"} \subseteq Steps
  BY DEF Steps
<1> QED BY <1>1, <1>2, GotoKeeps

LEMMA RecordStepKeeps == ASSUME IInv, NEW p \in Process, Record(p) PROVE IInv'
<1> DEFINE i == ctrl[p].attempt
<1>1. /\ ctrl[p].pc = "record" /\ UNCHANGED <<storeVars, listed, setbacks, faults>>
      /\ i \in DOMAIN attempt /\ attempt[i] \in Records
      /\ ctrl[p].pc \in Holding /\ Goto(p, "verify")
  BY AtStep DEF Record, Holding
<1>2. PICK rows \in RowsAfter(i), state \in Observed(i) :
         attempt' = [attempt EXCEPT ![i].rows = rows,
            ![i].state = IF attempt[i].state = "ACTIVE" THEN state ELSE attempt[i].state]
  BY DEF Record
<1> DEFINE e == [attempt[i] EXCEPT !.rows = rows,
            !.state = IF attempt[i].state = "ACTIVE" THEN state ELSE attempt[i].state]
<1>3. attempt' = [attempt EXCEPT ![i] = e]
  BY <1>2
<1>4. rows \in 0 .. 2 /\ state \in States
  BY <1>1 DEF RowsAfter, Observed, Records, States, Settled
<1>5. /\ e \in Records /\ e.work = attempt[i].work
      /\ e.state = IF attempt[i].state = "ACTIVE" THEN state ELSE attempt[i].state
  BY <1>1, <1>4 DEF Records
<1> HIDE DEF e
<1>6. state # "PREPARED" /\ (state = "SUCCEEDED" => attempt[i].work = "SUCCEEDED")
      /\ (attempt[i].work = "none" => state = "UNKNOWN")
  BY DEF Observed, Settled
<1>7. Onward(Mine(p), e)
  BY <1>1, <1>5, <1>6 DEF Onward, Settled, Mine, IInv, Effects
<1>8. \A q \in Process \ {p} : ctrl[q].pc = "spawn" /\ ctrl[q].attempt = i =>
         e.work = "none" /\ e.state \in {"ACTIVE", "UNKNOWN"}
  BY <1>5, <1>6, SpawnsOpen
<1> QED BY <1>1, <1>3, <1>7, <1>8, EffectKeeps

LEMMA VerifyKeeps == ASSUME IInv, NEW p \in Process, Verify(p) PROVE IInv'
<1> DEFINE i == ctrl[p].attempt
           result == ResultOf(i)
           pc == IF result.output = "none" THEN "terminate" ELSE "capture"
           r == [ctrl[p] EXCEPT !.result = result, !.pc = pc]
<1>1. /\ ctrl[p].pc = "verify" /\ UNCHANGED <<storeVars, journalVars, faults>>
      /\ ctrl' = [ctrl EXCEPT ![p] = r] /\ faults \in 0 .. MaxFaults
      /\ i \in DOMAIN attempt /\ attempt[i] \in Records
  BY AtStep DEF Verify, Holding
<1>2. result \in Result /\ result.state = attempt[i].state
  BY <1>1 DEF ResultOf, Result, Records, Outputs
<1> HIDE DEF result
<1>3. /\ ctrl[p] \in CtrlState /\ Fits(ctrl[p], attempt, captures, session.life)
      /\ pc \in Steps /\ pc \in {"terminate", "capture"}
  BY AtStep DEF Steps
<1>4. result.output = "declared" => pc = "capture"
  OBVIOUS
<1> HIDE DEF pc
<1>5. r \in CtrlState /\ r.pc = pc /\ r.epoch = ctrl[p].epoch /\ r.head = ctrl[p].head
      /\ r.attempt = i /\ r.result = result
  BY <1>2, <1>3 DEF CtrlState
<1> HIDE DEF r
<1>6. Fits(r, attempt, captures, session.life)
  BY <1>1, <1>2, <1>3, <1>4, <1>5 DEF Fits, Holding
<1> QED BY <1>1, <1>3, <1>5, <1>6, QuietKeeps

LEMMA CaptureKeeps == ASSUME IInv, NEW p \in Process, Capture(p) PROVE IInv'
<1> DEFINE new == CaptureOf(p)
           allowed == /\ ctrl[p].epoch = epoch
                      /\ {c \in captures : SameObservation(c, new)} \subseteq {new}
<1>1. /\ ctrl[p].pc = "capture" /\ UNCHANGED <<epoch, active, asked, session, journalVars, faults>>
      /\ captures' = IF allowed THEN captures \cup {new} ELSE captures
      /\ IF allowed
         THEN ctrl' = [ctrl EXCEPT ![p].pc = "terminate", ![p].capture = ctrl[p].epoch]
         ELSE Leave(p)
      /\ faults \in 0 .. MaxFaults
  BY AtStep DEF Capture
<1> HIDE DEF allowed
<1>2. CASE ~allowed
  <2>1. UNCHANGED <<storeVars, journalVars>>
    BY <1>1, <1>2 DEF storeVars
  <2> QED BY <1>1, <1>2, <2>1, LeaveKeeps
<1>3. CASE allowed
  <2> DEFINE r == [ctrl[p] EXCEPT !.pc = "terminate", !.capture = ctrl[p].epoch]
  <2>1. /\ ctrl[p] \in CtrlState /\ Fits(ctrl[p], attempt, captures, session.life)
        /\ ctrl[p].attempt \in DOMAIN attempt /\ ctrl[p].epoch \in 1 .. MaxEpochs
        /\ "terminate" \in Steps
    BY <1>1, AtStep DEF Steps, Holding
  <2>2. ctrl[p].epoch \in 0 .. MaxEpochs
    BY <2>1, BoundAssumption
  <2>3. r \in CtrlState /\ r.pc = "terminate" /\ r.epoch = ctrl[p].epoch /\ r.head = ctrl[p].head
        /\ r.attempt = ctrl[p].attempt /\ r.result = ctrl[p].result /\ r.capture = ctrl[p].epoch
    BY <2>1, <2>2 DEF CtrlState
  <2>4. ctrl' = [ctrl EXCEPT ![p] = r]
    BY <1>1, <1>3
  <2> HIDE DEF r
  <2>5. /\ new.attempt = ctrl[p].attempt /\ new.result = ctrl[p].result
        /\ new.epoch = ctrl[p].epoch /\ new.accepted = Accepts(p)
    BY DEF CaptureOf
  <2>6. new \in CaptureRecords
    <3>1. Accepts(p) \in BOOLEAN
      BY DEF Accepts
    <3>2. ctrl[p].result \in Result
      BY <2>1 DEF CtrlState
    <3> QED BY <2>1, <3>1, <3>2 DEF CaptureOf, CaptureRecords
  <2> HIDE DEF new
  <2>7. captures' = captures \cup {new}
    BY <1>1, <1>3
  <2>8. Stored'
    <3>1. captures' \subseteq CaptureRecords
      BY <2>6, <2>7 DEF IInv, Stored
    <3>2. CaptureRecords' = CaptureRecords
      BY <1>1 DEF CaptureRecords, journalVars
    <3> QED BY <1>1, <3>1, <3>2 DEF IInv, Stored, journalVars
  <2>9. Bound' /\ ClosedByTheResult'
    BY <1>1, <2>7 DEF IInv, Bound, ClosedByTheResult, journalVars
  <2>10. /\ r.head.life = "open" /\ r.result.state = "SUCCEEDED" /\ r.result.output = "declared"
         => Accepted(captures', r.attempt, r.result, r.capture)
    <3> SUFFICES ASSUME r.head.life = "open", r.result.state = "SUCCEEDED", r.result.output = "declared"
                 PROVE  Accepted(captures', r.attempt, r.result, r.capture)
      OBVIOUS
    <3>1. new.accepted
      BY <2>3, <2>5 DEF Accepts, Settled
    <3> QED BY <2>3, <2>5, <2>7, <3>1 DEF Accepted
  <2>11. Fits(r, attempt, captures', session.life)
    BY <1>1, <2>1, <2>3, <2>10 DEF Fits, Holding
  <2> QED BY <1>1, <2>3, <2>4, <2>7, <2>8, <2>9, <2>11, MoveKeeps
<1> QED BY <1>2, <1>3

LEMMA TerminateKeeps == ASSUME IInv, NEW p \in Process, Terminate(p) PROVE IInv'
<1> DEFINE i == ctrl[p].attempt
<1>1. /\ ctrl[p].pc = "terminate" /\ UNCHANGED <<epoch, active, asked, captures, journalVars, faults>>
      /\ session' = IF MaySettle(p) /\ Closes(p)
                    THEN [life |-> "terminal", bound |-> Binding(p)] ELSE session
      /\ TakeUp(p, i, "control") \/ Leave(p)
      /\ ctrl[p] \in CtrlState /\ Fits(ctrl[p], attempt, captures, session.life)
      /\ i \in DOMAIN attempt /\ i \in Identity
      /\ faults \in 0 .. MaxFaults /\ session \in Heads
  BY AtStep DEF Terminate, Holding, IInv, Stored
<1>2. PICK r \in CtrlState : /\ ctrl' = [ctrl EXCEPT ![p] = r] /\ r.pc # "spawn"
                             /\ Fits(r, attempt, captures, session'.life)
  <2>1. CASE TakeUp(p, i, "control")
    <3>1. "control" \in Steps
      BY DEF Steps
    <3> QED BY <1>1, <2>1, <3>1, TakeUpIs
  <2>2. CASE Leave(p)
    <3>1. Fits(Idle, attempt, captures, session'.life)
      BY SmallTypes DEF Fits, Holding
    <3> QED BY <2>2, <3>1, SmallTypes DEF Leave
  <2> QED BY <1>1, <2>1, <2>2
<1>3. CASE ~(MaySettle(p) /\ Closes(p))
  <2>1. UNCHANGED <<storeVars, journalVars>> /\ faults' \in 0 .. MaxFaults
    BY <1>1, <1>3 DEF storeVars
  <2> QED BY <1>2, <2>1, QuietKeeps DEF storeVars
<1>4. CASE MaySettle(p) /\ Closes(p)
  <2>1. session' = [life |-> "terminal", bound |-> Binding(p)] /\ session.life = "open"
    BY <1>1, <1>4 DEF Closes
  <2>2. /\ ctrl[p].head.life = "open" /\ ctrl[p].result.state = "SUCCEEDED"
        /\ ctrl[p].result.output = "none" \/ ctrl[p].result.output = "declared"
    BY <1>1, <1>4, <2>1 DEF MaySettle, ExactReplay, Accepts, Fits
  <2>3. attempt[i].state = "SUCCEEDED" /\ attempt[i].work = "SUCCEEDED"
    BY <1>1, <2>2 DEF Fits, IInv, Effects
  <2>4. ctrl[p].result.output = "declared" => Accepted(captures, i, ctrl[p].result, ctrl[p].capture)
    BY <1>1, <2>2 DEF Fits
  <2>5. /\ session'.life = "terminal" /\ session'.bound.attempt = i
        /\ session'.bound.result = ctrl[p].result /\ session'.bound.capture = ctrl[p].capture
    BY <2>1 DEF Binding
  <2>6. Bound' /\ ClosedByTheResult'
    BY <1>1, <2>2, <2>3, <2>4, <2>5 DEF Bound, ClosedByTheResult, Accepted, journalVars
  <2>7. Stored'
    <3>1. Binding(p) \in Bindings
      BY <1>1 DEF Binding, Bindings, CtrlState
    <3>2. session' \in Heads
      BY <2>1, <3>1 DEF Heads
    <3>3. CaptureRecords' = CaptureRecords
      BY <1>1 DEF CaptureRecords, journalVars
    <3> QED BY <1>1, <3>2, <3>3 DEF IInv, Stored, journalVars
  <2> QED BY <1>1, <1>2, <2>1, <2>6, <2>7, MoveKeeps
<1> QED BY <1>3, <1>4

-----------------------------------------------------------------------------
(* The invariant, and what follows from it                                 *)

LEMMA StepIInv == ASSUME IInv, NEW p \in Process, Step(p) PROVE IInv'
BY CreateKeeps, ReadKeeps, SelectKeeps, CheckKeeps, InsertKeeps, ControlKeeps, LaunchKeeps,
   StartKeeps, SettleKeeps, ReconcileKeeps, RecordStepKeeps, VerifyKeeps, CaptureKeeps,
   TerminateKeeps DEF Step

LEMMA StutterIInv == ASSUME IInv, UNCHANGED vars PROVE IInv'
<1> USE DEF IInv, vars
<1>1. Journalled' /\ Stored' /\ Called' /\ Ancestors' /\ Effects'
  BY DEF Journalled, Stored, CaptureRecords, Called, Ancestors, Effects
<1>2. Fitting' /\ OneStarter' /\ Bound' /\ ClosedByTheResult'
  BY DEF Fitting, OneStarter, Bound, ClosedByTheResult
<1> QED BY <1>1, <1>2

LEMMA NextIInv == IInv /\ [Next]_vars => IInv'
<1> SUFFICES ASSUME IInv, [Next]_vars PROVE IInv'
  OBVIOUS
<1>1. CASE Next
  BY <1>1, EpochKeeps, WorkEndsKeeps, StopKeeps, CallKeeps, StepIInv DEF Next
<1>2. CASE UNCHANGED vars
  BY <1>2, StutterIInv
<1> QED BY <1>1, <1>2

\* Every reachable state satisfies the inductive invariant.
THEOREM Invariance == Spec => []IInv
BY InitIInv, NextIInv, PTL DEF Spec

\* Every variable keeps its type, and the journal lists each Attempt once
\* (mission_attempt_runtime.py:912).
THEOREM TypesHold == Spec => []TypeOK
<1>1. IInv => TypeOK
  BY DEF IInv, Journalled, Stored, Called, CtrlState, CaptureRecords, TypeOK
<1> QED BY <1>1, Invariance, PTL

\* An Attempt is corrected only when it is over, for any number of calls, bases,
\* Epochs, stopped calls and clocks set back (adapter.py:178).
THEOREM CorrectedIsOver == Spec => []OneOpenInLineage
<1>1. IInv => OneOpenInLineage
  BY DEF IInv, Journalled, Ancestors, OneOpenInLineage
<1> QED BY <1>1, Invariance, PTL

\* What closed the Session did succeed, and what it left is kept and accepted
\* (formal_session.py:1145).
THEOREM ClosedByResult == Spec => []ClosedByTheResult
<1>1. IInv => ClosedByTheResult
  BY DEF IInv
<1> QED BY <1>1, Invariance, PTL

\* Only Start makes the work of an Attempt live.
LEMMA OnlyStart ==
    ASSUME IInv, Next, NEW i \in DOMAIN attempt,
           attempt[i].work = "none", attempt'[i].work = "live"
    PROVE  \E p \in Process : ctrl[p].pc = "spawn" /\ ctrl[p].attempt = i
<1> SUFFICES ASSUME \A p \in Process : ~(ctrl[p].pc = "spawn" /\ ctrl[p].attempt = i)
             PROVE  attempt'[i].work \in {attempt[i].work, "lost"} \cup Settled
  BY DEF Settled
<1>1. attempt \in [DOMAIN attempt -> Records]
  BY DEF IInv, Journalled
<1>2. attempt[i] \in Records
  BY <1>1
<1>3. ASSUME UNCHANGED attempt PROVE attempt'[i].work = attempt[i].work
  BY <1>3
<1>4. CASE EndEpoch \/ BeginEpoch \/ Withdraw
  BY <1>3, <1>4 DEF EndEpoch, BeginEpoch, Withdraw, journalVars
<1>5. ASSUME NEW j \in DOMAIN attempt, WorkEnds(j)
      PROVE  attempt'[i].work \in {attempt[i].work, "lost"} \cup Settled
  BY <1>1, <1>2, <1>5 DEF WorkEnds, Records
<1>6. ASSUME NEW p \in Process, Stop(p) \/ \E b \in Basis \cup {NoBasis} : Call(p, b)
      PROVE  attempt'[i].work = attempt[i].work
  BY <1>3, <1>6 DEF Stop, Call, journalVars
<1>7. ASSUME NEW p \in Process, Step(p) PROVE attempt'[i].work = attempt[i].work
  <2>1. CASE Create(p) \/ Read(p) \/ Select(p) \/ Prepare(p) \/ Dispatch(p)
             \/ Settle(p) \/ Reconcile(p) \/ Verify(p) \/ Capture(p) \/ Terminate(p)
    <3>1. UNCHANGED journalVars
      BY <2>1 DEF Create, Read, Select, Prepare, Dispatch, Settle, Reconcile, Verify,
                  Capture, Terminate
    <3> QED BY <1>3, <3>1 DEF journalVars
  <2>2. CASE Insert(p)
    BY <1>3, <2>2 DEF Insert, Recorded, journalVars
  <2>3. CASE Control(p) \/ Launch(p) \/ Reject(p) \/ Record(p)
    <3> DEFINE j == ctrl[p].attempt
    <3>1. ASSUME j = i PROVE attempt'[i].work = attempt[i].work
      <4>1. CASE Control(p)
        BY <1>1, <1>2, <3>1, <4>1 DEF Control, Records
      <4>2. CASE Launch(p)
        BY <1>1, <1>2, <3>1, <4>2 DEF Launch, Records
      <4>3. CASE Reject(p)
        BY <1>1, <1>2, <3>1, <4>3 DEF Reject, Records
      <4>4. CASE Record(p)
        <5>1. PICK rows \in RowsAfter(j), state \in Observed(j) :
                 attempt' = [attempt EXCEPT ![j].rows = rows,
                    ![j].state = IF attempt[j].state = "ACTIVE" THEN state ELSE attempt[j].state]
          BY <4>4 DEF Record
        <5> QED BY <1>1, <1>2, <3>1, <5>1 DEF Records
      <4> QED BY <2>3, <4>1, <4>2, <4>3, <4>4
    <3>2. ASSUME j # i PROVE attempt'[i] = attempt[i]
      BY <1>1, <2>3, <3>2 DEF Control, Launch, Reject, Record
    <3> QED BY <3>1, <3>2
  <2>4. CASE Start(p)
    BY <1>1, <1>2, <2>4 DEF Start, Records
  <2> QED BY <1>7, <2>1, <2>2, <2>3, <2>4 DEF Step
<1> QED BY <1>4, <1>5, <1>6, <1>7 DEF Next

\* Nothing starts in the line of corrections whose result has closed the Session,
\* whatever heads the calls have read before (mission_attempt_runtime.py:1345).
THEOREM ClosedLineage == Spec => NoEffectInClosedLineage
<1> DEFINE Quiet == \A i \in DOMAIN attempt :
          (/\ session.life = "terminal"
           /\ attempt[i].work = "none" /\ attempt'[i].work = "live")
              => /\ ~IsPrefix(i, session.bound.attempt)
                 /\ ~IsPrefix(session.bound.attempt, i)
<1>1. IInv /\ [Next]_vars => [Quiet]_vars
  <2> SUFFICES ASSUME IInv, Next, NEW i \in DOMAIN attempt, session.life = "terminal",
                      attempt[i].work = "none", attempt'[i].work = "live"
               PROVE  ~IsPrefix(i, session.bound.attempt) /\ ~IsPrefix(session.bound.attempt, i)
    OBVIOUS
  <2> DEFINE b == session.bound.attempt
  <2>1. b \in DOMAIN attempt /\ attempt[b].state = "SUCCEEDED"
    BY DEF IInv, Bound, ClosedByTheResult
  <2>2. i \in Identity /\ b \in Identity
    BY <2>1 DEF IInv, Journalled
  <2>3. attempt[i].state \in {"ACTIVE", "UNKNOWN"}
    BY OnlyStart, SpawnsOpen
  <2>4. i # b
    BY <2>1, <2>3
  <2>5. ~IsStrictPrefix(i, b) /\ ~IsStrictPrefix(b, i)
    BY <2>1, <2>2, <2>3 DEF IInv, Ancestors
  <2> QED BY <2>4, <2>5 DEF IsStrictPrefix
<1>2. NoEffectInClosedLineage <=> [][Quiet]_vars
  BY DEF NoEffectInClosedLineage
<1> QED BY <1>1, <1>2, Invariance, PTL DEF Spec
=============================================================================
