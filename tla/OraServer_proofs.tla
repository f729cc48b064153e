-------------------------- MODULE OraServer_proofs --------------------------
(***************************************************************************)
(* Theorems about OraServer, for any number of concurrent calls.           *)
(***************************************************************************)
EXTENDS OraServer, SequenceTheorems, TLAPS

Running(c) == pc[c] \in {"auth", "handler", "commit"}
Begin(c) == [call |-> c, what |-> "begin"]

Began(c) == \E b \in DOMAIN history : history[b] = Begin(c)

(* A call of the same method ended so since this one began.                 *)
EndedSince(c, what) ==
  \E j \in DOMAIN history :
    /\ history[j].what = what
    /\ MethodOf[history[j].call] = MethodOf[c]
    /\ \E b \in 1..j : history[b] = Begin(c)

(* What a running call read of the map is still so, but for a call that     *)
(* ended meanwhile; a verbose server's read nothing.                        *)
ReadInv ==
  \A c \in Calls : Running(c) =>
    /\ Began(c)
    /\ wasThere[c] /\ MethodOf[c] \notin erroredMethods => EndedSince(c, "ok")
    /\ ~wasThere[c] /\ MethodOf[c] \in erroredMethods => verbose \/ EndedSince(c, "error")

IInv == TypeOK /\ ReadInv /\ StaleOnlyByOverlap

-----------------------------------------------------------------------------
(* The history grows at its end; what was before stays before.              *)
LEMMA Grows ==
  ASSUME history \in Seq(Events), NEW e \in Events, history' = Append(history, e)
  PROVE /\ history' \in Seq(Events) /\ Len(history) \in Nat /\ DOMAIN history = 1..Len(history)
        /\ DOMAIN history' = 1..(Len(history) + 1)
        /\ \A i \in DOMAIN history : i \in DOMAIN history' /\ history'[i] = history[i]
        /\ history'[Len(history) + 1] = e
OBVIOUS

LEMMA Remembers ==
  ASSUME history \in Seq(Events), NEW e \in Events, history' = Append(history, e), NEW c, NEW w
  PROVE (Began(c) => Began(c)') /\ (EndedSince(c, w) => EndedSince(c, w)')
<1>1. Began(c) => Began(c)'
  BY Grows DEF Began, Begin
<1>2. ASSUME EndedSince(c, w) PROVE EndedSince(c, w)'
  <2>1. PICK j \in DOMAIN history : /\ history[j].what = w
                                    /\ MethodOf[history[j].call] = MethodOf[c]
                                    /\ \E b \in 1..j : history[b] = Begin(c)
    BY <1>2 DEF EndedSince
  <2>2. PICK b \in 1..j : history[b] = Begin(c)
    BY <2>1
  <2>3. b \in DOMAIN history
    BY <2>1, <2>2, Grows
  <2>4. j \in DOMAIN history' /\ history'[j] = history[j] /\ history'[b] = Begin(c)
    BY <2>1, <2>2, <2>3, Grows
  <2> QED
    BY <2>1, <2>2, <2>4 DEF EndedSince, Begin
<1> QED
  BY <1>1, <1>2

(* Nothing is known before the first call.                                  *)
LEMMA InitIInv == Init => IInv
<1> SUFFICES ASSUME Init PROVE IInv
  OBVIOUS
<1>1. TypeOK
  BY DEF Init, TypeOK, Events
<1>2. ReadInv
  BY DEF Init, ReadInv, Running
<1>3. StaleOnlyByOverlap
  BY DEF Init, StaleOnlyByOverlap, IsLastEnd, Ends
<1> QED
  BY <1>1, <1>2, <1>3 DEF IInv

-----------------------------------------------------------------------------
(* Every value stays in its range.                                          *)
LEMMA StepTypeOK == IInv /\ [Next]_vars => TypeOK'
<1> SUFFICES ASSUME IInv, [Next]_vars PROVE TypeOK'
  OBVIOUS
<1> USE ServerAssumption DEF IInv, TypeOK
<1>1. ASSUME NEW c \in Calls, GetLogger(c) PROVE TypeOK'
  <2>1. Begin(c) \in Events
    BY DEF Begin, Events
  <2>2. history' \in Seq(Events)
    BY <1>1, <2>1 DEF GetLogger, Happens, Begin
  <2>3. wasThere' \in [Calls -> BOOLEAN]
    BY <1>1 DEF GetLogger, ReadsMap
  <2> QED
    BY <1>1, <2>2, <2>3 DEF GetLogger
<1>2. ASSUME NEW c \in Calls, CheckAuth(c) PROVE TypeOK'
  BY <1>2 DEF CheckAuth
<1>3. ASSUME NEW c \in Calls, Handle(c) PROVE TypeOK'
  BY <1>3 DEF Handle
<1>4. ASSUME NEW c \in Calls, CommitOutcome(c) PROVE TypeOK'
  <2>1. [call |-> c, what |-> IF failed[c] THEN "error" ELSE "ok"] \in Events
    BY DEF Events
  <2>2. history' \in Seq(Events)
    BY <1>4, <2>1 DEF CommitOutcome, Happens
  <2>3. erroredMethods' \subseteq Methods
    BY <1>4 DEF CommitOutcome, Updated
  <2> QED
    BY <1>4, <2>2, <2>3 DEF CommitOutcome
<1>5. CASE UNCHANGED vars
  BY <1>5 DEF vars
<1> QED
  BY <1>1, <1>2, <1>3, <1>4, <1>5 DEF Next, Call

(* What the running calls read: a begin reads the map as it is, and only an *)
(* end changes the map, which then tells of it.                             *)
LEMMA StepRead == IInv /\ [Next]_vars => ReadInv'
<1> SUFFICES ASSUME IInv, [Next]_vars PROVE ReadInv'
  OBVIOUS
<1>0. TypeOK /\ ReadInv /\ history \in Seq(Events)
  BY DEF IInv, TypeOK
<1>1. ASSUME NEW c \in Calls, GetLogger(c) PROVE ReadInv'
  <2>0. Begin(c) \in Events /\ history' = Append(history, Begin(c)) /\ UNCHANGED <<verbose, erroredMethods>>
    BY <1>1 DEF GetLogger, Happens, Begin, Events
  <2>1. Began(c)'
    BY <1>0, <2>0, Grows DEF Began, Begin
  <2>2. wasThere'[c] = ReadsMap(c)
    BY <1>0, <1>1 DEF GetLogger, TypeOK
  <2>3. ASSUME NEW d \in Calls \ {c}, Running(d)'
        PROVE Running(d) /\ wasThere'[d] = wasThere[d]
    BY <1>0, <1>1, <2>3 DEF GetLogger, TypeOK, Running
  <2>4. ASSUME NEW d \in Calls, Running(d)', d # c
        PROVE /\ Began(d)'
              /\ wasThere'[d] /\ MethodOf[d] \notin erroredMethods' => EndedSince(d, "ok")'
              /\ ~wasThere'[d] /\ MethodOf[d] \in erroredMethods' => verbose' \/ EndedSince(d, "error")'
    BY <1>0, <2>0, <2>3, <2>4, Remembers DEF ReadInv
  <2>5. wasThere'[c] => MethodOf[c] \in erroredMethods'
    BY <2>0, <2>2 DEF ReadsMap
  <2>6. ~wasThere'[c] /\ MethodOf[c] \in erroredMethods' => verbose'
    BY <2>0, <2>2 DEF ReadsMap
  <2> QED
    BY <2>1, <2>4, <2>5, <2>6 DEF ReadInv
<1>2. ASSUME NEW c \in Calls, CheckAuth(c) \/ Handle(c) PROVE ReadInv'
  <2>1. UNCHANGED <<verbose, erroredMethods, wasThere, history>>
    BY <1>2 DEF CheckAuth, Handle
  <2>2. \A d \in Calls : Running(d)' => Running(d)
    BY <1>0, <1>2 DEF CheckAuth, Handle, Running, TypeOK
  <2> QED
    BY <1>0, <2>1, <2>2 DEF ReadInv, Began, EndedSince
<1>3. ASSUME NEW c \in Calls, CommitOutcome(c) PROVE ReadInv'
  <2>0. PICK e \in Events : /\ e.call = c /\ e.what = IF failed[c] THEN "error" ELSE "ok"
                            /\ history' = Append(history, e)
    <3>1. [call |-> c, what |-> IF failed[c] THEN "error" ELSE "ok"] \in Events
      BY DEF Events
    <3> QED
      BY <1>3, <3>1 DEF CommitOutcome, Happens
  <2>a. UNCHANGED <<verbose, wasThere>>
    BY <1>3 DEF CommitOutcome
  <2> SUFFICES ASSUME NEW d \in Calls, Running(d)'
               PROVE /\ Began(d)'
                     /\ wasThere'[d] /\ MethodOf[d] \notin erroredMethods' => EndedSince(d, "ok")'
                     /\ ~wasThere'[d] /\ MethodOf[d] \in erroredMethods' => verbose' \/ EndedSince(d, "error")'
    BY DEF ReadInv
  <2>1. Running(d)
    BY <1>0, <1>3 DEF CommitOutcome, Running, TypeOK
  <2>2. Began(d) /\ Began(d)'
    BY <1>0, <2>0, <2>1, Remembers DEF ReadInv
  <2>3. MethodOf[d] = MethodOf[c] => EndedSince(d, e.what)'
    <3>1. PICK b \in DOMAIN history : history[b] = Begin(d)
      BY <2>2 DEF Began
    <3>2. b \in 1..(Len(history) + 1) /\ history'[b] = Begin(d) /\ Len(history) + 1 \in DOMAIN history'
          /\ history'[Len(history) + 1] = e
      BY <1>0, <2>0, <3>1, Grows
    <3> QED
      BY <2>0, <3>2 DEF EndedSince, Begin
  <2>4. wasThere'[d] /\ MethodOf[d] \notin erroredMethods' => EndedSince(d, "ok")'
    <3>1. CASE MethodOf[d] \notin erroredMethods
      BY <1>0, <2>0, <2>a, <2>1, <3>1, Remembers DEF ReadInv
    <3>2. CASE MethodOf[d] \in erroredMethods /\ MethodOf[d] \notin erroredMethods'
      <4>1. MethodOf[d] = MethodOf[c] /\ ~failed[c]
        BY <1>0, <1>3, <3>2 DEF CommitOutcome, Updated, TypeOK
      <4> QED
        BY <2>0, <2>3, <4>1
    <3> QED
      BY <3>1, <3>2
  <2>5. ~wasThere'[d] /\ MethodOf[d] \in erroredMethods' => verbose' \/ EndedSince(d, "error")'
    <3>1. CASE MethodOf[d] \in erroredMethods
      BY <1>0, <2>0, <2>a, <2>1, <3>1, Remembers DEF ReadInv
    <3>2. CASE MethodOf[d] \notin erroredMethods /\ MethodOf[d] \in erroredMethods'
      <4>1. MethodOf[d] = MethodOf[c] /\ failed[c]
        BY <1>0, <1>3, <3>2 DEF CommitOutcome, Updated, TypeOK
      <4> QED
        BY <2>0, <2>3, <4>1
    <3> QED
      BY <3>1, <3>2
  <2> QED
    BY <2>2, <2>4, <2>5
<1>4. CASE UNCHANGED vars
  BY <1>0, <1>4 DEF vars, ReadInv, Running, Began, EndedSince
<1> QED
  BY <1>1, <1>2, <1>3, <1>4 DEF Next, Call

-----------------------------------------------------------------------------
(* The part of the property about the list's methods, and that about the    *)
(* last call that ended.                                                    *)
ListedFailed == \A m \in erroredMethods : \E i \in Ends(m) : history[i].what = "error"

LastTold(m, i) ==
  /\ history[i].what = "error" /\ m \notin erroredMethods => EndedDuring(i, "ok")
  /\ history[i].what = "ok" /\ m \in erroredMethods => verbose \/ EndedDuring(i, "error")

LEMMA StaleParts ==
  StaleOnlyByOverlap <=> ListedFailed /\ \A m \in Methods : \A i \in DOMAIN history : IsLastEnd(m, i) => LastTold(m, i)
BY DEF StaleOnlyByOverlap, ListedFailed, LastTold

(* An end that was stays one, with what ended during its call.              *)
LEMMA KeepsEnds ==
  ASSUME history \in Seq(Events), NEW e \in Events, history' = Append(history, e), NEW i \in DOMAIN history
  PROVE /\ \A m : i \in Ends(m)' <=> i \in Ends(m)
        /\ \A w : EndedDuring(i, w) => EndedDuring(i, w)'
<1>1. i \in DOMAIN history' /\ history'[i] = history[i]
  BY Grows
<1>2. \A m : i \in Ends(m)' <=> i \in Ends(m)
  BY <1>1 DEF Ends
<1>3. ASSUME NEW w, EndedDuring(i, w) PROVE EndedDuring(i, w)'
  <2>1. PICK j \in 1..(i-1) : /\ history[j].what = w
                              /\ MethodOf[history[j].call] = MethodOf[history[i].call]
                              /\ \E b \in 1..j : history[b] = [call |-> history[i].call, what |-> "begin"]
    BY <1>3 DEF EndedDuring
  <2>2. PICK b \in 1..j : history[b] = [call |-> history[i].call, what |-> "begin"]
    BY <2>1
  <2>3. i \in 1..Len(history) /\ j \in DOMAIN history /\ b \in DOMAIN history
    BY <2>1, <2>2, Grows
  <2>4. history'[j] = history[j] /\ history'[b] = history[b]
    BY <2>3, Grows
  <2> QED
    BY <1>1, <2>1, <2>2, <2>4 DEF EndedDuring
<1> QED
  BY <1>2, <1>3

(* The list and the last ends: a begin changes neither; an end that leaves  *)
(* the map as its call read it does so because another call changed it.     *)
LEMMA StepStale == IInv /\ [Next]_vars => StaleOnlyByOverlap'
<1> SUFFICES ASSUME IInv, [Next]_vars PROVE StaleOnlyByOverlap'
  OBVIOUS
<1>0. TypeOK /\ ReadInv /\ history \in Seq(Events)
      /\ ListedFailed /\ \A m \in Methods : \A i \in DOMAIN history : IsLastEnd(m, i) => LastTold(m, i)
  BY StaleParts DEF IInv, TypeOK
<1>1. ASSUME NEW c \in Calls, GetLogger(c) PROVE StaleOnlyByOverlap'
  <2>0. PICK e \in Events : e.what = "begin" /\ history' = Append(history, e)
    <3>1. [call |-> c, what |-> "begin"] \in Events
      BY DEF Events
    <3> QED
      BY <1>1, <3>1 DEF GetLogger, Happens
  <2>a. UNCHANGED <<verbose, erroredMethods>>
    BY <1>1 DEF GetLogger
  <2>1. \A m : Ends(m)' = Ends(m)
    <3>1. \A m : \A i \in DOMAIN history : i \in Ends(m)' <=> i \in Ends(m)
      BY <1>0, <2>0, KeepsEnds
    <3>2. \A m : Len(history) + 1 \notin Ends(m)'
      BY <1>0, <2>0, Grows DEF Ends
    <3>3. DOMAIN history' = DOMAIN history \cup {Len(history) + 1}
      BY <1>0, <2>0, Grows
    <3> QED
      BY <3>1, <3>2, <3>3 DEF Ends
  <2>2. ListedFailed'
    <3>1. ASSUME NEW m \in erroredMethods PROVE \E i \in Ends(m)' : history'[i].what = "error"
      <4>1. PICK i \in Ends(m) : history[i].what = "error"
        BY <1>0 DEF ListedFailed
      <4>2. i \in DOMAIN history
        BY DEF Ends
      <4> QED
        BY <1>0, <2>0, <2>1, <4>1, <4>2, Grows
    <3> QED
      BY <2>a, <3>1 DEF ListedFailed
  <2>3. ASSUME NEW m \in Methods, NEW i \in DOMAIN history', IsLastEnd(m, i)' PROVE LastTold(m, i)'
    <3>1. IsLastEnd(m, i) /\ i \in DOMAIN history
      BY <2>1, <2>3 DEF IsLastEnd, Ends
    <3>2. history'[i] = history[i] /\ LastTold(m, i)
      BY <1>0, <2>0, <3>1, Grows
    <3> QED
      BY <1>0, <2>0, <2>a, <3>1, <3>2, KeepsEnds DEF LastTold
  <2> QED
    BY <2>2, <2>3 DEF StaleOnlyByOverlap, ListedFailed, LastTold
<1>2. ASSUME NEW c \in Calls, CheckAuth(c) \/ Handle(c) PROVE StaleOnlyByOverlap'
  <2>1. UNCHANGED <<verbose, erroredMethods, history>>
    BY <1>2 DEF CheckAuth, Handle
  <2> QED
    BY <2>1 DEF IInv, StaleOnlyByOverlap, IsLastEnd, Ends, EndedDuring
<1>3. ASSUME NEW c \in Calls, CommitOutcome(c) PROVE StaleOnlyByOverlap'
  <2> DEFINE n == Len(history) + 1
  <2>0. PICK e \in Events : /\ e.call = c /\ e.what = IF failed[c] THEN "error" ELSE "ok"
                            /\ history' = Append(history, e)
    <3>1. [call |-> c, what |-> IF failed[c] THEN "error" ELSE "ok"] \in Events
      BY DEF Events
    <3> QED
      BY <1>3, <3>1 DEF CommitOutcome, Happens
  <2>a. UNCHANGED verbose /\ erroredMethods' = Updated(c) /\ failed[c] \in BOOLEAN /\ wasThere[c] \in BOOLEAN
    BY <1>0, <1>3 DEF CommitOutcome, TypeOK
  <2>b. DOMAIN history' = DOMAIN history \cup {n} /\ n \notin DOMAIN history /\ history'[n] = e
        /\ DOMAIN history = 1..Len(history) /\ Len(history) \in Nat
    BY <1>0, <2>0, Grows
  <2>c. \A m : n \in Ends(m)' <=> MethodOf[c] = m
    BY <2>0, <2>b DEF Ends
  <2>d. \A m : m \in erroredMethods' =>
           m \in erroredMethods \/ (m = MethodOf[c] /\ failed[c])
    BY <2>a DEF Updated
  <2>e. ListedFailed'
    <3>1. ASSUME NEW m \in erroredMethods' PROVE \E i \in Ends(m)' : history'[i].what = "error"
      <4>1. CASE m \in erroredMethods
        <5>1. PICK i \in Ends(m) : history[i].what = "error"
          BY <1>0, <4>1 DEF ListedFailed
        <5>2. i \in DOMAIN history
          BY DEF Ends
        <5>3. i \in Ends(m)' /\ history'[i] = history[i]
          BY <1>0, <2>0, <5>2, KeepsEnds, Grows
        <5> QED
          BY <5>1, <5>3
      <4>2. CASE m = MethodOf[c] /\ failed[c]
        BY <2>0, <2>b, <2>c, <4>2
      <4> QED
        BY <2>d, <4>1, <4>2
    <3> QED
      BY <3>1 DEF ListedFailed
  <2>f. ASSUME NEW m \in Methods, NEW i \in DOMAIN history', IsLastEnd(m, i)' PROVE LastTold(m, i)'
    <3>1. CASE m = MethodOf[c]
      <4>1. i = n
        BY <2>b, <2>c, <2>f, <3>1 DEF IsLastEnd, Ends
      <4>2. ASSUME NEW w, EndedSince(c, w) PROVE EndedDuring(i, w)'
        <5>1. PICK j \in DOMAIN history : /\ history[j].what = w
                                          /\ MethodOf[history[j].call] = MethodOf[c]
                                          /\ \E b \in 1..j : history[b] = Begin(c)
          BY <4>2 DEF EndedSince
        <5>2. PICK b \in 1..j : history[b] = Begin(c)
          BY <5>1
        <5>3. j \in 1..(n - 1) /\ b \in DOMAIN history
          BY <2>b, <5>1, <5>2
        <5>4. history'[j] = history[j] /\ history'[b] = history[b]
          BY <1>0, <2>0, <5>3, Grows
        <5> QED
          BY <2>0, <2>b, <4>1, <5>1, <5>2, <5>3, <5>4 DEF EndedDuring, Begin
      <4>3. Running(c)
        BY <1>3 DEF CommitOutcome, Running
      <4>4. ASSUME failed[c], m \notin erroredMethods' PROVE EndedDuring(i, "ok")'
        <5>1. wasThere[c] /\ MethodOf[c] \notin erroredMethods
          BY <2>a, <3>1, <4>4 DEF Updated
        <5> QED
          BY <1>0, <4>2, <4>3, <5>1 DEF ReadInv
      <4>5. ASSUME ~failed[c], m \in erroredMethods' PROVE verbose' \/ EndedDuring(i, "error")'
        <5>1. ~wasThere[c] /\ MethodOf[c] \in erroredMethods
          BY <2>a, <3>1, <4>5 DEF Updated
        <5> QED
          BY <1>0, <2>a, <4>2, <4>3, <5>1 DEF ReadInv
      <4> QED
        BY <2>0, <2>b, <4>1, <4>4, <4>5 DEF LastTold
    <3>2. CASE m # MethodOf[c]
      <4>1. i \in DOMAIN history
        BY <2>b, <2>c, <2>f, <3>2 DEF IsLastEnd
      <4>2. \A j \in Ends(m) : j \in Ends(m)'
        <5>1. \A j \in Ends(m) : j \in DOMAIN history
          BY DEF Ends
        <5> QED
          BY <1>0, <2>0, <5>1, KeepsEnds
      <4>3. IsLastEnd(m, i)
        BY <1>0, <2>0, <2>f, <4>1, <4>2, KeepsEnds DEF IsLastEnd
      <4>4. LastTold(m, i) /\ history'[i] = history[i]
        BY <1>0, <2>0, <4>1, <4>3, Grows
      <4>5. m \in erroredMethods' <=> m \in erroredMethods
        BY <2>a, <3>2 DEF Updated
      <4> QED
        BY <1>0, <2>0, <2>a, <4>1, <4>4, <4>5, KeepsEnds DEF LastTold
    <3> QED
      BY <3>1, <3>2
  <2> QED
    BY <2>e, <2>f DEF StaleOnlyByOverlap, ListedFailed, LastTold
<1>4. CASE UNCHANGED vars
  BY <1>4 DEF vars, IInv, StaleOnlyByOverlap, IsLastEnd, Ends, EndedDuring
<1> QED
  BY <1>1, <1>2, <1>3, <1>4 DEF Next, Call

-----------------------------------------------------------------------------
LEMMA StepIInv == IInv /\ [Next]_vars => IInv'
BY StepTypeOK, StepRead, StepStale DEF IInv

(* Every value stays in its range.                                          *)
THEOREM TypeCorrect == Spec => []TypeOK
<1>1. IInv => TypeOK
  BY DEF IInv
<1> QED
  BY InitIInv, StepIInv, <1>1, PTL DEF Spec

(* The list of failing methods tells how each method's last call ended, but *)
(* for calls that overlapped it, whatever their number and their order.     *)
THEOREM StaleOnlyByOverlapHolds == Spec => []StaleOnlyByOverlap
<1>1. IInv => StaleOnlyByOverlap
  BY DEF IInv
<1> QED
  BY InitIInv, StepIInv, <1>1, PTL DEF Spec
=============================================================================
