---------------------------- MODULE JobRunner_proofs ----------------------------
(***************************************************************************)
(* What the agent is given by a background job, for a script of any length *)
(* with pipes and long lines of any kind.                                  *)
(*                                                                         *)
(* The lists of a job hold what its drains have read, and the Marker only  *)
(* once no drain reads any more (Collected, which needs Settled); what the *)
(* agent has, and what is on its way to it, are cut from these lists at    *)
(* the offsets (Delivered), and lists only grow at their end.  An exit     *)
(* code of the script means that both drains had reached the end, after    *)
(* the script had (Settled): so it comes with the whole of the lists.      *)
(***************************************************************************)
EXTENDS JobRunner, SequenceTheorems, TLAPS

Upto(n) == [i \in 1 .. n |-> i]

DrainState == [pc : {"reading", "ended", "raised", "cancelled"}, read : Nat]

Settled ==
  /\ sup # "returned" => ~job.done /\ job.exit = None
  /\ sup \in {"gather", "reap"} =>
       /\ proc.pc # "dying"
       /\ proc.pc = "ended" => proc.code \in Codes
  /\ sup \in {"reap", "killWait"} \/ job.exit \in Codes \cup {TimedOut} =>
       \A x \in Streams : ~Reading(x)
  /\ sup = "reap" \/ job.exit \in Codes =>
       \A x \in Streams : drain[x].pc = "ended"
  /\ \A x \in Streams :
       /\ drain[x].read <= proc.written[x]
       /\ drain[x].pc = "ended" => proc.pc = "ended" /\ drain[x].read = proc.written[x]

Marked(x) == x = "stderr" /\ job.exit = TimedOut

Collected ==
  \A x \in Streams :
    job.lines[x] = IF Marked(x) THEN Append(Upto(drain[x].read), Marker)
                                ELSE Upto(drain[x].read)

HasAll(offset) == \A x \in Streams : offset[x] = Len(job.lines[x])

Delivered ==
  /\ \A x \in Streams :
       /\ agent.offset[x] <= Len(job.lines[x])
       /\ agent.lines[x] = SubSeq(job.lines[x], 1, agent.offset[x])
  /\ agent.exit \in Codes => job.exit = agent.exit /\ HasAll(agent.offset)
  /\ call \in Calls => call.offset = agent.offset
  /\ call \in Answers =>
       /\ \A x \in Streams :
            /\ agent.offset[x] <= call.offset[x]
            /\ call.offset[x] <= Len(job.lines[x])
            /\ call.delta[x] = SubSeq(job.lines[x], agent.offset[x] + 1, call.offset[x])
       /\ call.exit \in Codes => job.exit = call.exit /\ HasAll(call.offset)

JobInv == JobTypeOK /\ Settled /\ Collected /\ Delivered

-----------------------------------------------------------------------------
(* Sequences *)

LEMMA UptoSeq == \A n \in Nat : Upto(n) \in Seq(Nat) /\ Len(Upto(n)) = n
  BY DEF Upto

LEMMA UptoAppend == \A n \in Nat : Append(Upto(n), n + 1) = Upto(n + 1)
  <1> SUFFICES ASSUME NEW n \in Nat PROVE Append(Upto(n), n + 1) = Upto(n + 1)
    OBVIOUS
  <1> DEFINE s == Append(Upto(n), n + 1)
             t == Upto(n + 1)
  <1>1. s \in Seq(Nat) /\ Len(s) = n + 1 /\ \A i \in 1 .. n : s[i] = Upto(n)[i]
    BY UptoSeq, AppendProperties
  <1>2. s[n + 1] = n + 1
    BY UptoSeq, AppendProperties
  <1>3. t \in Seq(Nat) /\ Len(t) = n + 1
    BY UptoSeq
  <1>4. \A i \in 1 .. n + 1 : s[i] = t[i]
    BY <1>1, <1>2 DEF Upto
  <1> HIDE DEF s, t
  <1>5. s = t
    BY <1>1, <1>3, <1>4, SeqEqual
  <1> QED
    BY <1>5 DEF s, t

LEMMA UptoPrefix == \A n \in Nat : \A k \in 0 .. n : SubSeq(Upto(n), 1, k) = Upto(k)
  <1> SUFFICES ASSUME NEW n \in Nat, NEW k \in 0 .. n PROVE SubSeq(Upto(n), 1, k) = Upto(k)
    OBVIOUS
  <1>1. \A i \in 1 .. k : Upto(n)[i] = i /\ Upto(k)[i] = i
    BY DEF Upto
  <1>2. /\ SubSeq(Upto(n), 1, k) \in Seq(Nat) /\ Len(SubSeq(Upto(n), 1, k)) = k
        /\ \A i \in 1 .. k : SubSeq(Upto(n), 1, k)[i] = Upto(n)[i]
    <2>1. \A i \in 1 .. k : Upto(n)[i] \in Nat
      BY <1>1
    <2>2. k - 1 + 1 = k /\ \A i \in 1 .. k : 1 + i - 1 = i
      OBVIOUS
    <2> QED
      BY <2>1, <2>2, SubSeqProperties
  <1>3. Upto(k) \in Seq(Nat) /\ Len(Upto(k)) = k
    BY UptoSeq
  <1> QED
    BY <1>1, <1>2, <1>3, SeqEqual

\* Lists grow at their end: what was cut from one stays what it was.
LEMMA CutOfAppend ==
  ASSUME NEW s \in Seq(Nat), NEW e \in Nat, NEW m \in Nat \ {0}, NEW n \in Nat, n <= Len(s)
  PROVE  SubSeq(Append(s, e), m, n) = SubSeq(s, m, n)
  <1>1. /\ Append(s, e) \in Seq(Nat) /\ Len(s) \in Nat
        /\ \A i \in 1 .. Len(s) : Append(s, e)[i] = s[i] /\ s[i] \in Nat
    BY AppendProperties
  <1> DEFINE u == SubSeq(Append(s, e), m, n)
             v == SubSeq(s, m, n)
             k == IF m <= n THEN n - m + 1 ELSE 0
  <1>2. \A i \in m .. n : Append(s, e)[i] \in Nat /\ s[i] \in Nat
    BY <1>1
  <1>3. /\ u \in Seq(Nat) /\ Len(u) = k
        /\ \A i \in 1 .. n - m + 1 : u[i] = Append(s, e)[m + i - 1]
    BY <1>2, SubSeqProperties
  <1>4. /\ v \in Seq(Nat) /\ Len(v) = k
        /\ \A i \in 1 .. n - m + 1 : v[i] = s[m + i - 1]
    BY <1>2, SubSeqProperties
  <1>5. \A i \in 1 .. k : u[i] = v[i]
    BY <1>1, <1>3, <1>4
  <1> HIDE DEF u, v, k
  <1>6. u = v
    BY <1>3, <1>4, <1>5, SeqEqual
  <1> QED
    BY <1>6 DEF u, v

\* Two cuts that meet are one.
LEMMA CutsMeet ==
  ASSUME NEW s \in Seq(Nat), NEW m \in Nat, NEW n \in Nat, m <= n, n <= Len(s)
  PROVE  SubSeq(s, 1, m) \o SubSeq(s, m + 1, n) = SubSeq(s, 1, n)
  <1>1. /\ Len(s) \in Nat /\ 1 \in 1 .. Len(s) + 1 /\ m \in 1 - 1 .. Len(s)
        /\ n \in m .. Len(s)
    OBVIOUS
  <1> QED
    BY <1>1, ConcatAdjacentSubSeq

LEMMA CutType ==
  ASSUME NEW s \in Seq(Nat), NEW m \in Nat \ {0}, NEW n \in Nat, n <= Len(s)
  PROVE  SubSeq(s, m, n) \in Seq(Nat)
  <1>1. Len(s) \in Nat /\ \A i \in m .. n : s[i] \in Nat
    OBVIOUS
  <1> QED
    BY <1>1, SubSeqProperties

-----------------------------------------------------------------------------
(* Types *)

LEMMA InitType == JobInit => JobTypeOK
  <1> SUFFICES ASSUME JobInit PROVE JobTypeOK
    OBVIOUS
  <1> USE DEF JobInit
  <1>1. <<>> \in Seq(Nat) /\ None \in Perhaps
    BY EmptySeq DEF Perhaps
  <1>2. [x \in Streams |-> <<>>] \in [Streams -> Seq(Nat)]
    BY <1>1
  <1>3. [x \in Streams |-> 0] \in [Streams -> Nat]
    OBVIOUS
  <1>4. proc \in [pc : {"running", "dying", "ended"}, code : Codes \cup {TimedOut},
                 written : [Streams -> Nat]]
    BY <1>3
  <1>5. drain \in [Streams -> DrainState]
    BY DEF DrainState
  <1>6. job \in [lines : [Streams -> Seq(Nat)], exit : Perhaps, done : BOOLEAN]
    BY <1>1, <1>2
  <1>7. agent \in [status : {"running", "done"}, exit : Perhaps,
                  lines : [Streams -> Seq(Nat)], offset : [Streams -> Nat]]
    BY <1>1, <1>2, <1>3
  <1>8. child \in BOOLEAN /\ sup \in {"gather", "reap", "killWait", "returned"} /\ call = NoCall
    OBVIOUS
  <1> QED
    BY <1>4, <1>5, <1>6, <1>7, <1>8 DEF JobTypeOK, DrainState

\* A step of one drain.
LEMMA OneDrain ==
  ASSUME JobTypeOK, NEW x \in Streams, NEW y \in DrainState, drain' = [drain EXCEPT ![x] = y]
  PROVE  drain' \in [Streams -> DrainState]
  BY DEF JobTypeOK, DrainState

LEMMA ReadMore ==
  ASSUME NEW d \in DrainState
  PROVE  /\ [d EXCEPT !.read = @ + 1] \in DrainState
         /\ [d EXCEPT !.read = @ + 1] = [pc |-> d.pc, read |-> d.read + 1]
  <1>1. d.read \in Nat /\ d.pc \in {"reading", "ended", "raised", "cancelled"}
    BY DEF DrainState
  <1>2. d.read + 1 \in Nat
    BY <1>1
  <1>3. [d EXCEPT !.read = @ + 1] = [pc |-> d.pc, read |-> d.read + 1]
    BY DEF DrainState
  <1> QED
    BY <1>1, <1>2, <1>3 DEF DrainState

LEMMA AllDrains == JobTypeOK /\ CancelDrains => drain' \in [Streams -> DrainState]
  <1> SUFFICES ASSUME JobTypeOK, CancelDrains PROVE drain' \in [Streams -> DrainState]
    OBVIOUS
  <1>1. ASSUME NEW x \in Streams
        PROVE  (IF Reading(x) THEN [drain[x] EXCEPT !.pc = "cancelled"] ELSE drain[x])
                 \in DrainState
    <2>1. drain[x] \in DrainState
      BY DEF JobTypeOK, DrainState
    <2>2. [drain[x] EXCEPT !.pc = "cancelled"] \in DrainState
      BY <2>1 DEF DrainState
    <2> QED
      BY <2>1, <2>2
  <1> QED
    BY <1>1 DEF CancelDrains

LEMMA NextType == JobTypeOK /\ [JobNext]_jobVars => JobTypeOK'
  <1> SUFFICES ASSUME JobTypeOK, [JobNext]_jobVars PROVE JobTypeOK'
    OBVIOUS
  <1> USE DEF JobTypeOK
  <1>1. CASE Script
    <2>1. ASSUME NEW x \in Streams, WriteLine(x) PROVE JobTypeOK'
      <3>1. [proc.written EXCEPT ![x] = @ + 1] \in [Streams -> Nat]
        OBVIOUS
      <3>2. proc' = [proc EXCEPT !.written = [proc.written EXCEPT ![x] = @ + 1]]
        BY <2>1 DEF WriteLine
      <3> QED
        BY <2>1, <3>1, <3>2 DEF WriteLine
    <2>2. ASSUME NEW code \in Codes, Exit(code) PROVE JobTypeOK'
      BY <2>2 DEF Exit
    <2>3. CASE StartChild \/ EndChild
      BY <2>3 DEF StartChild, EndChild
    <2> QED
      BY <1>1, <2>1, <2>2, <2>3 DEF Script
  <1>2. CASE Die
    BY <1>2 DEF Die
  <1>3. ASSUME NEW x \in Streams, DrainStep(x) PROVE JobTypeOK'
    <2>1. CASE ReadLine(x)
      <3>1. job.lines[x] \in Seq(Nat) /\ drain[x].read + 1 \in Nat
        OBVIOUS
      <3>2. Append(job.lines[x], NextLine(x)) \in Seq(Nat)
        BY <3>1, AppendProperties DEF NextLine
      <3>3. /\ drain' = [drain EXCEPT ![x].read = @ + 1]
            /\ job' = [job EXCEPT !.lines[x] = Append(@, NextLine(x))]
            /\ UNCHANGED <<processVars, sup, call, agent>>
        BY <2>1 DEF ReadLine
      <3>6. [drain[x] EXCEPT !.read = @ + 1] \in DrainState
        <4>1. drain[x] \in DrainState
          BY DEF DrainState
        <4> QED
          BY <4>1, ReadMore
      <3>4. drain' \in [Streams -> DrainState]
        BY <3>3, <3>6, OneDrain
      <3>5. job' \in [lines : [Streams -> Seq(Nat)], exit : Perhaps, done : BOOLEAN]
        BY <3>2, <3>3
      <3> QED
        BY <3>3, <3>4, <3>5 DEF processVars, DrainState
    <2>2. CASE ReadLong(x) \/ ReadEof(x)
      <3>1. PICK pc \in {"raised", "ended"} : drain' = [drain EXCEPT ![x].pc = pc]
        BY <2>2 DEF ReadLong, ReadEof
      <3>2. drain[x] \in DrainState
        BY DEF DrainState
      <3>3. [drain[x] EXCEPT !.pc = pc] \in DrainState
        BY <3>2 DEF DrainState
      <3>4. drain' \in [Streams -> DrainState]
        BY <3>1, <3>3, OneDrain
      <3> QED
        BY <2>2, <3>4 DEF ReadLong, ReadEof, processVars, DrainState
    <2> QED
      BY <1>3, <2>1, <2>2 DEF DrainStep
  <1>4. CASE Supervise
    <2>1. CASE Drained
      BY <2>1 DEF Drained, processVars
    <2>2. CASE Reap
      BY <2>2 DEF Reap, Finish, processVars, Perhaps
    <2>3. CASE DrainRaised
      BY <2>3 DEF DrainRaised, Finish, processVars, Perhaps
    <2>4. CASE Timeout
      <3>1. drain' \in [Streams -> DrainState]
        BY <2>4, AllDrains DEF Timeout
      <3> QED
        BY <2>4, <3>1 DEF Timeout, DrainState
    <2>5. CASE KillRaises
      <3>1. drain' \in [Streams -> DrainState]
        BY <2>5, AllDrains DEF KillRaises
      <3> QED
        BY <2>5, <3>1 DEF KillRaises, Finish, processVars, Perhaps, DrainState
    <2>6. CASE GiveUp
      <3>1. Append(job.lines["stderr"], Marker) \in Seq(Nat)
        BY AppendProperties DEF Marker, Streams
      <3>2. [job.lines EXCEPT !["stderr"] = Append(@, Marker)] \in [Streams -> Seq(Nat)]
        BY <3>1
      <3> QED
        BY <2>6, <3>2 DEF GiveUp, Finish, processVars, Perhaps
    <2> QED
      BY <1>4, <2>1, <2>2, <2>3, <2>4, <2>5, <2>6 DEF Supervise
  <1>5. CASE Ask
    BY <1>5 DEF Ask, Calls, processVars
  <1>6. CASE Answer
    <2>1. call \in Calls
      BY <1>6 DEF Answer, AnswerWith, Calls, Answers, NoCall
    <2>2. \A x \in Streams :
            /\ Len(job.lines[x]) \in Nat
            /\ SubSeq(job.lines[x], call.offset[x] + 1, Len(job.lines[x])) \in Seq(Nat)
      <3> SUFFICES ASSUME NEW x \in Streams
                   PROVE  /\ Len(job.lines[x]) \in Nat
                          /\ SubSeq(job.lines[x], call.offset[x] + 1, Len(job.lines[x])) \in Seq(Nat)
        OBVIOUS
      <3>1. /\ job.lines[x] \in Seq(Nat) /\ call.offset[x] + 1 \in Nat \ {0}
            /\ Len(job.lines[x]) \in Nat /\ Len(job.lines[x]) <= Len(job.lines[x])
        BY <2>1 DEF Calls
      <3> QED
        BY <3>1, CutType
    <2>3. call' \in Answers
      BY <1>6, <2>2 DEF Answer, AnswerWith, Answers
    <2> QED
      BY <1>6, <2>3 DEF Answer, AnswerWith, processVars
  <1>7. CASE Receive
    <2>1. call \in Answers
      BY <1>7 DEF Receive, Calls, Answers, NoCall
    <2>2. \A x \in Streams : agent.lines[x] \o call.delta[x] \in Seq(Nat)
      BY <2>1, ConcatProperties DEF Answers
    <2> QED
      BY <1>7, <2>1, <2>2 DEF Receive, Answers, processVars
  <1>8. CASE Lose
    BY <1>8 DEF Lose, processVars
  <1>9. CASE UNCHANGED jobVars
    BY <1>9 DEF jobVars, processVars
  <1> QED
    BY <1>1, <1>2, <1>3, <1>4, <1>5, <1>6, <1>7, <1>8, <1>9 DEF JobNext

-----------------------------------------------------------------------------
(* What each thread of control knows *)

LEMMA InitInv == JobInit => JobInv
  <1> SUFFICES ASSUME JobInit PROVE JobInv
    OBVIOUS
  <1>1. JobTypeOK
    BY InitType
  <1>2. Settled
    BY JobAssumptions DEF JobInit, Settled, Reading, Codes
  <1>3. Upto(0) = <<>> /\ SubSeq(<<>>, 1, 0) = <<>> /\ Len(<<>>) = 0
    <2>1. Upto(0) = <<>>
      BY UptoSeq, EmptySeq
    <2> QED
      BY <2>1, UptoPrefix
  <1>4. Collected
    BY <1>3, JobAssumptions DEF JobInit, Collected, Marked
  <1>5. Delivered
    BY <1>3, JobAssumptions DEF JobInit, Delivered, NoCall, Calls, Answers
  <1> QED
    BY <1>1, <1>2, <1>4, <1>5 DEF JobInv

LEMMA NextSettled == JobTypeOK /\ Settled /\ [JobNext]_jobVars => Settled'
  <1> SUFFICES ASSUME JobTypeOK, Settled, [JobNext]_jobVars PROVE Settled'
    OBVIOUS
  <1> USE DEF Settled, Reading
  <1>0. /\ drain \in [Streams -> DrainState]
        /\ \A x \in Streams : proc.written[x] \in Nat /\ drain[x].read \in Nat
        /\ proc \in [pc : {"running", "dying", "ended"}, code : Codes \cup {TimedOut},
                     written : [Streams -> Nat]]
        /\ job \in [lines : [Streams -> Seq(Nat)], exit : Perhaps, done : BOOLEAN]
    BY DEF JobTypeOK, DrainState
  <1>1. CASE Script
    <2>1. ASSUME NEW x \in Streams, WriteLine(x) PROVE Settled'
      <3>1. /\ proc.pc = "running" /\ proc'.pc = "running"
            /\ proc'.written = [proc.written EXCEPT ![x] = @ + 1]
            /\ UNCHANGED <<drain, sup, job>>
        BY <1>0, <2>1 DEF WriteLine
      <3> QED
        BY <1>0, <3>1
    <2>2. ASSUME NEW code \in Codes, Exit(code) PROVE Settled'
      <3>1. /\ proc.pc = "running" /\ proc'.pc = "ended" /\ proc'.code = code
            /\ proc'.written = proc.written /\ UNCHANGED <<drain, sup, job>>
        BY <1>0, <2>2 DEF Exit
      <3> QED
        BY <1>0, <3>1
    <2>3. CASE StartChild \/ EndChild
      BY <2>3 DEF StartChild, EndChild
    <2> QED
      BY <1>1, <2>1, <2>2, <2>3 DEF Script
  <1>2. CASE Die
    <2>1. /\ proc.pc = "dying" /\ proc'.pc = "ended" /\ proc'.written = proc.written
          /\ UNCHANGED <<drain, sup, job>>
      BY <1>0, <1>2 DEF Die
    <2> QED
      BY <1>0, <2>1
  <1>3. ASSUME NEW x \in Streams, DrainStep(x) PROVE Settled'
    <2>1. Reading(x) /\ UNCHANGED <<proc, sup>>
      BY <1>3 DEF DrainStep, ReadLine, ReadLong, ReadEof, processVars
    <2>2. CASE ReadLine(x)
      <3>1. /\ job'.exit = job.exit /\ job'.done = job.done
            /\ drain[x].read + 1 <= proc.written[x]
        BY <1>0, <2>2 DEF ReadLine, Waiting, NextLine
      <3>2. /\ drain'[x] = [drain[x] EXCEPT !.read = @ + 1]
            /\ \A y \in Streams \ {x} : drain'[y] = drain[y]
        BY <1>0, <2>2 DEF ReadLine
      <3>3. /\ drain'[x].pc = "reading" /\ drain'[x].read = drain[x].read + 1
        <4>1. drain[x] \in DrainState
          BY <1>0
        <4>2. drain'[x] = [pc |-> drain[x].pc, read |-> drain[x].read + 1]
          BY <3>2, <4>1, ReadMore
        <4> QED
          BY <2>1, <4>2
      <3>4. /\ sup \notin {"reap", "killWait"} /\ job.exit \notin Codes \cup {TimedOut}
            /\ drain[x].pc = "reading"
        BY <2>1
      <3>5. \A y \in Streams :
              /\ drain'[y].pc = drain[y].pc
              /\ drain'[y].read <= proc.written[y]
              /\ drain'[y].pc = "ended" => drain'[y].read = drain[y].read
        <4> TAKE y \in Streams
        <4>1. CASE y = x
          BY <1>0, <3>1, <3>3, <3>4, <4>1
        <4>2. CASE y # x
          BY <1>0, <3>2, <4>2
        <4> QED
          BY <4>1, <4>2
      <3> QED
        BY <1>0, <2>1, <3>1, <3>4, <3>5
    <2>3. CASE ReadLong(x)
      <3>1. /\ drain'[x].pc = "raised" /\ drain'[x].read = drain[x].read
            /\ \A y \in Streams \ {x} : drain'[y] = drain[y]
            /\ job' = job
        BY <1>0, <2>3 DEF ReadLong, DrainState
      <3> QED
        BY <1>0, <2>1, <3>1
    <2>4. CASE ReadEof(x)
      <3>1. /\ drain'[x].pc = "ended" /\ drain'[x].read = drain[x].read
            /\ \A y \in Streams \ {x} : drain'[y] = drain[y]
            /\ job' = job
        BY <1>0, <2>4 DEF ReadEof, DrainState
      <3>2. proc.pc = "ended" /\ drain[x].read = proc.written[x]
        BY <1>0, <2>4 DEF ReadEof, AtEof, Waiting, NextLine
      <3> QED
        BY <1>0, <2>1, <3>1, <3>2
    <2> QED
      BY <1>3, <2>2, <2>3, <2>4 DEF DrainStep
  <1>4. CASE Supervise
    <2>0. CancelDrains =>
            \A x \in Streams :
              /\ drain'[x].pc # "reading" /\ drain'[x].read = drain[x].read
              /\ drain'[x].pc = "ended" => drain[x].pc = "ended"
      BY <1>0 DEF CancelDrains, DrainState
    <2>1. CASE Drained
      BY <1>0, <2>1 DEF Drained, processVars
    <2>2. CASE Reap
      <3>1. /\ job'.exit = proc.code /\ proc.code \in Codes /\ sup' = "returned"
            /\ UNCHANGED <<proc, drain>>
        BY <2>2 DEF Reap, Finish, processVars
      <3> QED
        BY <1>0, <2>2, <3>1 DEF Reap
    <2>3. CASE DrainRaised
      <3>1. job'.exit = None /\ sup' = "returned" /\ UNCHANGED <<proc, drain>>
        BY <2>3 DEF DrainRaised, Finish, processVars
      <3> QED
        BY <1>0, <3>1, JobAssumptions
    <2>4. CASE Timeout
      <3>1. /\ sup = "gather" /\ sup' = "killWait" /\ job' = job
            /\ proc'.written = proc.written
            /\ proc.pc = "ended" => proc' = proc
        BY <1>0, <2>4 DEF Timeout, Undrained
      <3>2. job.exit = None /\ ~job.done
        BY <3>1
      <3> QED
        BY <1>0, <2>0, <2>4, <3>1, <3>2, JobAssumptions DEF Timeout
    <2>5. CASE KillRaises
      <3>1. job'.exit = None /\ sup' = "returned" /\ UNCHANGED proc
        BY <2>5 DEF KillRaises, Finish, processVars
      <3> QED
        BY <1>0, <2>0, <2>5, <3>1, JobAssumptions DEF KillRaises
    <2>6. CASE GiveUp
      <3>1. /\ job'.exit = TimedOut /\ sup = "killWait" /\ sup' = "returned"
            /\ UNCHANGED <<proc, drain>>
        BY <2>6 DEF GiveUp, Finish, processVars
      <3> QED
        BY <1>0, <3>1 DEF TimedOut, Codes
    <2> QED
      BY <1>4, <2>1, <2>2, <2>3, <2>4, <2>5, <2>6 DEF Supervise
  <1>5. CASE Ask \/ Answer \/ Receive \/ Lose \/ UNCHANGED jobVars
    <2>1. UNCHANGED <<proc, drain, sup, job>>
      BY <1>5 DEF Ask, Answer, AnswerWith, Receive, Lose, jobVars, processVars
    <2> QED
      BY <2>1
  <1> QED
    BY <1>1, <1>2, <1>3, <1>4, <1>5 DEF JobNext

-----------------------------------------------------------------------------
(* The lists *)

LEMMA NextCollected ==
  JobTypeOK /\ Settled /\ Collected /\ [JobNext]_jobVars => Collected'
  <1> SUFFICES ASSUME JobTypeOK, Settled, Collected, [JobNext]_jobVars PROVE Collected'
    OBVIOUS
  <1>0. /\ drain \in [Streams -> DrainState]
        /\ \A x \in Streams : drain[x].read \in Nat
        /\ job \in [lines : [Streams -> Seq(Nat)], exit : Perhaps, done : BOOLEAN]
    BY DEF JobTypeOK, DrainState
  <1>1. CASE UNCHANGED job /\ \A x \in Streams : drain'[x].read = drain[x].read
    BY <1>1 DEF Collected, Marked
  <1>2. ASSUME NEW x \in Streams, ReadLine(x) PROVE Collected'
    <2>1. Reading(x) /\ job.exit # TimedOut
      BY <1>2 DEF ReadLine, Settled
    <2>2. /\ drain'[x].read = drain[x].read + 1
          /\ \A y \in Streams \ {x} : drain'[y] = drain[y]
      BY <1>0, <1>2 DEF ReadLine, DrainState
    <2>3. /\ job'.exit = job.exit
          /\ job'.lines[x] = Append(job.lines[x], drain[x].read + 1)
          /\ \A y \in Streams \ {x} : job'.lines[y] = job.lines[y]
      BY <1>0, <1>2 DEF ReadLine, NextLine
    <2>4. Append(Upto(drain[x].read), drain[x].read + 1) = Upto(drain[x].read + 1)
      BY <1>0, UptoAppend
    <2> QED
      BY <2>1, <2>2, <2>3, <2>4 DEF Collected, Marked
  <1>3. CASE Reap \/ DrainRaised \/ KillRaises
    <2>1. sup # "returned" /\ job.exit # TimedOut
      <3>1. sup # "returned"
        BY <1>3 DEF Reap, DrainRaised, KillRaises, Undrained
      <3> QED
        BY <3>1, JobAssumptions DEF Settled
    <2>2. job'.exit # TimedOut
      BY <1>3, JobAssumptions
      DEF Reap, DrainRaised, KillRaises, Finish, Settled, Codes, TimedOut
    <2>3. job'.lines = job.lines /\ \A x \in Streams : drain'[x].read = drain[x].read
      <3>1. CancelDrains \/ drain' = drain
        BY <1>3 DEF Reap, DrainRaised, KillRaises
      <3>2. CancelDrains => \A x \in Streams : drain'[x].read = drain[x].read
        BY <1>0 DEF CancelDrains, DrainState
      <3>3. job'.lines = job.lines
        BY <1>3 DEF Reap, DrainRaised, KillRaises, Finish
      <3> QED
        BY <3>1, <3>2, <3>3
    <2> QED
      BY <2>1, <2>2, <2>3 DEF Collected, Marked
  <1>4. CASE GiveUp
    <2>1. job.exit # TimedOut
      BY <1>4, JobAssumptions DEF GiveUp, Settled
    <2>2. /\ job'.exit = TimedOut /\ UNCHANGED drain
          /\ job'.lines = [job.lines EXCEPT !["stderr"] = Append(@, Marker)]
      BY <1>4 DEF GiveUp, Finish
    <2>3. /\ job'.lines["stderr"] = Append(job.lines["stderr"], Marker)
          /\ job'.lines["stdout"] = job.lines["stdout"]
      BY <1>0, <2>2 DEF Streams
    <2> QED
      BY <2>1, <2>2, <2>3 DEF Collected, Marked, Streams
  <1>5. CASE Timeout
    <2>1. UNCHANGED job /\ \A x \in Streams : drain'[x].read = drain[x].read
      BY <1>0, <1>5 DEF Timeout, CancelDrains, DrainState
    <2> QED
      BY <1>1, <2>1
  <1>6. ASSUME NEW x \in Streams, ReadLong(x) \/ ReadEof(x) PROVE Collected'
    <2>1. UNCHANGED job /\ \A y \in Streams : drain'[y].read = drain[y].read
      <3>1. PICK pc \in {"raised", "ended"} : drain' = [drain EXCEPT ![x].pc = pc]
        BY <1>6 DEF ReadLong, ReadEof
      <3>2. \A y \in Streams : drain'[y].read = drain[y].read
        BY <1>0, <3>1 DEF DrainState
      <3> QED
        BY <1>6, <3>2 DEF ReadLong, ReadEof
    <2> QED
      BY <1>1, <2>1
  <1>7. CASE Script \/ Die \/ Drained \/ Ask \/ Answer \/ Receive \/ Lose \/ UNCHANGED jobVars
    <2>1. UNCHANGED <<job, drain>>
      BY Zenon, <1>7 DEF Script, WriteLine, Exit, StartChild, EndChild, Die, Drained, Ask, Answer,
                  AnswerWith, Receive, Lose, jobVars
    <2> QED
      BY <1>1, <2>1
  <1> QED
    BY <1>2, <1>3, <1>4, <1>5, <1>6, <1>7 DEF JobNext, Supervise, DrainStep

\* A list changes at its end, and not at all once the exit code is the script's.
Grown ==
  /\ job.exit \in Codes => job' = job
  /\ \A x \in Streams :
       job'.lines[x] = job.lines[x] \/ \E e \in Nat : job'.lines[x] = Append(job.lines[x], e)

LEMMA NextGrown == JobTypeOK /\ Settled /\ [JobNext]_jobVars => Grown
  <1> SUFFICES ASSUME JobTypeOK, Settled, [JobNext]_jobVars PROVE Grown
    OBVIOUS
  <1>0. /\ \A x \in Streams : drain[x].read \in Nat
        /\ job \in [lines : [Streams -> Seq(Nat)], exit : Perhaps, done : BOOLEAN]
    BY DEF JobTypeOK
  <1>1. CASE UNCHANGED job
    BY <1>1 DEF Grown
  <1>2. ASSUME NEW x \in Streams, ReadLine(x) PROVE Grown
    <2>1. job.exit \notin Codes
      BY <1>2 DEF ReadLine, Settled
    <2>2. /\ job'.lines[x] = Append(job.lines[x], drain[x].read + 1)
          /\ \A y \in Streams \ {x} : job'.lines[y] = job.lines[y]
          /\ drain[x].read + 1 \in Nat
      BY <1>0, <1>2 DEF ReadLine, NextLine
    <2> QED
      BY <2>1, <2>2 DEF Grown
  <1>3. CASE Reap \/ DrainRaised \/ KillRaises \/ GiveUp
    <2>1. job.exit \notin Codes
      <3>1. sup # "returned"
        BY <1>3 DEF Reap, DrainRaised, KillRaises, Undrained, GiveUp
      <3> QED
        BY <3>1, JobAssumptions DEF Settled
    <2>2. CASE GiveUp
      <3>1. job'.lines = [job.lines EXCEPT !["stderr"] = Append(@, Marker)]
        BY <2>2 DEF GiveUp, Finish
      <3>2. /\ job'.lines["stderr"] = Append(job.lines["stderr"], Marker) /\ Marker \in Nat
            /\ job'.lines["stdout"] = job.lines["stdout"]
        BY <1>0, <3>1 DEF Streams, Marker
      <3> QED
        BY <2>1, <3>2 DEF Grown, Streams
    <2>3. CASE Reap \/ DrainRaised \/ KillRaises
      <3>1. job'.lines = job.lines
        BY <2>3 DEF Reap, DrainRaised, KillRaises, Finish
      <3> QED
        BY <2>1, <3>1 DEF Grown
    <2> QED
      BY <1>3, <2>2, <2>3
  <1>4. CASE (\E x \in Streams : ReadLong(x) \/ ReadEof(x)) \/ Script \/ Die \/ Drained
              \/ Timeout \/ Ask \/ Answer \/ Receive \/ Lose \/ UNCHANGED jobVars
    <2>1. UNCHANGED job
      BY Zenon, <1>4 DEF ReadLong, ReadEof, Script, WriteLine, Exit, StartChild, EndChild, Die,
                  Drained, Timeout, Ask, Answer, AnswerWith, Receive, Lose, jobVars
    <2> QED
      BY <1>1, <2>1
  <1> QED
    BY <1>2, <1>3, <1>4 DEF JobNext, Supervise, DrainStep

\* What was cut from a list is still a cut of it.
LEMMA CutStays ==
  ASSUME JobTypeOK, Grown, NEW x \in Streams, NEW m \in Nat \ {0}, NEW n \in Nat,
         n <= Len(job.lines[x])
  PROVE  /\ n <= Len(job'.lines[x])
         /\ SubSeq(job'.lines[x], m, n) = SubSeq(job.lines[x], m, n)
  <1>1. job.lines[x] \in Seq(Nat) /\ Len(job.lines[x]) \in Nat
    BY DEF JobTypeOK
  <1>2. CASE job'.lines[x] = job.lines[x]
    BY <1>2
  <1>3. ASSUME NEW e \in Nat, job'.lines[x] = Append(job.lines[x], e)
        PROVE  /\ n <= Len(job'.lines[x])
               /\ SubSeq(job'.lines[x], m, n) = SubSeq(job.lines[x], m, n)
    <2>1. Len(job'.lines[x]) = Len(job.lines[x]) + 1
      BY <1>1, <1>3, AppendProperties
    <2> QED
      BY <1>1, <1>3, <2>1, CutOfAppend
  <1> QED
    BY <1>2, <1>3 DEF Grown

-----------------------------------------------------------------------------
(* What the agent has *)

LEMMA NextDelivered ==
  JobTypeOK /\ Settled /\ Delivered /\ [JobNext]_jobVars => Delivered'
  <1> SUFFICES ASSUME JobTypeOK, Settled, Delivered, [JobNext]_jobVars PROVE Delivered'
    OBVIOUS
  <1>0. /\ \A x \in Streams : agent.offset[x] \in Nat /\ job.lines[x] \in Seq(Nat)
        /\ \A x \in Streams : Len(job.lines[x]) \in Nat
        /\ call \in Calls \cup Answers \cup {NoCall}
    BY DEF JobTypeOK
  <1>1. CASE UNCHANGED <<call, agent>>
    <2>1. Grown
      BY NextGrown
    <2>2. ASSUME NEW x \in Streams
          PROVE  /\ agent.offset[x] <= Len(job'.lines[x])
                 /\ agent.lines[x] = SubSeq(job'.lines[x], 1, agent.offset[x])
      <3>1. agent.offset[x] <= Len(job.lines[x]) /\ 1 \in Nat \ {0} /\ agent.offset[x] \in Nat
        BY <1>0 DEF Delivered
      <3>2. /\ agent.offset[x] <= Len(job'.lines[x])
            /\ SubSeq(job'.lines[x], 1, agent.offset[x])
                 = SubSeq(job.lines[x], 1, agent.offset[x])
        BY <2>1, <3>1, CutStays
      <3> QED
        BY <3>2 DEF Delivered
    <2>3. agent.exit \in Codes => job'.exit = agent.exit /\ HasAll(agent.offset)'
      BY <1>1, <2>1 DEF Delivered, Grown, HasAll
    <2>4. call \in Calls => call.offset = agent.offset
      BY DEF Delivered
    <2>5. ASSUME call \in Answers, NEW x \in Streams
          PROVE  /\ agent.offset[x] <= call.offset[x]
                 /\ call.offset[x] <= Len(job'.lines[x])
                 /\ call.delta[x] = SubSeq(job'.lines[x], agent.offset[x] + 1, call.offset[x])
      <3>1. /\ call.offset[x] <= Len(job.lines[x]) /\ call.offset[x] \in Nat
            /\ agent.offset[x] + 1 \in Nat \ {0}
        BY <1>0, <2>5 DEF Delivered, Answers
      <3>2. /\ call.offset[x] <= Len(job'.lines[x])
            /\ SubSeq(job'.lines[x], agent.offset[x] + 1, call.offset[x])
                 = SubSeq(job.lines[x], agent.offset[x] + 1, call.offset[x])
        BY <2>1, <3>1, CutStays
      <3> QED
        BY <2>5, <3>2 DEF Delivered
    <2>6. call \in Answers /\ call.exit \in Codes =>
            job'.exit = call.exit /\ HasAll(call.offset)'
      BY <1>1, <2>1 DEF Delivered, Grown, HasAll
    <2> QED
      BY <1>1, <2>2, <2>3, <2>4, <2>5, <2>6 DEF Delivered
  <1>2. CASE Ask
    <2>1. /\ call' = [pc |-> "asked", offset |-> agent.offset]
          /\ UNCHANGED <<job, agent>>
      BY <1>2 DEF Ask
    <2>2. call'.pc # "answered" /\ call'.offset = agent.offset
      BY <2>1
    <2> QED
      BY <2>1, <2>2 DEF Delivered, Answers, HasAll
  <1>3. CASE Answer
    <2>1. call \in Calls
      BY <1>0, <1>3 DEF Answer, AnswerWith, Answers, NoCall
    <2>2. /\ call'.pc = "answered" /\ call'.exit = job.exit
          /\ call'.delta = [x \in Streams |->
               SubSeq(job.lines[x], call.offset[x] + 1, Len(job.lines[x]))]
          /\ call'.offset = [x \in Streams |-> Len(job.lines[x])]
          /\ UNCHANGED <<job, agent>>
      BY <1>3 DEF Answer, AnswerWith
    <2>3. call.offset = agent.offset
      BY <2>1 DEF Delivered
    <2>4. ASSUME NEW x \in Streams
          PROVE  /\ agent.offset[x] <= call'.offset[x]
                 /\ call'.offset[x] <= Len(job.lines[x])
                 /\ call'.delta[x] = SubSeq(job.lines[x], agent.offset[x] + 1, call'.offset[x])
      <3>1. agent.offset[x] <= Len(job.lines[x]) /\ Len(job.lines[x]) <= Len(job.lines[x])
        BY <1>0 DEF Delivered
      <3>2. /\ call'.offset[x] = Len(job.lines[x])
            /\ call'.delta[x]
                 = SubSeq(job.lines[x], agent.offset[x] + 1, Len(job.lines[x]))
        BY <2>2, <2>3
      <3> QED
        BY <3>1, <3>2
    <2>5. HasAll(call'.offset)
      BY <2>2 DEF HasAll
    <2>6. call' \notin Calls
      BY <2>2 DEF Calls
    <2> QED
      BY <2>2, <2>4, <2>5, <2>6 DEF Delivered, HasAll
  <1>4. CASE Receive
    <2>1. call \in Answers
      BY <1>0, <1>4 DEF Receive, Calls, NoCall
    <2>2. /\ agent'.exit = call.exit /\ agent'.offset = call.offset
          /\ agent'.lines = [x \in Streams |-> agent.lines[x] \o call.delta[x]]
          /\ call' = NoCall /\ UNCHANGED job
      BY <1>4 DEF Receive
    <2>3. ASSUME NEW x \in Streams
          PROVE  /\ call.offset[x] <= Len(job.lines[x])
                 /\ agent'.lines[x] = SubSeq(job.lines[x], 1, call.offset[x])
      <3>1. /\ agent.offset[x] <= call.offset[x] /\ call.offset[x] <= Len(job.lines[x])
            /\ call.offset[x] \in Nat
        BY <2>1 DEF Delivered, Answers
      <3>2. agent'.lines[x] = SubSeq(job.lines[x], 1, agent.offset[x])
                                \o SubSeq(job.lines[x], agent.offset[x] + 1, call.offset[x])
        BY <2>1, <2>2 DEF Delivered
      <3> QED
        BY <1>0, <3>1, <3>2, CutsMeet
    <2>4. call.exit \in Codes => job.exit = call.exit /\ HasAll(call.offset)
      BY <2>1 DEF Delivered
    <2>5. call' \notin Calls \cup Answers
      BY <2>2 DEF Calls, Answers, NoCall
    <2> QED
      BY <2>2, <2>3, <2>4, <2>5 DEF Delivered, HasAll
  <1>5. CASE Lose
    <2>1. call' \notin Calls \cup Answers /\ UNCHANGED <<job, agent>>
      BY <1>5 DEF Lose, Calls, Answers, NoCall
    <2> QED
      BY <2>1 DEF Delivered, HasAll
  <1>6. CASE Script \/ Die \/ Supervise \/ (\E x \in Streams : DrainStep(x)) \/ UNCHANGED jobVars
    <2>1. UNCHANGED <<call, agent>>
      BY Zenon, <1>6 DEF Script, WriteLine, Exit, StartChild, EndChild, Die, Supervise,
         Drained, Reap,
                  DrainRaised, Timeout, KillRaises, GiveUp, DrainStep, ReadLine, ReadLong,
                  ReadEof, jobVars
    <2> QED
      BY <1>1, <2>1
  <1> QED
    BY <1>2, <1>3, <1>4, <1>5, <1>6 DEF JobNext

\* The list of a stream and what the agent has of it.
LEMMA AgentLines ==
  ASSUME JobInv, NEW x \in Streams
  PROVE  \/ /\ agent.offset[x] <= drain[x].read
            /\ agent.lines[x] = Upto(agent.offset[x])
         \/ Marked(x) /\ agent.lines[x] = Append(Upto(drain[x].read), Marker)
  <1> DEFINE r == drain[x].read
             o == agent.offset[x]
  <1>0. /\ r \in Nat /\ o \in Nat /\ job.lines[x] \in Seq(Nat)
        /\ o <= Len(job.lines[x]) /\ agent.lines[x] = SubSeq(job.lines[x], 1, o)
    BY DEF JobInv, JobTypeOK, Delivered
  <1> HIDE DEF r, o
  <1>1. Upto(r) \in Seq(Nat) /\ Len(Upto(r)) = r
    BY <1>0, UptoSeq
  <1>2. CASE ~Marked(x)
    <2>1. job.lines[x] = Upto(r)
      BY <1>2 DEF JobInv, Collected, r
    <2>2. o \in 0 .. r
      BY <1>0, <1>1, <2>1
    <2>3. SubSeq(Upto(r), 1, o) = Upto(o)
      BY <1>0, <2>2, UptoPrefix
    <2> QED
      BY <1>0, <2>1, <2>2, <2>3 DEF r, o
  <1>3. CASE Marked(x)
    <2>1. job.lines[x] = Append(Upto(r), Marker) /\ Marker \in Nat
      BY <1>3 DEF JobInv, Collected, Marker, r
    <2>2. Len(job.lines[x]) = r + 1
      BY <1>1, <2>1, AppendProperties
    <2>3. CASE o <= r
      <3>1. SubSeq(Append(Upto(r), Marker), 1, o) = SubSeq(Upto(r), 1, o)
        BY <1>0, <1>1, <2>1, <2>3, CutOfAppend
      <3>2. SubSeq(Upto(r), 1, o) = Upto(o)
        BY <1>0, <2>3, UptoPrefix
      <3> QED
        BY <1>0, <2>1, <2>3, <3>1, <3>2 DEF r, o
    <2>4. CASE o = r + 1
      <3>1. SubSeq(job.lines[x], 1, Len(job.lines[x])) = job.lines[x]
        BY <1>0, SubSeqFull
      <3>2. agent.lines[x] = job.lines[x]
        BY <1>0, <2>2, <2>4, <3>1
      <3> QED
        BY <1>3, <2>1, <3>2 DEF r
    <2>5. o <= r + 1
      BY <1>0, <2>2
    <2>6. o <= r \/ o = r + 1
      BY <1>0, <2>5
    <2> QED
      BY <2>3, <2>4, <2>6
  <1> QED
    BY <1>2, <1>3

LEMMA UptoIsPrefix == \A n \in Nat : \A k \in 0 .. n : IsPrefix(Upto(k), Upto(n))
  <1> SUFFICES ASSUME NEW n \in Nat, NEW k \in 0 .. n PROVE IsPrefix(Upto(k), Upto(n))
    OBVIOUS
  <1>1. Len(Upto(k)) = k /\ Len(Upto(n)) = n /\ k \in Nat /\ k <= n
    BY UptoSeq
  <1>2. SubSeq(Upto(k), 1, k) = Upto(k) /\ SubSeq(Upto(n), 1, k) = Upto(k)
    BY <1>1, UptoPrefix
  <1> QED
    BY <1>1, <1>2 DEF IsPrefix

LEMMA InOrder == JobInv => DeliveredInOrder
  <1> SUFFICES ASSUME JobInv, NEW x \in Streams
               PROVE  \/ IsPrefix(agent.lines[x], Written(x))
                      \/ /\ x = "stderr" /\ job.exit = TimedOut
                         /\ agent.lines[x] # <<>> /\ Last(agent.lines[x]) = Marker
                         /\ IsPrefix(Front(agent.lines[x]), Written(x))
    BY DEF DeliveredInOrder
  <1>0. /\ drain[x].read \in Nat /\ proc.written[x] \in Nat /\ agent.offset[x] \in Nat
        /\ drain[x].read <= proc.written[x]
        /\ Written(x) = Upto(proc.written[x])
    BY DEF JobInv, JobTypeOK, Settled, Written, Upto
  <1>1. CASE agent.offset[x] <= drain[x].read /\ agent.lines[x] = Upto(agent.offset[x])
    BY <1>0, <1>1, UptoIsPrefix
  <1>2. CASE Marked(x) /\ agent.lines[x] = Append(Upto(drain[x].read), Marker)
    <2> DEFINE r == drain[x].read
               s == Append(Upto(r), Marker)
    <2>1. Upto(r) \in Seq(Nat) /\ Len(Upto(r)) = r /\ Marker \in Nat
      BY <1>0, UptoSeq DEF Marker
    <2>2. s \in Seq(Nat) /\ Len(s) = r + 1 /\ s[r + 1] = Marker
      BY <2>1, AppendProperties
    <2>3. s # <<>> /\ Last(s) = Marker
      <3>1. Len(s) # 0
        BY <1>0, <2>2
      <3> HIDE DEF s
      <3> QED
        BY <2>2, <3>1 DEF Last
    <2>4. Front(s) = Upto(r)
      <3>1. SubSeq(s, 1, r) = SubSeq(Upto(r), 1, r)
        BY <1>0, <2>1, CutOfAppend
      <3>2. SubSeq(Upto(r), 1, r) = Upto(r)
        BY <1>0, UptoPrefix
      <3>3. Len(s) - 1 = r
        BY <1>0, <2>2
      <3> HIDE DEF s, r
      <3> QED
        BY <3>1, <3>2, <3>3 DEF Front
    <2>5. IsPrefix(Upto(r), Written(x))
      BY <1>0, UptoIsPrefix
    <2> QED
      BY <1>2, <2>3, <2>4, <2>5 DEF Marked
  <1> QED
    BY <1>1, <1>2, AgentLines

LEMMA AllOfIt == JobInv => DoneMeansAll
  <1> SUFFICES ASSUME JobInv, agent.exit \in Codes, NEW x \in Streams
               PROVE  agent.lines[x] = Written(x)
    BY DEF DoneMeansAll
  <1>1. job.exit \in Codes /\ agent.offset[x] = Len(job.lines[x])
    BY DEF JobInv, Delivered, HasAll
  <1>2. ~Marked(x)
    BY <1>1 DEF Marked, Codes, TimedOut
  <1>3. drain[x].read = proc.written[x] /\ drain[x].read \in Nat
    BY <1>1 DEF JobInv, JobTypeOK, Settled
  <1>4. Len(job.lines[x]) = drain[x].read
    BY <1>2, <1>3, UptoSeq DEF JobInv, Collected
  <1>5. agent.lines[x] = Upto(agent.offset[x])
    BY <1>2, AgentLines
  <1> QED
    BY <1>1, <1>3, <1>4, <1>5 DEF Written, Upto

-----------------------------------------------------------------------------
LEMMA JobInvariant == JobSpec => []JobInv
  <1>1. JobInit => JobInv
    BY InitInv
  <1>2. JobInv /\ [JobNext]_jobVars => JobInv'
    BY NextType, NextSettled, NextCollected, NextDelivered DEF JobInv
  <1> QED
    BY <1>1, <1>2, PTL DEF JobSpec

\* The state of a job is what the code declares it to be, whatever the script does.
THEOREM JobTypeCorrect == JobSpec => []JobTypeOK
  <1>1. JobInv => JobTypeOK
    BY DEF JobInv
  <1> QED
    BY <1>1, JobInvariant, PTL

\* Whichever answers are lost, the agent has a part from the start of what the script
\* wrote to each stream, every line once and in order (tail_python_job's offsets).
THEOREM LinesInOrder == JobSpec => []DeliveredInOrder
  BY InOrder, JobInvariant, PTL

\* Once a tail has said 'done' with the script's own exit code, the agent has all the
\* script wrote, for scripts and pipes of any size (_supervise, tail_python_job).
THEOREM DoneIsAll == JobSpec => []DoneMeansAll
  BY AllOfIt, JobInvariant, PTL
=============================================================================
