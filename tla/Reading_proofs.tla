---------------------------- MODULE Reading_proofs ----------------------------
(***************************************************************************)
(* How a document becomes a proposal, for any number of calls, cancels,    *)
(* deadlines, crashes and restarts, any document and whatever the model    *)
(* replies.  The worker never refuses its host's next document, and never  *)
(* are two documents read at once; what is read is one version of the file *)
(* and is told as it was read; a bill is from its issuer, and a proposal   *)
(* filed unseen says what the model said and the document supports.        *)
(***************************************************************************)
EXTENDS Worker, Extraction, Analysis,
        FiniteSetTheorems, SequenceTheorems, WellFoundedInduction, TLAPS

-----------------------------------------------------------------------------
(* The worker: the inductive invariant *)

\* A command to read that was not read yet, and a line that ends a call.
Unread(q) == \E n \in 1..Len(q.input) : q.input[n].type = "parse"
Ended(q) == \E n \in 1..Len(q.output) : q.output[n].event # "progress"

\* One call at most has left its trace in a process that is alive: as a
\* command, as an extraction, as an answer to write or as one to be read.
OneCall(q) ==
  /\ \A m, n \in 1..Len(q.input) : q.input[m].type = "parse" /\ q.input[n].type = "parse" => m = n
  /\ \A m, n \in 1..Len(q.output) : q.output[m].event # "progress" /\ q.output[n].event # "progress" => m = n
  /\ Unread(q) => q.thread = "none" /\ ~ Ended(q)
  /\ Ended(q) => q.thread = "none"

\* A process with no trace of a call.
Resting(q) == q.thread = "none" /\ ~ Unread(q) /\ ~ Ended(q)

\* What holds of any process, whether anybody waits for it or not.
Sound(q) ==
  /\ ~ q.alive => q.thread = "none"
  /\ \A n \in 1..Len(q.output) :
       /\ q.output[n].event # "busy"
       /\ q.output[n].event = "progress" => q.output[n].request = NoRequest
  /\ q.thread = "answering" => q.answer.event \in {"parsed", "failed", "canceled"}
  /\ q.alive => (q.parsing # NoRequest => q.thread = "extracting") /\ OneCall(q)

\* The call that waits for an answer of the process.
Waiting(p) == caller.at = "receive" /\ caller.process = p

Processes ==
  \A p \in Pid : Sound(process[p]) /\ (process[p].alive => Waiting(p) \/ Resting(process[p]))

Calling == [at : {"idle", "start", "write", "receive", "leave", "restart", "mark", "take", "tell", "kill"},
            request : Request \cup {NoRequest}, process : Pid \cup {0},
            result : Answer \cup {"none", "crashed", "limit"}]

Types ==
  /\ running \in Pid \cup {0}
  /\ active \in Request \cup {NoRequest}
  /\ process \in [Pid -> Process]
  /\ caller \in Calling /\ canceler \in Calling

\* A thread that holds a process, or a request, has one.
Places ==
  /\ caller.at \in {"start", "write", "receive"} => caller.request \in Request
  /\ caller.at \in {"write", "receive"} => caller.process \in Pid
  /\ canceler.at \in {"tell", "kill"} => canceler.process \in Pid

IInv == Types /\ Places /\ Processes

-----------------------------------------------------------------------------
(* Lines and commands *)

\* A queue of which the first is read.
LEMMA Taken ==
  ASSUME NEW S, NEW s \in Seq(S), s # <<>>
  PROVE  /\ Tail(s) \in Seq(S) /\ Head(s) \in S /\ Head(s) = s[1] /\ 1 \in 1..Len(s)
         /\ Len(s) \in Nat /\ Len(Tail(s)) \in Nat
         /\ \A n \in 1..Len(Tail(s)) : n + 1 \in 1..Len(s) /\ n + 1 # 1 /\ Tail(s)[n] = s[n + 1]
<1>1. Len(s) \in Nat /\ Len(s) # 0
  BY LenProperties, EmptySeq
<1>2. /\ Tail(s) \in Seq(S) /\ Head(s) \in S /\ Len(Tail(s)) = Len(s) - 1
      /\ \A n \in 1..Len(Tail(s)) : Tail(s)[n] = s[n + 1]
  BY HeadTailProperties
<1>3. Head(s) = s[1]
  OBVIOUS
<1> QED BY <1>1, <1>2, <1>3

\* A queue to which one is added.
LEMMA Added ==
  ASSUME NEW S, NEW s \in Seq(S), NEW e \in S
  PROVE  /\ Append(s, e) \in Seq(S) /\ Len(s) \in Nat
         /\ Len(Append(s, e)) = Len(s) + 1
         /\ \A n \in 1..Len(s) : n \in 1..Len(Append(s, e)) /\ Append(s, e)[n] = s[n]
         /\ \A n \in 1..Len(Append(s, e)) : n \in 1..Len(s) \/ (n = Len(s) + 1 /\ Append(s, e)[n] = e)
<1>1. Len(s) \in Nat
  BY LenProperties
<1>2. /\ Append(s, e) \in Seq(S) /\ Len(Append(s, e)) = Len(s) + 1
      /\ \A n \in 1..Len(s) : Append(s, e)[n] = s[n]
      /\ Append(s, e)[Len(s) + 1] = e
  BY AppendProperties
<1> QED BY <1>1, <1>2

\* A process with another queue, state of life or thread.
LEMMA ProcessTypes ==
  ASSUME NEW q \in Process
  PROVE  /\ q.input \in Seq(Command) /\ q.output \in Seq(Line) /\ q.answer \in Line
         /\ [q EXCEPT !.alive = FALSE] \in Process
         /\ [q EXCEPT !.alive = FALSE, !.thread = "none"] \in Process
         /\ \A s \in Seq(Command) : [q EXCEPT !.input = s] \in Process
         /\ \A s \in Seq(Line) : /\ [q EXCEPT !.output = s] \in Process
                                 /\ [q EXCEPT !.output = s, !.thread = "none"] \in Process
                                 /\ [q EXCEPT !.thread = "none", !.output = s] \in Process
                                 /\ [q EXCEPT !.alive = FALSE, !.thread = "none", !.output = s] \in Process
<1> USE DEF Process
<1>1. q.input \in Seq(Command) /\ q.output \in Seq(Line) /\ q.answer \in Line
  OBVIOUS
<1>2. FALSE \in BOOLEAN
  OBVIOUS
<1>3. [q EXCEPT !.alive = FALSE] \in Process /\ [q EXCEPT !.alive = FALSE, !.thread = "none"] \in Process
  BY <1>2, Zenon
<1> QED BY <1>1, <1>3

\* A process that was killed reads and answers nothing more, but for a line
\* cut short.
LEMMA KilledIsSound ==
  ASSUME Types, NEW p \in Pid, Sound(process[p]), NEW q \in Killed(p)
  PROVE  q \in Process /\ Sound(q) /\ ~ q.alive
<1>1. process[p] \in Process
  BY DEF Types
<1> DEFINE partial == [request |-> NoRequest, event |-> "partial"]
<1>2. partial \in Line
  BY DEF Line, Answer
<1>3. \/ q = [process[p] EXCEPT !.alive = FALSE, !.thread = "none"]
      \/ q = [process[p] EXCEPT !.alive = FALSE, !.thread = "none", !.output = Append(process[p].output, partial)]
  BY DEF Killed
<1>4. Append(process[p].output, partial) \in Seq(Line)
  <2>1. process[p].output \in Seq(Line)
    BY <1>1 DEF Process
  <2> HIDE DEF partial
  <2> QED BY <1>2, <2>1, AppendProperties, Zenon
<1>5. q \in Process
  <2> DEFINE cut == Append(process[p].output, partial)
  <2>1. /\ [process[p] EXCEPT !.alive = FALSE, !.thread = "none"] \in Process
        /\ [process[p] EXCEPT !.alive = FALSE, !.thread = "none", !.output = cut] \in Process
    BY <1>1, <1>4, ProcessTypes, Zenon
  <2> QED BY <1>3, <2>1, Zenon
<1>6. ~ q.alive /\ q.thread = "none" /\ q.output \in {process[p].output, Append(process[p].output, partial)}
  BY <1>1, <1>3 DEF Process
<1>7. ASSUME NEW n \in 1..Len(q.output)
      PROVE  (n \in 1..Len(process[p].output) /\ q.output[n] = process[p].output[n]) \/ q.output[n] = partial
  <2>1. process[p].output \in Seq(Line)
    BY <1>1, ProcessTypes
  <2>2. \A m \in 1..Len(Append(process[p].output, partial)) :
          \/ m \in 1..Len(process[p].output) /\ Append(process[p].output, partial)[m] = process[p].output[m]
          \/ Append(process[p].output, partial)[m] = partial
    BY <1>2, <2>1, Added
  <2> QED BY <1>6, <1>7, <2>2
<1> QED BY <1>5, <1>6, <1>7 DEF Sound

\* Whatever changes one process and leaves whoever waits for another.
LEMMA OneChanges ==
  ASSUME Types, Processes, NEW p \in Pid, NEW q \in Process,
         process' = [process EXCEPT ![p] = q], Sound(q), q.alive => Waiting(p)' \/ Resting(q),
         \A o \in Pid \ {p} : process[o].alive /\ Waiting(o) => Waiting(o)'
  PROVE  process' \in [Pid -> Process] /\ Processes'
<1>1. process' \in [Pid -> Process] /\ process'[p] = q /\ \A o \in Pid \ {p} : process'[o] = process[o]
  BY DEF Types
<1>2. ASSUME NEW o \in Pid PROVE Sound(process'[o]) /\ (process'[o].alive => Waiting(o)' \/ Resting(process'[o]))
  BY <1>1 DEF Processes
<1> QED BY <1>1, <1>2 DEF Processes

\* A call that begins or ends by killing what it waited for.
LEMMA OneIsKilled ==
  ASSUME Types, Processes, NEW p \in Pid, terminate(p),
         \A o \in Pid \ {p} : Waiting(o) => Waiting(o)'
  PROVE  process' \in [Pid -> Process] /\ Processes'
<1>1. PICK q \in Killed(p) : process' = [process EXCEPT ![p] = q]
  BY DEF terminate
<1>2. q \in Process /\ Sound(q) /\ ~ q.alive
  BY KilledIsSound DEF Processes
<1> QED BY <1>1, <1>2, OneChanges

\* A process that was launched has nothing to do yet.
LEMMA LaunchIsSound ==
  ASSUME Types, Processes, NEW p \in Pid, launch(p), \A o \in Pid : ~ Waiting(o)
  PROVE  process' \in [Pid -> Process] /\ Processes'
<1> DEFINE fresh == [NotLaunched EXCEPT !.alive = TRUE]
<1>1. NotLaunched \in Process
  <2>1. <<>> \in Seq(Command) /\ <<>> \in Seq(Line)
    BY EmptySeq
  <2>2. [request |-> NoRequest, event |-> "failed"] \in Line
    BY DEF Line, Answer
  <2>3. FALSE \in BOOLEAN /\ NoRequest \in Request \cup {NoRequest} /\ "none" \in {"none", "extracting", "answering"}
    OBVIOUS
  <2> QED BY <2>1, <2>2, <2>3, Zenon DEF NotLaunched, Process
<1>2. fresh \in Process
  <2>1. TRUE \in BOOLEAN
    OBVIOUS
  <2> QED BY <1>1, <2>1, Zenon DEF Process
<1>3. fresh.input = <<>> /\ fresh.output = <<>> /\ fresh.thread = "none" /\ fresh.parsing = NoRequest
  <2>1. /\ NotLaunched.input = <<>> /\ NotLaunched.output = <<>> /\ NotLaunched.thread = "none"
        /\ NotLaunched.parsing = NoRequest
    BY DEF NotLaunched
  <2> QED BY <1>1, <2>1 DEF Process
<1>4. Len(fresh.input) = 0 /\ Len(fresh.output) = 0
  BY <1>3, EmptySeq
<1>5. Sound(fresh) /\ Resting(fresh)
  BY <1>3, <1>4 DEF Sound, Resting, OneCall, Unread, Ended
<1>6. process' = [process EXCEPT ![p] = fresh]
  BY DEF launch
<1> QED BY <1>2, <1>5, <1>6, OneChanges

-----------------------------------------------------------------------------
(* The steps of a process *)

\* A line that is taken: if it ends the call, nothing is left of it.
LEMMA ReadLineIsSound ==
  ASSUME NEW q \in Process, Sound(q), q.output # <<>>
  PROVE  LET rest == [q EXCEPT !.output = Tail(@)] IN
         /\ rest \in Process /\ Sound(rest) /\ rest.alive = q.alive
         /\ Resting(q) => Resting(rest)
         /\ q.alive /\ Head(q.output).event # "progress" => Resting(rest)
         /\ Head(q.output).event = "progress" => Head(q.output).request = NoRequest
         /\ Head(q.output).event # "progress" => (q.alive => q.thread = "none")
<1> DEFINE rest == [q EXCEPT !.output = Tail(@)]
           s == q.output
           t == Tail(q.output)
<1>1. /\ t \in Seq(Line) /\ Head(s) = s[1] /\ 1 \in 1..Len(s)
      /\ \A n \in 1..Len(t) : n + 1 \in 1..Len(s) /\ n + 1 # 1 /\ t[n] = s[n + 1]
  BY ProcessTypes, Taken
<1>2. rest \in Process
  BY <1>1, ProcessTypes
<1>3. /\ rest.output = t /\ rest.input = q.input /\ rest.alive = q.alive /\ rest.thread = q.thread
      /\ rest.parsing = q.parsing /\ rest.answer = q.answer
  BY DEF Process
<1>4. Unread(rest) <=> Unread(q)
  BY <1>3 DEF Unread
<1>5. Ended(rest) => Ended(q)
  BY <1>1, <1>3 DEF Ended
<1>6. OneCall(q) => OneCall(rest)
  <2> SUFFICES ASSUME OneCall(q) PROVE OneCall(rest)
    OBVIOUS
  <2>1. ASSUME NEW m \in 1..Len(t), NEW n \in 1..Len(t), t[m].event # "progress", t[n].event # "progress"
        PROVE  m = n
    <3>1. m + 1 = n + 1
      BY <1>1, <2>1 DEF OneCall
    <3> QED BY <3>1
  <2> HIDE DEF rest, s, t
  <2> QED BY <1>3, <1>4, <1>5, <2>1 DEF OneCall
<1>7. OneCall(q) /\ Head(s).event # "progress" => ~ Ended(rest) /\ q.thread = "none" /\ ~ Unread(q)
  <2> SUFFICES ASSUME OneCall(q), Head(s).event # "progress"
               PROVE  ~ Ended(rest) /\ q.thread = "none" /\ ~ Unread(q)
    OBVIOUS
  <2>1. Ended(q)
    BY <1>1 DEF Ended
  <2>2. \A n \in 1..Len(t) : t[n].event = "progress"
    BY <1>1 DEF OneCall
  <2> QED BY <1>3, <2>1, <2>2 DEF OneCall, Ended
<1>8. Sound(rest)
  BY <1>1, <1>3, <1>6 DEF Sound
<1> HIDE DEF rest
<1>9. Resting(q) => Resting(rest)
  BY <1>3, <1>4, <1>5 DEF Resting
<1>10. q.alive /\ Head(q.output).event # "progress" => Resting(rest) /\ q.thread = "none"
  BY <1>3, <1>4, <1>7 DEF Resting, Sound
<1>11. Head(q.output).event = "progress" => Head(q.output).request = NoRequest
  BY <1>1 DEF Sound
<1> QED BY <1>2, <1>3, <1>8, <1>9, <1>10, <1>11 DEF rest

\* A command that is written is not read yet.
LEMMA WriteIsSound ==
  ASSUME NEW p \in Pid, process[p] \in Process, Sound(process[p]), NEW command \in Command
  PROVE  /\ Written(p, command) \in Process /\ Written(p, command).alive = process[p].alive
         /\ command.type # "parse" => Sound(Written(p, command))
         /\ command.type # "parse" /\ Resting(process[p]) => Resting(Written(p, command))
         /\ Resting(process[p]) => Sound(Written(p, command))
<1> DEFINE q == process[p]
           w == [q EXCEPT !.input = Append(@, command)]
           t == Append(q.input, command)
<1>1. CASE ~ q.alive
  BY <1>1 DEF Written, Resting
<1>2. CASE q.alive
  <2>1. /\ t \in Seq(Command) /\ Len(q.input) \in Nat
        /\ \A n \in 1..Len(t) : (n \in 1..Len(q.input) /\ t[n] = q.input[n]) \/ (n = Len(q.input) + 1 /\ t[n] = command)
    <3> HIDE DEF q
    <3>1. q.input \in Seq(Command)
      BY ProcessTypes DEF q
    <3> QED BY <3>1, Added
  <2>2. w \in Process
    BY <2>1, ProcessTypes
  <2>3. /\ w.input = t /\ w.output = q.output /\ w.alive = q.alive /\ w.thread = q.thread
        /\ w.parsing = q.parsing /\ w.answer = q.answer
    BY DEF Process
  <2>4. Written(p, command) = w
    BY <1>2 DEF Written
  <2> HIDE DEF q, w, t
  <2>5. Ended(w) <=> Ended(q)
    BY <2>3 DEF Ended
  <2>6. command.type # "parse" => (Unread(w) => Unread(q))
    BY <2>1, <2>3 DEF Unread
  <2>7. command.type # "parse" => (OneCall(q) => OneCall(w))
    <3>1. ASSUME command.type # "parse", OneCall(q), NEW m \in 1..Len(t), NEW n \in 1..Len(t),
                 t[m].type = "parse", t[n].type = "parse"
          PROVE  m = n
      BY <2>1, <3>1 DEF OneCall
    <3> QED BY <2>3, <2>5, <2>6, <3>1 DEF OneCall
  <2>8. Resting(q) => OneCall(w)
    <3> SUFFICES ASSUME Resting(q) PROVE OneCall(w)
      OBVIOUS
    <3>1. ASSUME NEW m \in 1..Len(t), NEW n \in 1..Len(t), t[m].type = "parse", t[n].type = "parse"
          PROVE  m = n
      BY <2>1, <3>1 DEF Resting, Unread
    <3> QED BY <2>3, <2>5, <3>1 DEF OneCall, Resting, Ended
  <2>9. Sound(q)
    BY DEF q
  <2>10. command.type # "parse" => Sound(w)
    BY <2>3, <2>7, <2>9 DEF Sound
  <2>11. Resting(q) => Sound(w)
    BY <2>3, <2>8, <2>9 DEF Sound
  <2>12. command.type # "parse" /\ Resting(q) => Resting(w)
    BY <2>3, <2>5, <2>6 DEF Resting
  <2> QED BY <2>2, <2>3, <2>4, <2>10, <2>11, <2>12 DEF q
<1> QED BY <1>1, <1>2

\* What the loop does with the command it reads.
Reading(p) ==
  LET command == Head(process[p].input) IN
  CASE command.type = "parse"  -> Parse(p, command.request)
    [] command.type = "cancel" -> CancelCommand(p, command.request)
    [] OTHER -> {[process[p] EXCEPT !.ending = TRUE, !.token = TRUE]}

\* A process that goes on with a token, a request or a thread.
LEMMA ReadingTypes ==
  ASSUME NEW p \in Pid, process[p] \in Process, process[p].input # <<>>, NEW q \in Reading(p)
  PROVE  /\ q \in Process /\ q.alive = process[p].alive /\ q.input = process[p].input
         /\ q.answer = process[p].answer
         /\ \/ /\ Head(process[p].input).type = "parse" /\ process[p].parsing = NoRequest
               /\ q.thread = "extracting" /\ q.output = process[p].output
            \/ /\ q.parsing = process[p].parsing /\ q.thread = process[p].thread
               /\ \/ /\ Head(process[p].input).type # "parse"
                     /\ q.output \in {process[p].output,
                          Append(process[p].output, [request |-> NoRequest, event |-> "progress"])}
                  \/ /\ Head(process[p].input).type = "parse"
                     /\ \E r \in Request \cup {NoRequest} :
                          \/ process[p].parsing # NoRequest /\ q.output = Append(process[p].output, [request |-> r, event |-> "busy"])
                          \/ q.output = Append(process[p].output, [request |-> r, event |-> "failed"])
<1> DEFINE o == process[p]
           command == Head(o.input)
           r == command.request
<1>1. command \in Command /\ r \in Request \cup {NoRequest}
  <2>1. o.input \in Seq(Command)
    BY ProcessTypes
  <2>2. command \in Command
    BY <2>1, Taken
  <2> QED BY <2>2 DEF Command
<1>2. /\ \A a \in Request \cup {NoRequest} : \A e \in Answer : [request |-> a, event |-> e] \in Line
      /\ {"busy", "failed", "progress"} \subseteq Answer
  BY DEF Line, Answer
<1>3. \A a \in Request \cup {NoRequest} : \A e \in {"busy", "failed", "progress"} :
        Append(o.output, [request |-> a, event |-> e]) \in Seq(Line)
  <2>1. o.output \in Seq(Line)
    BY ProcessTypes
  <2>2. \A line \in Line : Append(o.output, line) \in Seq(Line)
    BY <2>1, Added
  <2> QED BY <1>2, <2>2
<1>4. CASE command.type = "parse"
  <2>1. q \in Parse(p, r)
    BY <1>4 DEF Reading
  <2>2. CASE q = [o EXCEPT !.output = Says(p, r, "busy")] /\ o.parsing # NoRequest
    <3>1. Says(p, r, "busy") = Append(o.output, [request |-> r, event |-> "busy"])
      BY DEF Says
    <3>2. q \in Process
      BY <1>1, <1>3, <2>2, <3>1, ProcessTypes
    <3> QED BY <1>1, <1>4, <2>2, <3>1, <3>2 DEF Process
  <2>3. CASE q = [o EXCEPT !.output = Says(p, r, "failed")]
    <3>1. Says(p, r, "failed") = Append(o.output, [request |-> r, event |-> "failed"])
      BY DEF Says
    <3>2. q \in Process
      BY <1>1, <1>3, <2>3, <3>1, ProcessTypes
    <3> QED BY <1>1, <1>4, <2>3, <3>1, <3>2 DEF Process
  <2>4. CASE q = [o EXCEPT !.parsing = r, !.token = FALSE, !.thread = "extracting"] /\ o.parsing = NoRequest
    <3>1. FALSE \in BOOLEAN /\ "extracting" \in {"none", "extracting", "answering"}
      OBVIOUS
    <3>2. q \in Process
      BY <1>1, <2>4, <3>1, Zenon DEF Process
    <3>3. /\ q.thread = "extracting" /\ q.output = o.output /\ q.input = o.input /\ q.alive = o.alive
          /\ q.answer = o.answer
      BY <2>4 DEF Process
    <3> QED BY <1>4, <2>4, <3>2, <3>3
  <2> QED BY <2>1, <2>2, <2>3, <2>4 DEF Parse
<1>5. CASE command.type = "cancel"
  <2>1. q \in CancelCommand(p, r)
    BY <1>5 DEF Reading
  <2> DEFINE token == o.token \/ o.parsing = r
             line == [request |-> NoRequest, event |-> "progress"]
  <2>2. q = [o EXCEPT !.token = token, !.output = Append(o.output, line)]
    BY <2>1 DEF CancelCommand, Says
  <2>3. token \in BOOLEAN /\ Append(o.output, line) \in Seq(Line)
    BY <1>3
  <2> HIDE DEF token
  <2>4. q \in Process
    BY <2>2, <2>3, Zenon DEF Process
  <2>5. /\ q.thread = o.thread /\ q.output = Append(o.output, line) /\ q.input = o.input /\ q.alive = o.alive
        /\ q.answer = o.answer /\ q.parsing = o.parsing
    BY <2>2 DEF Process
  <2> QED BY <1>5, <2>4, <2>5
<1>6. CASE command.type \notin {"parse", "cancel"}
  <2>1. q = [o EXCEPT !.ending = TRUE, !.token = TRUE]
    BY <1>6 DEF Reading
  <2>2. TRUE \in BOOLEAN
    OBVIOUS
  <2>3. q \in Process
    BY <2>1, <2>2, Zenon DEF Process
  <2>4. /\ q.thread = o.thread /\ q.output = o.output /\ q.input = o.input /\ q.alive = o.alive
        /\ q.answer = o.answer /\ q.parsing = o.parsing
    BY <2>1 DEF Process
  <2> QED BY <1>6, <2>3, <2>4
<1> QED BY <1>4, <1>5, <1>6

\* The command that is read is the one call, or leaves it alone; and when a
\* document is asked for, none is being read.
LEMMA CommandIsSound ==
  ASSUME NEW p \in Pid, process[p] \in Process, process[p].input # <<>>, process[p].alive,
         Sound(process[p]), NEW after \in Reading(p)
  PROVE  LET q == [after EXCEPT !.input = Tail(@)] IN
         q \in Process /\ Sound(q) /\ (Resting(process[p]) => Resting(q))
<1> DEFINE o == process[p]
           q == [after EXCEPT !.input = Tail(@)]
           s == o.input
           t == Tail(o.input)
<1>1. /\ t \in Seq(Command) /\ Head(s) = s[1] /\ 1 \in 1..Len(s)
      /\ \A n \in 1..Len(t) : n + 1 \in 1..Len(s) /\ n + 1 # 1 /\ t[n] = s[n + 1]
  BY ProcessTypes, Taken
<1>2. after \in Process /\ after.alive = o.alive /\ after.input = s /\ after.answer = o.answer
  BY ReadingTypes
<1>3. q \in Process
  BY <1>1, <1>2, ProcessTypes
<1>4. /\ q.output = after.output /\ q.input = t /\ q.alive = o.alive /\ q.thread = after.thread
      /\ q.parsing = after.parsing /\ q.answer = o.answer
  BY <1>2 DEF Process
<1>5. o.output \in Seq(Line)
  BY ProcessTypes
<1>11. Sound(o) /\ o.alive /\ after \in Reading(p) /\ process[p] = o
  OBVIOUS
<1> HIDE DEF q, o, s, t
<1>6. /\ OneCall(o) /\ (o.parsing # NoRequest => o.thread = "extracting") /\ (o.thread = "answering" => o.answer.event \in {"parsed", "failed", "canceled"})
      /\ \A n \in 1..Len(o.output) : /\ o.output[n].event # "busy"
                                     /\ o.output[n].event = "progress" => o.output[n].request = NoRequest
  BY <1>11 DEF Sound
<1>7. Unread(q) => Unread(o)
  BY <1>1, <1>4 DEF Unread, s
<1>8. \A m, n \in 1..Len(t) : t[m].type = "parse" /\ t[n].type = "parse" => m = n
  <2> SUFFICES ASSUME NEW m \in 1..Len(t), NEW n \in 1..Len(t), t[m].type = "parse", t[n].type = "parse"
               PROVE  m = n
    OBVIOUS
  <2>1. m + 1 = n + 1
    BY <1>1, <1>6 DEF OneCall, s
  <2> QED BY <2>1
<1>9. CASE Head(s).type = "parse"
  <2>1. Unread(o) /\ o.thread = "none" /\ ~ Ended(o) /\ o.parsing = NoRequest
    BY <1>1, <1>6, <1>9 DEF Unread, OneCall, s
  <2>2. ~ Unread(q)
    BY <1>1, <1>4, <1>6, <1>9 DEF Unread, OneCall, s
  <2>3. ASSUME after.thread = "extracting", after.output = o.output PROVE Sound(q)
    <3>1. ~ Ended(q)
      BY <1>4, <2>1, <2>3 DEF Ended
    <3> QED BY <1>4, <1>6, <1>8, <1>11, <2>1, <2>2, <2>3, <3>1 DEF Sound, OneCall
  <2>4. ASSUME NEW r \in Request \cup {NoRequest},
               after.parsing = o.parsing, after.thread = o.thread,
               after.output = Append(o.output, [request |-> r, event |-> "failed"])
        PROVE  Sound(q)
    <3> DEFINE line == [request |-> r, event |-> "failed"]
    <3>1. line \in Line
      BY DEF Line, Answer
    <3>2. \A n \in 1..Len(q.output) : \/ n \in 1..Len(o.output) /\ q.output[n] = o.output[n]
                                      \/ n = Len(o.output) + 1 /\ q.output[n] = line
      BY <1>4, <1>5, <2>4, <3>1, Added
    <3>3. \A n \in 1..Len(q.output) : /\ q.output[n].event # "busy"
                                      /\ q.output[n].event = "progress" => q.output[n].request = NoRequest
                                      /\ q.output[n].event # "progress" => n = Len(o.output) + 1
      BY <1>6, <2>1, <3>2 DEF Ended
    <3> QED BY <1>4, <1>6, <1>8, <2>1, <2>2, <2>4, <3>3 DEF Sound, OneCall
  <2>5. \/ after.thread = "extracting" /\ after.output = o.output
        \/ \E r \in Request \cup {NoRequest} :
             /\ after.parsing = o.parsing /\ after.thread = o.thread
             /\ after.output = Append(o.output, [request |-> r, event |-> "failed"])
    BY <1>9, <2>1, ReadingTypes DEF o, s
  <2>6. ~ Resting(o)
    BY <2>1 DEF Resting
  <2>7. Sound(q)
    BY <2>3, <2>4, <2>5
  <2> QED BY <1>3, <2>6, <2>7 DEF q, o
<1>10. CASE Head(s).type # "parse"
  <2> DEFINE line == [request |-> NoRequest, event |-> "progress"]
  <2>1. /\ after.parsing = o.parsing /\ after.thread = o.thread
        /\ after.output \in {o.output, Append(o.output, line)}
    BY <1>10, ReadingTypes DEF o, s
  <2>2. line \in Line
    BY DEF Line, Answer
  <2>3. \A n \in 1..Len(q.output) : \/ n \in 1..Len(o.output) /\ q.output[n] = o.output[n]
                                    \/ q.output[n] = line
    <3>1. \A n \in 1..Len(Append(o.output, line)) :
             \/ n \in 1..Len(o.output) /\ Append(o.output, line)[n] = o.output[n]
             \/ Append(o.output, line)[n] = line
      BY <1>5, <2>2, Added
    <3> QED BY <1>4, <2>1, <3>1
  <2>4. \A n \in 1..Len(q.output) : /\ q.output[n].event # "busy"
                                    /\ q.output[n].event = "progress" => q.output[n].request = NoRequest
                                    /\ q.output[n].event # "progress" => n \in 1..Len(o.output) /\ q.output[n] = o.output[n]
    BY <1>6, <2>3
  <2>5. Ended(q) => Ended(o)
    BY <2>4 DEF Ended
  <2>6. OneCall(q)
    <3>1. \A m, n \in 1..Len(q.output) : q.output[m].event # "progress" /\ q.output[n].event # "progress" => m = n
      BY <1>6, <2>4 DEF OneCall
    <3> QED BY <1>4, <1>6, <1>7, <1>8, <2>1, <2>5, <3>1 DEF OneCall
  <2>7. Sound(q)
    BY <1>4, <1>6, <1>11, <2>1, <2>4, <2>6 DEF Sound
  <2>8. Resting(o) => Resting(q)
    BY <1>4, <1>7, <2>1, <2>5 DEF Resting
  <2> QED BY <1>3, <2>7, <2>8 DEF q, o
<1> QED BY <1>9, <1>10 DEF q, o

\* The request is off the map before its answer is written.
LEMMA FinishedIsSound ==
  ASSUME NEW p \in Pid, process[p] \in Process, process[p].thread = "extracting", Sound(process[p]),
         NEW event \in {"parsed", "failed", "canceled"}
  PROVE  Finished(p, event) \in Process /\ Sound(Finished(p, event))
<1> DEFINE o == process[p]
           answer == [request |-> o.parsing, event |-> event]
           q == [o EXCEPT !.thread = "answering", !.answer = answer, !.parsing = NoRequest]
<1>1. o.parsing \in Request \cup {NoRequest}
  BY DEF Process
<1>2. answer \in Line
  BY <1>1 DEF Line, Answer
<1>3. q \in Process
  BY <1>2, Zenon DEF Process
<1>4. Finished(p, event) = q
  BY DEF Finished, Finishing, Process
<1>5. /\ q.output = o.output /\ q.input = o.input /\ q.alive = o.alive /\ q.thread = "answering"
      /\ q.parsing = NoRequest /\ q.answer = answer
  BY <1>2 DEF Process
<1> HIDE DEF q
<1>6. o.alive /\ ~ Ended(o) /\ ~ Unread(o) /\ OneCall(o)
  BY DEF Sound, OneCall
<1>7. OneCall(q)
  BY <1>5, <1>6 DEF OneCall, Ended, Unread
<1> QED BY <1>3, <1>4, <1>5, <1>7 DEF Sound

\* The answer of an extraction is the one line that ends a call.
LEMMA AnswerIsSound ==
  ASSUME NEW p \in Pid, process[p] \in Process, process[p].thread = "answering", Sound(process[p])
  PROVE  LET q == [process[p] EXCEPT !.thread = "none", !.output = Append(@, process[p].answer)] IN
         q \in Process /\ Sound(q)
<1> DEFINE o == process[p]
           q == [o EXCEPT !.thread = "none", !.output = Append(@, o.answer)]
<1>1. /\ Append(o.output, o.answer) \in Seq(Line)
      /\ \A n \in 1..Len(Append(o.output, o.answer)) :
           \/ n \in 1..Len(o.output) /\ Append(o.output, o.answer)[n] = o.output[n]
           \/ n = Len(o.output) + 1 /\ Append(o.output, o.answer)[n] = o.answer
  <2>1. o.output \in Seq(Line) /\ o.answer \in Line
    BY ProcessTypes
  <2> QED BY <2>1, Added
<1>2. q \in Process
  BY <1>1, ProcessTypes
<1>3. /\ q.output = Append(o.output, o.answer) /\ q.input = o.input /\ q.alive = o.alive /\ q.thread = "none"
      /\ q.parsing = o.parsing /\ q.answer = o.answer
  BY DEF Process
<1> HIDE DEF q
<1>4. o.alive /\ ~ Ended(o) /\ ~ Unread(o) /\ OneCall(o) /\ o.parsing = NoRequest
  BY DEF Sound, OneCall
<1>8. Sound(o) /\ o.thread = "answering"
  OBVIOUS
<1> HIDE DEF o
<1>5. \A n \in 1..Len(q.output) : /\ q.output[n].event # "busy"
                                  /\ q.output[n].event = "progress" => q.output[n].request = NoRequest
                                  /\ q.output[n].event # "progress" => n = Len(o.output) + 1
  BY <1>1, <1>3, <1>4, <1>8 DEF Sound, Ended
<1>6. OneCall(q)
  BY <1>3, <1>4, <1>5 DEF OneCall, Unread
<1>7. Sound(q)
  BY <1>3, <1>4, <1>5, <1>6 DEF Sound
<1> QED BY <1>2, <1>7 DEF q, o

-----------------------------------------------------------------------------
(* The steps of the threads *)

\* A thread before its first call.
LEMMA IdleTypes ==
  /\ Idle \in Calling /\ Idle.at = "idle"
  /\ \A place \in {"start", "mark", "tell"} : \A r \in Request \cup {NoRequest} :
       /\ [Idle EXCEPT !.at = place, !.request = r] \in Calling
       /\ [Idle EXCEPT !.at = place, !.request = r].at = place
       /\ [Idle EXCEPT !.at = place, !.request = r].request = r
  /\ \A p \in Pid : /\ [Idle EXCEPT !.at = "tell", !.process = p] \in Calling
                    /\ [Idle EXCEPT !.at = "tell", !.process = p].process = p
<1>1. Idle \in Calling
  BY DEF Idle, Calling
<1>2. Idle.at = "idle"
  BY DEF Idle
<1> HIDE DEF Idle
<1> QED BY <1>1, <1>2 DEF Calling

\* The thread in extract or restart stays what it is, whatever else the
\* step does.
LEMMA CallerTypes ==
  ASSUME Types, Places, Processes, WorkerNext
  PROVE  /\ caller' \in Calling
         /\ caller'.at \in {"start", "write", "receive"} => caller'.request \in Request
         /\ caller'.at \in {"write", "receive"} => caller'.process \in Pid
<1> USE DEF workerBudgets
<1>1. CASE Extract
  <2>1. PICK r \in Request : caller' = [Idle EXCEPT !.at = "start", !.request = r]
    BY <1>1, Zenon DEF Extract
  <2>2. /\ caller' \in Calling /\ caller'.at = "start" /\ caller'.request = r
    BY <2>1, IdleTypes, Zenon
  <2> QED BY <2>2
<1>2. CASE ensure_running
  <2>1. CASE running # 0
    <3>1. running \in Pid /\ caller' = [caller EXCEPT !.at = "write", !.process = running]
      BY <1>2, <2>1 DEF ensure_running, To, Types, Calling
    <3> QED BY <1>2, <3>1 DEF Types, ensure_running, Places, Calling
  <2>2. CASE \E p \in Pid : caller' = [To("write") EXCEPT !.process = p]
    <3>1. PICK p \in Pid : caller' = [To("write") EXCEPT !.process = p]
      BY <2>2
    <3>2. caller' = [caller EXCEPT !.at = "write", !.process = p]
      BY <3>1 DEF To, Types, Calling
    <3> QED BY <1>2, <3>2 DEF Types, ensure_running, Places, Calling
  <2>3. CASE caller' = Ends("crashed")
    BY <2>3 DEF Ends, Types, Calling
  <2> QED BY <1>2, <2>1, <2>2, <2>3 DEF ensure_running
<1>3. CASE WriteParse
  <2>1. CanceledOr("crashed") => \E result \in {"canceled", "crashed"} : caller' = Ends(result)
    BY DEF CanceledOr
  <2>2. {"canceled", "crashed"} \subseteq Answer \cup {"none", "crashed", "limit"}
    BY DEF Answer
  <2>3. caller' = To("receive") \/ \E result \in Answer \cup {"none", "crashed", "limit"} : caller' = Ends(result)
    BY <1>3, <2>1, <2>2 DEF WriteParse
  <2>4. caller.request \in Request /\ caller.process \in Pid /\ caller \in Calling
    BY <1>3 DEF WriteParse, Places, Types
  <2> QED BY <2>3, <2>4 DEF To, Ends, Calling
<1>4. CASE Receive
  <2> DEFINE q == process[caller.process]
             line == Head(q.output)
  <2>1. caller.process \in Pid /\ q \in Process /\ caller \in Calling
    BY <1>4 DEF Receive, Places, Types
  <2>2. q.output # <<>> => line.event \in Answer
    <3> SUFFICES ASSUME q.output # <<>> PROVE line.event \in Answer
      OBVIOUS
    <3>1. q.output \in Seq(Line)
      BY <2>1, ProcessTypes
    <3>2. line \in Line
      BY <3>1, Taken
    <3> QED BY <3>2 DEF Line
  <2>3. CanceledOr("crashed") => \E result \in {"canceled", "crashed"} : caller' = Ends(result)
    BY DEF CanceledOr
  <2>4. {"canceled", "crashed", "failed"} \subseteq Answer \cup {"none", "crashed", "limit"}
    BY DEF Answer
  <2>5. caller' = caller \/ \E result \in Answer \cup {"none", "crashed", "limit"} : caller' = Ends(result)
    BY <1>4, <2>2, <2>3, <2>4 DEF Receive
  <2>6. ASSUME NEW result \in Answer \cup {"none", "crashed", "limit"}, caller' = Ends(result)
        PROVE  caller' \in Calling /\ caller'.at = "leave"
    BY <2>1, <2>6 DEF Ends, Calling
  <2> QED BY <2>1, <2>5, <2>6 DEF Places
<1>5. CASE Deadline
  BY <1>5 DEF Deadline, Ends, Types, Calling
<1>6. CASE Leave \/ RestartTake
  BY <1>6 DEF Leave, RestartTake, To, Types, Calling
<1>7. CASE RestartLaunch
  BY <1>7, IdleTypes DEF RestartLaunch
<1>8. CASE caller' = caller
  BY <1>8 DEF Types, Places
<1>9. \/ Extract \/ ensure_running \/ WriteParse \/ Receive \/ Deadline \/ Leave \/ RestartTake \/ RestartLaunch
      \/ caller' = caller
  BY DEF WorkerNext, Caller, Cancel, MarkCanceled, TakeRunning, Stop, Tell, Kill, ReadCommand, Extracted,
     Answers, ProcessEnds
<1> QED BY <1>1, <1>2, <1>3, <1>4, <1>5, <1>6, <1>7, <1>8, <1>9

\* So does the thread in cancel or stop.
LEMMA CancelerTypes ==
  ASSUME Types, Places, WorkerNext
  PROVE  canceler' \in Calling /\ (canceler'.at \in {"tell", "kill"} => canceler'.process \in Pid)
<1> USE DEF workerBudgets
<1>1. CASE Cancel
  BY <1>1, IdleTypes DEF Cancel, Types
<1>2. CASE MarkCanceled \/ Tell
  <2>1. canceler \in Calling
    BY DEF Types
  <2> QED BY <1>2, <2>1 DEF MarkCanceled, Tell, Places, Calling
<1>3. CASE TakeRunning
  <2>1. CASE running = 0
    BY <1>3, <2>1, IdleTypes DEF TakeRunning
  <2>2. CASE running # 0
    <3>1. running \in Pid /\ canceler \in Calling
      BY <2>2 DEF Types
    <3> QED BY <1>3, <2>2, <3>1 DEF TakeRunning, Calling
  <2> QED BY <2>1, <2>2
<1>4. CASE Stop
  <2>1. running \in Pid
    BY <1>4 DEF Stop, Types
  <2> QED BY <1>4, <2>1, IdleTypes DEF Stop
<1>5. CASE Kill
  BY <1>5, IdleTypes DEF Kill
<1>6. CASE canceler' = canceler
  BY <1>6 DEF Types, Places
<1>7. Cancel \/ MarkCanceled \/ TakeRunning \/ Stop \/ Tell \/ Kill \/ canceler' = canceler
  BY DEF WorkerNext, Caller, Extract, ensure_running, WriteParse, Receive, Deadline, Leave, RestartTake,
     RestartLaunch, ReadCommand, Extracted, Answers, ProcessEnds
<1> QED BY <1>1, <1>2, <1>3, <1>4, <1>5, <1>6, <1>7

\* And what is kept of either is a process, and a request.
LEMMA KeptTypes ==
  ASSUME Types, Places, WorkerNext
  PROVE  running' \in Pid \cup {0} /\ active' \in Request \cup {NoRequest}
<1> USE DEF workerBudgets
<1>1. active' \in Request \cup {NoRequest}
  BY DEF Types, WorkerNext, Caller, Extract, ensure_running, WriteParse, Receive, Deadline, Leave, RestartTake,
     RestartLaunch, Cancel, MarkCanceled, TakeRunning, Stop, Tell, Kill, ReadCommand, Extracted, Answers, ProcessEnds
<1>2. running' \in Pid \cup {0}
  <2>1. \/ running' = running \/ running' = 0 \/ running' \in Pid
    BY DEF WorkerNext, Caller, Extract, ensure_running, WriteParse, Receive, Deadline, Leave, RestartTake,
     RestartLaunch, Cancel, MarkCanceled, TakeRunning, Stop, Tell, Kill, ReadCommand, Extracted, Answers,
     ProcessEnds, clear_running
  <2> QED BY <2>1 DEF Types
<1> QED BY <1>1, <1>2

\* A step that leaves the processes alone leaves whoever waits waiting.
LEMMA NoneChanges ==
  ASSUME Types, Processes, process' = process, \A p \in Pid : process[p].alive /\ Waiting(p) => Waiting(p)'
  PROVE  process' \in [Pid -> Process] /\ Processes'
BY DEF Types, Processes

\* Each step leaves every process sound, and at rest unless it is waited for.
LEMMA NextProcesses ==
  ASSUME IInv, WorkerNext
  PROVE  process' \in [Pid -> Process] /\ Processes'
<1> USE DEF workerBudgets
<1>1. Types /\ Places /\ Processes
  BY DEF IInv
<1>2. CASE Extract
  <2>1. process' = process /\ \A p \in Pid : ~ Waiting(p)
    BY <1>2 DEF Extract, Waiting
  <2> QED BY <1>1, <2>1, NoneChanges
<1>3. CASE ensure_running
  <2>1. \A p \in Pid : ~ Waiting(p)
    BY <1>3 DEF ensure_running, Waiting
  <2>2. process' = process \/ \E p \in Pid : launch(p)
    BY <1>3 DEF ensure_running, LaunchFails
  <2> QED BY <1>1, <2>1, <2>2, NoneChanges, LaunchIsSound
<1>4. CASE WriteParse
  <2>4. PICK p \in Pid : p = caller.process
    BY <1>1, <1>4 DEF WriteParse, Places
  <2> DEFINE command == [type |-> "parse", request |-> caller.request]
  <2>1. p \in Pid /\ caller.request \in Request /\ caller \in Calling /\ \A o \in Pid : ~ Waiting(o)
    BY <1>1, <1>4 DEF WriteParse, Places, Types, Waiting
  <2>2. CASE ~ process[p].alive
    <3>1. process' = process
      BY <1>4, <2>2, <2>4 DEF WriteParse
    <3> QED BY <1>1, <2>1, <3>1, NoneChanges
  <2>3. CASE process[p].alive
    <3>1. command \in Command
      BY <2>1 DEF Command
    <3>2. process[p] \in Process /\ Sound(process[p]) /\ Resting(process[p])
      BY <1>1, <2>1, <2>3 DEF Types, Processes
    <3>3. Written(p, command) \in Process /\ Sound(Written(p, command))
      BY <2>1, <3>1, <3>2, WriteIsSound
    <3>4. process' = [process EXCEPT ![p] = Written(p, command)] /\ caller' = [caller EXCEPT !.at = "receive"]
      BY <1>4, <2>3, <2>4 DEF WriteParse, To
    <3>5. caller'.at = "receive" /\ caller'.process = p
      BY <2>1, <2>4, <3>4 DEF Calling
    <3>6. Waiting(p)'
      BY <3>5 DEF Waiting
    <3>7. \A o \in Pid \ {p} : process[o].alive /\ Waiting(o) => Waiting(o)'
      BY <2>1
    <3> DEFINE q == Written(p, command)
    <3>8. q \in Process /\ Sound(q) /\ process' = [process EXCEPT ![p] = q] /\ p \in Pid
      BY <2>1, <3>3, <3>4
    <3> HIDE DEF command, q
    <3> QED BY <1>1, <3>6, <3>7, <3>8, OneChanges
  <2> QED BY <2>2, <2>3
<1>5. CASE Receive
  <2>5. PICK p \in Pid : p = caller.process
    BY <1>1, <1>5 DEF Receive, Places
  <2> DEFINE line == Head(process[p].output)
             rest == [process[p] EXCEPT !.output = Tail(@)]
  <2>1. p \in Pid /\ caller.request \in Request /\ \A o \in Pid \ {p} : ~ Waiting(o)
    BY <1>1, <1>5, <2>5 DEF Receive, Places, Waiting
  <2>2. process[p] \in Process /\ Sound(process[p])
    BY <1>1, <2>1 DEF Types, Processes
  <2>3. CASE process[p].output = <<>>
    <3>1. process' = process /\ ~ process[p].alive
      BY <1>5, <2>3, <2>5 DEF Receive
    <3> QED BY <1>1, <2>1, <3>1, NoneChanges
  <2>4. CASE process[p].output # <<>>
    <3>1. /\ rest \in Process /\ Sound(rest) /\ rest.alive = process[p].alive
          /\ process[p].alive /\ line.event # "progress" => Resting(rest)
          /\ line.event = "progress" => line.request = NoRequest
      BY <2>2, <2>4, ReadLineIsSound
    <3>2. CASE line.event = "partial"
      <4> DEFINE gone == [rest EXCEPT !.alive = FALSE]
      <4>1. process' = [process EXCEPT ![p] = gone]
        BY <1>5, <2>4, <2>5, <3>2 DEF Receive
      <4>2. gone \in Process
        BY <3>1, ProcessTypes
      <4>3. /\ ~ gone.alive /\ gone.thread = rest.thread /\ gone.output = rest.output /\ gone.answer = rest.answer
        BY <3>1 DEF Process
      <4>4. rest.thread = "none"
        BY <3>1, <3>2 DEF Resting, Sound
      <4>5. Sound(gone)
        BY <3>1, <4>3, <4>4 DEF Sound
      <4> HIDE DEF gone
      <4> QED BY <1>1, <2>1, <4>1, <4>2, <4>3, <4>5, OneChanges
    <3>3. CASE line.event # "partial" /\ line.request # caller.request
      <4>1. process' = [process EXCEPT ![p] = rest] /\ caller' = caller
        BY <1>5, <2>4, <2>5, <3>3 DEF Receive
      <4>2. Waiting(p)'
        BY <1>5, <2>5, <4>1 DEF Waiting, Receive
      <4>3. \A o \in Pid \ {p} : process[o].alive /\ Waiting(o) => Waiting(o)'
        BY <2>1
      <4> HIDE DEF rest
      <4> QED BY <1>1, <2>1, <3>1, <4>1, <4>2, <4>3, OneChanges
    <3>4. CASE line.event # "partial" /\ line.request = caller.request
      <4>1. process' = [process EXCEPT ![p] = rest]
        BY <1>5, <2>4, <2>5, <3>4 DEF Receive
      <4>2. line.event # "progress"
        BY <2>1, <3>1, <3>4, RequestAssumption
      <4>3. rest.alive => Resting(rest)
        BY <3>1, <4>2
      <4> HIDE DEF rest
      <4> QED BY <1>1, <2>1, <3>1, <4>1, <4>3, OneChanges
    <3> QED BY <3>2, <3>3, <3>4
  <2> QED BY <2>3, <2>4
<1>6. CASE Deadline
  <2>1. caller.process \in Pid /\ terminate(caller.process) /\ \A o \in Pid \ {caller.process} : ~ Waiting(o)
    BY <1>1, <1>6 DEF Deadline, Places, Waiting
  <2> QED BY <1>1, <2>1, OneIsKilled
<1>7. CASE Leave \/ RestartTake
  <2>1. \A p \in Pid : ~ Waiting(p)
    BY <1>7 DEF Leave, RestartTake, Waiting
  <2>2. process' = process \/ (running \in Pid /\ terminate(running))
    BY <1>1, <1>7 DEF Leave, RestartTake, Types
  <2> QED BY <1>1, <2>1, <2>2, NoneChanges, OneIsKilled
<1>8. CASE RestartLaunch
  <2>1. \A p \in Pid : ~ Waiting(p)
    BY <1>8 DEF RestartLaunch, Waiting
  <2>2. process' = process \/ \E p \in Pid : launch(p)
    BY <1>8 DEF RestartLaunch, LaunchFails
  <2> QED BY <1>1, <2>1, <2>2, NoneChanges, LaunchIsSound
<1>9. CASE Cancel \/ MarkCanceled \/ TakeRunning \/ Stop
  <2>1. process' = process /\ caller' = caller
    BY <1>9 DEF Cancel, MarkCanceled, TakeRunning, Stop
  <2> QED BY <1>1, <2>1, NoneChanges DEF Waiting
<1>10. CASE Tell
  <2> DEFINE p == canceler.process
             command == [type |-> IF canceler.request = NoRequest THEN "shutdown" ELSE "cancel",
                         request |-> canceler.request]
  <2>1. p \in Pid /\ canceler.request \in Request \cup {NoRequest}
    BY <1>1, <1>10 DEF Tell, Places, Types, Calling
  <2>2. command \in Command /\ command.type # "parse"
    BY <2>1 DEF Command
  <2>3. process[p] \in Process /\ Sound(process[p]) /\ (process[p].alive => Waiting(p) \/ Resting(process[p]))
    BY <1>1, <2>1 DEF Types, Processes
  <2>4. process' = [process EXCEPT ![p] = Written(p, command)] /\ caller' = caller
    BY <1>10 DEF Tell
  <2> HIDE DEF p, command
  <2>5. /\ Written(p, command) \in Process /\ Sound(Written(p, command))
        /\ Written(p, command).alive => Waiting(p) \/ Resting(Written(p, command))
    BY <2>1, <2>2, <2>3, WriteIsSound
  <2>6. \A o \in Pid : Waiting(o) => Waiting(o)'
    BY <2>4 DEF Waiting
  <2> QED BY <1>1, <2>1, <2>4, <2>5, <2>6, OneChanges
<1>11. CASE Kill
  <2>1. canceler.process \in Pid /\ terminate(canceler.process) /\ caller' = caller
    BY <1>1, <1>11 DEF Kill, Places
  <2> QED BY <1>1, <2>1, OneIsKilled DEF Waiting
<1>12. CASE ReadCommand
  <2>1. PICK p \in Pid :
          /\ process[p].alive /\ process[p].input # <<>>
          /\ \E after \in Reading(p) : process' = [process EXCEPT ![p] = [after EXCEPT !.input = Tail(@)]]
    BY <1>12 DEF ReadCommand, Reading
  <2>2. PICK after \in Reading(p) : process' = [process EXCEPT ![p] = [after EXCEPT !.input = Tail(@)]]
    BY <2>1
  <2> DEFINE q == [after EXCEPT !.input = Tail(@)]
  <2>3. process[p] \in Process /\ Sound(process[p]) /\ (Waiting(p) \/ Resting(process[p]))
    BY <1>1, <2>1 DEF Types, Processes
  <2>4. q \in Process /\ Sound(q) /\ (Resting(process[p]) => Resting(q))
    BY <2>1, <2>3, CommandIsSound
  <2>5. \A o \in Pid : Waiting(o) => Waiting(o)'
    BY <1>12 DEF ReadCommand, Waiting
  <2>6. process' = [process EXCEPT ![p] = q]
    BY <2>2
  <2> HIDE DEF q
  <2> QED BY <1>1, <2>3, <2>4, <2>5, <2>6, OneChanges
<1>13. CASE Extracted
  <2>1. PICK p \in Pid : /\ process[p].thread = "extracting"
                         /\ \E event \in {"parsed", "failed", "canceled"} :
                              process' = [process EXCEPT ![p] = Finished(p, event)]
    BY <1>13 DEF Extracted
  <2>2. PICK event \in {"parsed", "failed", "canceled"} : process' = [process EXCEPT ![p] = Finished(p, event)]
    BY <2>1
  <2>3. process[p] \in Process /\ Sound(process[p])
    BY <1>1 DEF Types, Processes
  <2>4. Finished(p, event) \in Process /\ Sound(Finished(p, event))
    BY <2>1, <2>3, FinishedIsSound
  <2>5. Waiting(p)
    BY <1>1, <2>1, <2>3 DEF Processes, Sound, Resting
  <2>6. \A o \in Pid : Waiting(o) => Waiting(o)'
    BY <1>13 DEF Extracted, Waiting
  <2> QED BY <1>1, <2>2, <2>4, <2>5, <2>6, OneChanges
<1>14. CASE Answers
  <2>1. PICK p \in Pid : /\ process[p].thread = "answering"
                         /\ process' = [process EXCEPT ![p].thread = "none", ![p].output = Append(@, process[p].answer)]
    BY <1>14 DEF Answers
  <2> DEFINE q == [process[p] EXCEPT !.thread = "none", !.output = Append(@, process[p].answer)]
  <2>2. process' = [process EXCEPT ![p] = q]
    BY <1>1, <2>1 DEF Types, Process
  <2>3. process[p] \in Process /\ Sound(process[p])
    BY <1>1 DEF Types, Processes
  <2>4. q \in Process /\ Sound(q)
    BY <2>1, <2>3, AnswerIsSound
  <2>5. Waiting(p)
    BY <1>1, <2>1, <2>3 DEF Processes, Sound, Resting
  <2>6. \A o \in Pid : Waiting(o) => Waiting(o)'
    BY <1>14 DEF Answers, Waiting
  <2> HIDE DEF q
  <2> QED BY <1>1, <2>2, <2>4, <2>5, <2>6, OneChanges
<1>15. CASE ProcessEnds
  <2>1. PICK p \in Pid : terminate(p)
    BY <1>15 DEF ProcessEnds
  <2>2. \A o \in Pid : Waiting(o) => Waiting(o)'
    BY <1>15 DEF ProcessEnds, Waiting
  <2> QED BY <1>1, <2>1, <2>2, OneIsKilled
<1> QED BY <1>2, <1>3, <1>4, <1>5, <1>6, <1>7, <1>8, <1>9, <1>10, <1>11, <1>12, <1>13, <1>14, <1>15
        DEF WorkerNext, Caller

-----------------------------------------------------------------------------
(* The theorems *)

\* Before anything is launched.
LEMMA InitIInv == WorkerInit => IInv
<1> SUFFICES ASSUME WorkerInit PROVE IInv
  OBVIOUS
<1>1. NotLaunched \in Process
  <2>1. <<>> \in Seq(Command) /\ <<>> \in Seq(Line)
    BY EmptySeq
  <2>2. [request |-> NoRequest, event |-> "failed"] \in Line
    BY DEF Line, Answer
  <2>3. FALSE \in BOOLEAN /\ NoRequest \in Request \cup {NoRequest} /\ "none" \in {"none", "extracting", "answering"}
    OBVIOUS
  <2> QED BY <2>1, <2>2, <2>3, Zenon DEF NotLaunched, Process
<1>2. Types
  BY <1>1, IdleTypes DEF WorkerInit, Types
<1>3. Places
  BY IdleTypes DEF WorkerInit, Places
<1>4. /\ ~ NotLaunched.alive /\ NotLaunched.thread = "none" /\ NotLaunched.output = <<>>
  BY DEF NotLaunched
<1>5. Len(NotLaunched.output) = 0
  BY <1>4, EmptySeq
<1>6. Sound(NotLaunched)
  BY <1>4, <1>5 DEF Sound
<1>7. \A p \in Pid : process[p] = NotLaunched
  BY DEF WorkerInit
<1>8. Processes
  BY <1>4, <1>6, <1>7 DEF Processes
<1> QED BY <1>2, <1>3, <1>8 DEF IInv

\* Whatever the two processes do, one call at most has left its trace in a
\* process that is alive, and only while it is waited for.
THEOREM WorkerInvariance == WorkerSpec => []IInv
<1>1. IInv /\ [WorkerNext]_workerVars => IInv'
  <2>1. ASSUME IInv, WorkerNext PROVE IInv'
    <3>1. Types /\ Places /\ Processes
      BY <2>1 DEF IInv
    <3> QED BY <2>1, <3>1, CallerTypes, CancelerTypes, KeptTypes, NextProcesses DEF IInv, Types, Places
  <2>2. ASSUME IInv, UNCHANGED workerVars PROVE IInv'
    BY <2>2 DEF IInv, Types, Places, Processes, Waiting, workerVars
  <2> QED BY <2>1, <2>2
<1> QED BY <1>1, InitIInv, PTL DEF WorkerSpec

\* No line a worker writes refuses a document.
THEOREM NeverRefused == WorkerSpec => []WorkerIsFreeOnceItAnswered
<1>1. IInv => WorkerIsFreeOnceItAnswered
  <2> SUFFICES ASSUME IInv, NEW p \in Pid, NEW n \in DOMAIN process[p].output
               PROVE  process[p].output[n].event # "busy"
    BY DEF WorkerIsFreeOnceItAnswered
  <2>1. process[p] \in Process /\ Sound(process[p])
    BY DEF IInv, Types, Processes
  <2>2. process[p].output \in Seq(Line)
    BY <2>1, ProcessTypes
  <2>3. n \in 1..Len(process[p].output)
    BY <2>2, LenProperties
  <2> QED BY <2>1, <2>3 DEF Sound
<1> QED BY <1>1, WorkerInvariance, PTL

\* Two processes never read at once.
THEOREM NeverTwoAtOnce == WorkerSpec => []OneDocumentIsRead
<1>1. IInv => OneDocumentIsRead
  <2> SUFFICES ASSUME IInv PROVE OneDocumentIsRead
    OBVIOUS
  <2> DEFINE reading == {p \in Pid : process[p].thread = "extracting"}
  <2>1. reading \subseteq {caller.process}
    BY DEF IInv, Processes, Sound, Resting, Waiting
  <2>2. IsFiniteSet({caller.process}) /\ Cardinality({caller.process}) = 1
    BY FS_Singleton
  <2>3. Cardinality(reading) <= 1 /\ Cardinality(reading) \in Nat
    BY <2>1, <2>2, FS_Subset, FS_CardinalityType
  <2> QED BY <2>3 DEF OneDocumentIsRead
<1> QED BY <1>1, WorkerInvariance, PTL

-----------------------------------------------------------------------------
(* The extraction: one document inside the worker *)

PageRecord ==
  [page_number : Nat, source : {"native", "ocr", "anydoc", "text"}, confident : BOOLEAN,
   vision_escalated : BOOLEAN]

ReadTypes ==
  /\ reader \in {"start", "copying", "done", "failed"} \cup Readers
  /\ version \in {1, 2} /\ opened \in 0..2
  /\ copied \in Seq({1, 2})
  /\ pages \in Seq(PageRecord)
  /\ image \in Nat
  /\ seen \subseteq Row \X Column /\ corner \in Nat \X Nat

\* Every chunk is of a version between the one that was opened and the one
\* that is there now.
SnapshotSays ==
  /\ reader = "start" => copied = <<>>
  /\ reader = "copying" =>
       /\ opened <= version
       /\ \A n \in 1..Len(copied) : opened <= copied[n] /\ copied[n] <= version
  /\ SnapshotIsOneVersion

\* Pages are numbered as they come, the image is of the one that is marked,
\* and a page read badly has its warning.
PagesSay ==
  /\ \A n \in 1..Len(pages) : pages[n].page_number = n /\ (pages[n].vision_escalated <=> image = n)
  /\ image \in 0..Len(pages)
  /\ (\E n \in 1..Len(pages) : pages[n].source = "ocr" /\ ~ pages[n].confident) =>
       "LOW_OCR_CONFIDENCE" \in warnings
  /\ reader \notin {"pdf", "done", "failed"} => pages = <<>>

\* The window at a corner.
Window(S, start) == {cell \in S : InWindow(cell, start)}

\* Nothing was seen above or left of the corner, and whatever is in the
\* window at it was kept.
SheetSays ==
  /\ reader \notin {"workbook", "done", "failed"} => seen = {}
  /\ \A cell \in seen : corner[1] <= cell[1] /\ corner[2] <= cell[2]
  /\ \E last \in Nat : \A cell \in seen : cell[1] <= last /\ cell[2] <= last
  /\ Window(seen, corner) \subseteq cells /\ cells \subseteq seen
  /\ reader = "done" /\ seen # {} =>
       /\ cells = Window(seen, corner)
       /\ ("TEXT_TRUNCATED" \in warnings) <=> (cells # seen)

EInv == ReadTypes /\ SnapshotSays /\ PagesSay /\ SheetSays

\* A set of numbers with a bound has a greatest one.
LEMMA GreatestIs ==
  ASSUME NEW S \in SUBSET Nat, S # {}, NEW last \in Nat, \A x \in S : x <= last
  PROVE  Greatest(S) \in S /\ \A x \in S : x <= Greatest(S)
<1> DEFINE Less == {p \in Nat \X Nat : p[1] < p[2]}
           T == {last - x : x \in S}
<1>1. IsWellFoundedOn(Less, Nat)
  BY NatLessThanWellFounded DEF OpToRel
<1>2. T \subseteq Nat /\ T # {}
  <2>1. \A x \in S : x \in Nat /\ last - x \in Nat
    OBVIOUS
  <2> QED BY <2>1
<1>3. PICK x \in T : \A y \in T : ~ (<<y, x>> \in Less)
  <2> HIDE DEF T, Less
  <2> QED BY <1>1, <1>2, WFMin
<1>4. PICK r \in S : x = last - r
  BY <1>3
<1>5. ASSUME NEW q \in S PROVE q <= r
  <2>1. last - q \in T /\ last - q \in Nat /\ last - r \in Nat
    BY <1>2, <1>4
  <2>2. ~ (<<last - q, last - r>> \in Less)
    BY <1>3, <1>4, <2>1
  <2> QED BY <2>1, <2>2
<1>6. \E a \in S : \A b \in S : b <= a
  BY <1>5
<1>7. Greatest(S) = CHOOSE a \in S : \A b \in S : b <= a
  BY DEF Greatest
<1> QED BY <1>6, <1>7

\* How far a part of the used range goes: as far as one of its cells, and no
\* cell goes further.
LEMMA ExtentIs ==
  ASSUME NEW n \in {1, 2}, NEW S, S \subseteq Nat \X Nat, S # {}, corner \in Nat \X Nat,
         NEW last \in Nat, \A cell \in S : corner[n] <= cell[n] /\ cell[n] <= last
  PROVE  /\ \A cell \in S : cell[n] - corner[n] + 1 <= Extent(S, n)
         /\ \E cell \in S : Extent(S, n) = cell[n] - corner[n] + 1
<1> DEFINE X == {cell[n] - corner[n] + 1 : cell \in S}
<1>1. \A cell \in S : cell[n] \in Nat /\ corner[n] \in Nat
  OBVIOUS
<1>2. X \in SUBSET Nat /\ X # {} /\ last + 1 \in Nat
  BY <1>1
<1>3. \A x \in X : x <= last + 1
  BY <1>1
<1>4. Greatest(X) \in X /\ \A x \in X : x <= Greatest(X)
  <2> HIDE DEF X
  <2> QED BY <1>2, <1>3, GreatestIs
<1>5. Extent(S, n) = Greatest(X)
  BY DEF Extent
<1> QED BY <1>4, <1>5

\* Rows or columns are left out exactly when a cell is.
LEMMA ElidedIs ==
  ASSUME seen \subseteq Row \X Column, corner \in Nat \X Nat, seen # {}, NEW last \in Nat,
         \A cell \in seen : corner[1] <= cell[1] /\ corner[2] <= cell[2],
         \A cell \in seen : cell[1] <= last /\ cell[2] <= last
  PROVE  Elided(Window(seen, corner)) <=> Window(seen, corner) # seen
<1> DEFINE shown == Window(seen, corner)
<1>1. seen \subseteq Nat \X Nat /\ shown \subseteq seen
  BY SheetAssumption DEF Window
<1>2. ASSUME NEW n \in {1, 2}
      PROVE  /\ Extent(seen, n) \in Nat
             /\ \A cell \in seen : cell[n] - corner[n] + 1 <= Extent(seen, n)
  <2>1. \A cell \in seen : corner[n] <= cell[n] /\ cell[n] <= last
    OBVIOUS
  <2>2. /\ \A cell \in seen : cell[n] - corner[n] + 1 <= Extent(seen, n)
        /\ \E cell \in seen : Extent(seen, n) = cell[n] - corner[n] + 1
    BY <1>1, <2>1, ExtentIs
  <2>3. \A cell \in seen : cell[n] \in Nat /\ corner[n] \in Nat
    BY <1>1
  <2> QED BY <2>1, <2>2, <2>3
<1>3. ASSUME NEW n \in {1, 2}, NEW most \in Nat \ {0},
             \A cell \in shown : cell[n] - corner[n] < most
      PROVE  Extent(shown, n) \in Nat /\ Extent(shown, n) <= most
  <2>1. CASE shown = {}
    BY <2>1 DEF Extent
  <2>2. CASE shown # {}
    <3>1. \A cell \in shown : corner[n] <= cell[n] /\ cell[n] <= last /\ cell[n] \in Nat /\ corner[n] \in Nat
      BY <1>1
    <3>2. \E cell \in shown : Extent(shown, n) = cell[n] - corner[n] + 1
      <4>1. shown \subseteq Nat \X Nat
        BY <1>1
      <4> HIDE DEF shown
      <4> QED BY <2>2, <3>1, <4>1, ExtentIs
    <3> QED BY <1>3, <3>1, <3>2
  <2> QED BY <2>1, <2>2
<1>4. /\ MAX_SHEET_ROWS \in Nat \ {0} /\ MAX_SHEET_COLS \in Nat \ {0}
      /\ \A cell \in seen : cell \in shown <=>
           cell[1] - corner[1] < MAX_SHEET_ROWS /\ cell[2] - corner[2] < MAX_SHEET_COLS
  BY SheetAssumption DEF Window, InWindow
<1>5. /\ Extent(shown, 1) \in Nat /\ Extent(shown, 1) <= MAX_SHEET_ROWS
      /\ Extent(shown, 2) \in Nat /\ Extent(shown, 2) <= MAX_SHEET_COLS
  BY <1>1, <1>3, <1>4
<1>6. /\ Extent(seen, 1) \in Nat /\ \A cell \in seen : cell[1] - corner[1] + 1 <= Extent(seen, 1)
      /\ Extent(seen, 2) \in Nat /\ \A cell \in seen : cell[2] - corner[2] + 1 <= Extent(seen, 2)
  BY <1>2
<1>7. CASE shown = seen
  <2>1. ~ (Extent(seen, 1) > Extent(shown, 1)) /\ ~ (Extent(seen, 2) > Extent(shown, 2))
    BY <1>6, <1>7
  <2> QED BY <1>7, <2>1 DEF Elided
<1>8. CASE shown # seen
  <2>1. PICK cell \in seen : cell \notin shown
    BY <1>1, <1>8
  <2>2. cell[1] \in Nat /\ cell[2] \in Nat /\ corner[1] \in Nat /\ corner[2] \in Nat
    BY <1>1
  <2>3. \/ cell[1] - corner[1] >= MAX_SHEET_ROWS
        \/ cell[2] - corner[2] >= MAX_SHEET_COLS
    BY <1>4, <2>1, <2>2
  <2>4. Extent(seen, 1) > Extent(shown, 1) \/ Extent(seen, 2) > Extent(shown, 2)
    BY <1>4, <1>5, <1>6, <2>2, <2>3
  <2> QED BY <1>8, <2>4 DEF Elided
<1> QED BY <1>7, <1>8


\* The readers have names of their own.
LEMMA ReaderNames == Readers \cap {"start", "copying", "done", "failed"} = {}
BY DEF Readers

\* Every step keeps the types.
LEMMA ReadTypesKept == ReadTypes /\ ExtractNext => ReadTypes'
<1> SUFFICES ASSUME ReadTypes, ExtractNext PROVE ReadTypes'
  OBVIOUS
<1> USE DEF snapshotVars, documentVars, sheetVars
<1>1. ASSUME NEW record, record \in PageRecord
      PROVE  Append(pages, record) \in Seq(PageRecord) /\ <<record>> \in Seq(PageRecord)
  BY <1>1 DEF ReadTypes
<1>2. ASSUME NEW n \in Nat, NEW source \in {"native", "ocr", "anydoc", "text"},
             NEW confident \in BOOLEAN, NEW escalated \in BOOLEAN
      PROVE  /\ Append(pages, Page(n, source, confident, escalated)) \in Seq(PageRecord)
             /\ <<Page(n, source, confident, escalated)>> \in Seq(PageRecord)
  BY <1>1 DEF Page, PageRecord
<1>3. Len(pages) + 1 \in Nat
  BY LenProperties DEF ReadTypes
<1>4. CASE SourceChanges \/ Open \/ Route \/ PdfEnds
  BY <1>4 DEF SourceChanges, Open, Route, PdfEnds, Fails, ReadTypes, Readers
<1>5. CASE CopyChunk
  <2>1. version \in {1, 2} /\ copied \in Seq({1, 2}) => Append(copied, version) \in Seq({1, 2})
    OBVIOUS
  <2>2. copied' \in Seq({1, 2})
    BY <1>5, <2>1 DEF CopyChunk, ReadTypes
  <2>3. reader' \in {"copying", "failed"}
    BY <1>5 DEF CopyChunk, Fails
  <2> QED BY <1>5, <2>2, <2>3 DEF CopyChunk, ReadTypes
<1>6. CASE PdfPage
  <2>1. PICK page \in PageKind :
          OcrPage(Len(pages) + 1, page) \/ NativePage(Len(pages) + 1, page)
    BY <1>6 DEF PdfPage
  <2>2. CASE NativePage(Len(pages) + 1, page)
    <3>1. PICK escalated \in BOOLEAN :
            /\ pages' = Append(pages, Page(Len(pages) + 1, "native", TRUE, escalated))
            /\ image' = IF escalated THEN Len(pages) + 1 ELSE image
      BY <2>2, Zenon DEF NativePage
    <3>2. pages' \in Seq(PageRecord)
      BY <1>2, <1>3, <3>1
    <3>3. reader' = reader
      BY <2>2 DEF NativePage
    <3> QED BY <1>3, <1>6, <3>1, <3>2, <3>3 DEF PdfPage, ReadTypes
  <2>3. CASE OcrPage(Len(pages) + 1, page)
    <3>1. CASE reader' = "failed" /\ UNCHANGED documentVars
      BY <1>6, <3>1 DEF PdfPage, ReadTypes
    <3>2. CASE \E confident, escalated \in BOOLEAN :
                 /\ pages' = Append(pages, Page(Len(pages) + 1, "ocr", confident, escalated))
                 /\ image' = IF escalated THEN Len(pages) + 1 ELSE image
                 /\ reader' = reader
      <4>1. PICK confident \in BOOLEAN, escalated \in BOOLEAN :
                 /\ pages' = Append(pages, Page(Len(pages) + 1, "ocr", confident, escalated))
                 /\ image' = IF escalated THEN Len(pages) + 1 ELSE image
                 /\ reader' = reader
        BY <3>2
      <4>2. pages' \in Seq(PageRecord)
        BY <1>2, <1>3, <4>1
      <4> QED BY <1>3, <1>6, <4>1, <4>2 DEF PdfPage, ReadTypes
    <3> QED BY <2>3, <3>1, <3>2, Zenon DEF OcrPage, Fails
  <2> QED BY <2>1, <2>2, <2>3
<1>7. CASE ReadImage
  <2>1. CASE reader' = "failed" /\ UNCHANGED documentVars
    BY <1>7, <2>1 DEF ReadImage, ReadTypes
  <2>2. CASE \E confident \in BOOLEAN :
               pages' = <<Page(1, "ocr", confident, TRUE)>> /\ image' = 1 /\ reader' = "done"
    <3>1. pages' \in Seq(PageRecord)
      BY <1>2, <2>2
    <3>2. image' = 1 /\ reader' = "done"
      BY <2>2
    <3> QED BY <1>7, <3>1, <3>2, SMT DEF ReadImage, ReadTypes
  <2> QED BY <1>7, <2>1, <2>2 DEF ReadImage, Fails
<1>8. CASE ReadOnePage
  <2>1. CASE reader' = "failed" /\ UNCHANGED documentVars
    BY <1>8, <2>1 DEF ReadOnePage, ReadTypes
  <2>2. CASE \E source \in {"anydoc", "text"} :
               pages' = <<Page(1, source, TRUE, FALSE)>> /\ image' = image /\ reader' = "done"
    <3>1. pages' \in Seq(PageRecord)
      BY <1>2, <2>2
    <3> QED BY <1>8, <2>2, <3>1 DEF ReadOnePage, ReadTypes
  <2> QED BY <1>8, <2>1, <2>2 DEF ReadOnePage, Fails
<1>9. CASE NextCell
  <2>1. PICK cell \in Row \X Column :
          /\ seen' = seen \cup {cell}
          /\ corner' = IF seen = {} THEN cell
                       ELSE <<Lesser(corner[1], cell[1]), Lesser(corner[2], cell[2])>>
    BY <1>9 DEF NextCell
  <2>2. corner' \in Nat \X Nat
    BY <2>1, SheetAssumption DEF Lesser, ReadTypes
  <2> QED BY <1>9, <2>1, <2>2 DEF NextCell, ReadTypes
<1>10. CASE SheetEnds
  <2>1. CASE reader' = "failed" /\ UNCHANGED documentVars
    BY <1>10, <2>1 DEF SheetEnds, ReadTypes
  <2>2. CASE pages' = <<Page(1, "anydoc", TRUE, FALSE)>> /\ image' = image /\ reader' = "done"
    <3>1. pages' \in Seq(PageRecord)
      BY <1>2, <2>2
    <3> QED BY <1>10, <2>2, <3>1 DEF SheetEnds, ReadTypes
  <2> QED BY <1>10, <2>1, <2>2 DEF SheetEnds, Fails
<1> QED BY <1>4, <1>5, <1>6, <1>7, <1>8, <1>9, <1>10 DEF ExtractNext

\* The copy is routed to a reader only if the source did not change under it.
LEMMA SnapshotKept == ReadTypes /\ SnapshotSays /\ ExtractNext => SnapshotSays'
<1> SUFFICES ASSUME ReadTypes, SnapshotSays, ExtractNext PROVE SnapshotSays'
  OBVIOUS
<1> USE DEF snapshotVars, documentVars, sheetVars
<1>1. DOMAIN copied = 1..Len(copied) /\ Len(copied) \in Nat
  BY LenProperties DEF ReadTypes
<1>2. \A n \in 1..Len(copied) : copied[n] \in {1, 2}
  BY ElementOfSeq DEF ReadTypes
<1>3. ASSUME UNCHANGED <<version, opened, copied>>, reader' \in {"done", "failed", reader}
      PROVE  SnapshotSays'
  BY <1>3, ReaderNames DEF SnapshotSays, SnapshotIsOneVersion
<1>4. CASE SourceChanges
  <2>1. SnapshotIsOneVersion'
    BY <1>4 DEF SourceChanges, SnapshotSays, SnapshotIsOneVersion
  <2> QED BY <1>2, <1>4, <2>1 DEF SourceChanges, SnapshotSays, ReadTypes
<1>5. CASE Open
  <2>1. reader' \notin Readers /\ UNCHANGED copied
    BY <1>5, ReaderNames DEF Open, Fails
  <2>2. copied' = <<>> /\ reader' # "start"
    BY <1>5, <2>1 DEF Open, Fails, SnapshotSays
  <2>3. Len(copied') = 0
    BY <2>2
  <2>4. reader' = "copying" => opened' <= version'
    BY <1>5 DEF Open, Fails, ReadTypes
  <2>5. reader' = "copying" => \A n \in 1..Len(copied') : opened' <= copied'[n] /\ copied'[n] <= version'
    BY <2>3
  <2> QED BY <2>1, <2>2, <2>4, <2>5, Zenon DEF SnapshotSays, SnapshotIsOneVersion
<1>6. CASE CopyChunk
  <2>1. reader' \notin Readers
    BY <1>6, ReaderNames DEF CopyChunk, Fails
  <2>2. CASE reader' = "copying"
    <3>1. copied' = Append(copied, version) /\ UNCHANGED <<version, opened>>
      BY <1>6, <2>2 DEF CopyChunk, Fails
    <3>2. /\ Len(copied') = Len(copied) + 1 /\ copied'[Len(copied) + 1] = version
          /\ \A n \in 1..Len(copied) : copied'[n] = copied[n]
      BY <3>1 DEF ReadTypes
    <3>3. version <= version /\ opened <= version
      BY <1>6 DEF CopyChunk, SnapshotSays, ReadTypes
    <3>4. \A n \in 1..Len(copied) : opened <= copied[n] /\ copied[n] <= version
      BY <1>6 DEF CopyChunk, SnapshotSays
    <3>5. ASSUME NEW n \in 1..Len(copied') PROVE opened' <= copied'[n] /\ copied'[n] <= version'
      <4>1. n \in 1..Len(copied) \/ n = Len(copied) + 1
        BY <1>1, <3>2
      <4> QED BY <3>1, <3>2, <3>3, <3>4, <4>1
    <3>6. opened' <= version'
      BY <3>1, <3>3
    <3> QED BY <2>1, <2>2, <3>5, <3>6, Zenon DEF SnapshotSays, SnapshotIsOneVersion
  <2>3. reader' \in {"copying", "failed"}
    BY <1>6 DEF CopyChunk, Fails
  <2> QED BY <2>1, <2>2, <2>3 DEF SnapshotSays, SnapshotIsOneVersion
<1>7. CASE Route
  <2>1. CASE reader' \in Readers
    <3>1. version = opened /\ UNCHANGED <<version, opened, copied>> /\ reader = "copying"
      BY <1>7, <2>1, ReaderNames DEF Route, SameMetadata, Fails
    <3>2. \A n \in 1..Len(copied) : copied[n] = version
      BY <1>2, <3>1 DEF SnapshotSays, ReadTypes
    <3> QED BY <1>1, <2>1, <3>1, <3>2, ReaderNames DEF SnapshotSays, SnapshotIsOneVersion
  <2> QED BY <1>3, <1>7, <2>1 DEF Route, Fails
<1>8. CASE PdfPage \/ PdfEnds \/ ReadImage \/ ReadOnePage \/ NextCell \/ SheetEnds
  <2>1. UNCHANGED <<version, opened, copied>>
    BY <1>8 DEF PdfPage, PdfEnds, ReadImage, ReadOnePage, NextCell, SheetEnds
  <2>2. reader' \in {"done", "failed", reader}
    BY <1>8 DEF PdfPage, OcrPage, NativePage, PdfEnds, ReadImage, ReadOnePage, NextCell, SheetEnds, Fails
  <2> QED BY <1>3, <2>1, <2>2
<1> QED BY <1>4, <1>5, <1>6, <1>7, <1>8 DEF ExtractNext

\* A page is added with the next number, marked if the image becomes its own.
LEMMA PageAdded ==
  ASSUME ReadTypes, PagesSay, NEW record \in PageRecord, record.page_number = Len(pages) + 1,
         pages' = Append(pages, record),
         record.vision_escalated => image = 0,
         image' = IF record.vision_escalated THEN Len(pages) + 1 ELSE image,
         warnings \subseteq warnings',
         record.source = "ocr" /\ ~ record.confident => "LOW_OCR_CONFIDENCE" \in warnings',
         reader' \in {"pdf", "done", "failed"}
  PROVE  PagesSay'
<1>1. Len(pages) \in Nat /\ pages \in Seq(PageRecord)
  BY LenProperties DEF ReadTypes
<1>2. /\ Len(pages') = Len(pages) + 1 /\ pages'[Len(pages) + 1] = record
      /\ \A n \in 1..Len(pages) : pages'[n] = pages[n]
  BY <1>1
<1>3. image \in 0..Len(pages)
  BY DEF PagesSay
<1>4. image' \in 0..Len(pages')
  BY <1>1, <1>2, <1>3
<1>5. ASSUME NEW n \in 1..Len(pages')
      PROVE  pages'[n].page_number = n /\ (pages'[n].vision_escalated <=> image' = n)
  <2>1. CASE n = Len(pages) + 1
    <3>1. image # n
      BY <1>1, <1>3, <2>1
    <3> QED BY <1>2, <2>1, <3>1
  <2>2. CASE n \in 1..Len(pages)
    <3>1. pages[n].page_number = n /\ (pages[n].vision_escalated <=> image = n)
      BY <2>2 DEF PagesSay
    <3>2. n # 0 /\ n # Len(pages) + 1
      BY <1>1, <2>2
    <3> QED BY <1>2, <2>2, <3>1, <3>2
  <2> QED BY <1>1, <1>2, <2>1, <2>2
<1>6. ASSUME NEW n \in 1..Len(pages'), pages'[n].source = "ocr" /\ ~ pages'[n].confident
      PROVE  "LOW_OCR_CONFIDENCE" \in warnings'
  <2>1. n \in 1..Len(pages) \/ n = Len(pages) + 1
    BY <1>1, <1>2
  <2>2. CASE n \in 1..Len(pages)
    BY <1>2, <1>6, <2>2 DEF PagesSay
  <2> QED BY <1>2, <1>6, <2>1, <2>2
<1> QED BY <1>4, <1>5, <1>6, Zenon DEF PagesSay

\* A document of one page.
LEMMA PageAlone ==
  ASSUME NEW record \in PageRecord, record.page_number = 1, pages' = <<record>>,
         image' = IF record.vision_escalated THEN 1 ELSE 0,
         record.source = "ocr" /\ ~ record.confident => "LOW_OCR_CONFIDENCE" \in warnings',
         reader' = "done"
  PROVE  PagesSay'
<1>1. Len(pages') = 1 /\ pages'[1] = record
  OBVIOUS
<1>2. ASSUME NEW n \in 1..Len(pages') PROVE n = 1
  BY <1>1
<1>3. image' \in 0..Len(pages')
  BY <1>1
<1>4. pages'[1].page_number = 1 /\ (pages'[1].vision_escalated <=> image' = 1)
  BY <1>1
<1> QED BY <1>1, <1>2, <1>3, <1>4, Zenon DEF PagesSay

\* The pages stay.
LEMMA PagesStay ==
  ASSUME PagesSay, UNCHANGED documentVars, reader' \in {"pdf", "done", "failed"} \/ pages = <<>>
  PROVE  PagesSay'
BY DEF PagesSay, documentVars

\* Whatever reads the document numbers its pages and marks the image's own.
LEMMA PagesKept == ReadTypes /\ PagesSay /\ ExtractNext => PagesSay'
<1> SUFFICES ASSUME ReadTypes, PagesSay, ExtractNext PROVE PagesSay'
  OBVIOUS
<1>1. CASE SourceChanges \/ Open \/ CopyChunk \/ Route \/ PdfEnds \/ NextCell
  <2>1. UNCHANGED documentVars
    BY <1>1 DEF SourceChanges, Open, CopyChunk, Route, PdfEnds, NextCell
  <2>2. reader' \in {"pdf", "done", "failed"} \/ pages = <<>>
    BY <1>1 DEF SourceChanges, Open, CopyChunk, Route, PdfEnds, NextCell, Fails, PagesSay
  <2> QED BY <2>1, <2>2, PagesStay
<1>2. ASSUME UNCHANGED documentVars, reader' = "failed" PROVE PagesSay'
  BY <1>2, PagesStay
<1>3. ASSUME NEW n \in Nat, NEW source \in {"native", "ocr", "anydoc", "text"},
             NEW confident \in BOOLEAN, NEW escalated \in BOOLEAN
      PROVE  /\ Page(n, source, confident, escalated) \in PageRecord
             /\ Page(n, source, confident, escalated).page_number = n
             /\ Page(n, source, confident, escalated).source = source
             /\ Page(n, source, confident, escalated).confident = confident
             /\ Page(n, source, confident, escalated).vision_escalated = escalated
  BY Zenon DEF Page, PageRecord
<1>4. Len(pages) + 1 \in Nat
  BY LenProperties DEF ReadTypes
<1>5. reader \notin {"pdf", "done", "failed"} => pages = <<>> /\ image = 0
  BY DEF PagesSay
<1>6. CASE PdfPage
  <2>1. PICK page \in PageKind :
          OcrPage(Len(pages) + 1, page) \/ NativePage(Len(pages) + 1, page)
    BY <1>6 DEF PdfPage
  <2>2. CASE NativePage(Len(pages) + 1, page)
    <3>1. PICK escalated \in BOOLEAN :
            /\ pages' = Append(pages, Page(Len(pages) + 1, "native", TRUE, escalated))
            /\ image' = IF escalated THEN Len(pages) + 1 ELSE image
            /\ escalated => image = 0
      BY <2>2, Zenon DEF NativePage, Escalate
    <3>2. reader' = "pdf" /\ warnings' = warnings
      BY <1>6, <2>2 DEF PdfPage, NativePage
    <3>3. PICK record \in PageRecord : record = Page(Len(pages) + 1, "native", TRUE, escalated)
      <4>1. Page(Len(pages) + 1, "native", TRUE, escalated) \in PageRecord
        BY <1>4, <3>1, Zenon DEF Page, PageRecord
      <4> QED BY <4>1, Zenon
    <3>4. /\ record.page_number = Len(pages) + 1 /\ record.source = "native"
          /\ record.vision_escalated = escalated
      BY <3>3, Zenon DEF Page
    <3> QED BY <3>1, <3>2, <3>3, <3>4, PageAdded
  <2>3. CASE OcrPage(Len(pages) + 1, page)
    <3>1. CASE reader' = "failed" /\ UNCHANGED documentVars
      BY <1>2, <3>1
    <3>2. CASE \E confident, escalated \in BOOLEAN :
                 /\ pages' = Append(pages, Page(Len(pages) + 1, "ocr", confident, escalated))
                 /\ image' = IF escalated THEN Len(pages) + 1 ELSE image
                 /\ escalated => image = 0
                 /\ reader' = reader
                 /\ warnings \subseteq warnings'
                 /\ ~ confident => "LOW_OCR_CONFIDENCE" \in warnings'
      <4>1. PICK confident \in BOOLEAN, escalated \in BOOLEAN :
                 /\ pages' = Append(pages, Page(Len(pages) + 1, "ocr", confident, escalated))
                 /\ image' = IF escalated THEN Len(pages) + 1 ELSE image
                 /\ escalated => image = 0
                 /\ reader' = reader
                 /\ warnings \subseteq warnings'
                 /\ ~ confident => "LOW_OCR_CONFIDENCE" \in warnings'
        BY <3>2
      <4>2. PICK record \in PageRecord : record = Page(Len(pages) + 1, "ocr", confident, escalated)
        <5>1. Page(Len(pages) + 1, "ocr", confident, escalated) \in PageRecord
          BY <1>4, <4>1, Zenon DEF Page, PageRecord
        <5> QED BY <5>1, Zenon
      <4>3. /\ record.page_number = Len(pages) + 1 /\ record.confident = confident
            /\ record.vision_escalated = escalated
        BY <4>2, Zenon DEF Page
      <4>4. reader' = "pdf"
        BY <1>6, <4>1 DEF PdfPage
      <4> QED BY <4>1, <4>2, <4>3, <4>4, PageAdded
    <3>3. ASSUME NEW reading \in {"confident", "unsure"},
                 LET escalated == Escalate /\ reading = "unsure" IN
                   /\ pages' = Append(pages, Page(Len(pages) + 1, "ocr", reading = "confident", escalated))
                   /\ image' = IF escalated THEN Len(pages) + 1 ELSE image,
                 warnings' = warnings
                   \cup (IF page.corrupt = "none" THEN {} ELSE {"NATIVE_TEXT_CORRUPT"})
                   \cup IF reading = "unsure" THEN {"LOW_OCR_CONFIDENCE"} ELSE {},
                 reader' = reader
          PROVE  PagesSay'
      <4> DEFINE confident == reading = "confident"
                 escalated == Escalate /\ reading = "unsure"
      <4>1. confident \in BOOLEAN /\ escalated \in BOOLEAN
        BY Zenon DEF Escalate
      <4>2. /\ pages' = Append(pages, Page(Len(pages) + 1, "ocr", confident, escalated))
            /\ image' = IF escalated THEN Len(pages) + 1 ELSE image
        BY <3>3
      <4>3. /\ escalated => image = 0 
            /\ warnings \subseteq warnings'
            /\ ~ confident => "LOW_OCR_CONFIDENCE" \in warnings'
        BY <3>3 DEF Escalate
      <4> HIDE DEF confident, escalated
      <4> QED BY <3>2, <3>3, <4>1, <4>2, <4>3
    <3>4. \E reading \in {"RESOURCE_LIMIT_EXCEEDED"} \cup recognize :
            \/ reading \in Failure /\ reader' = "failed" /\ UNCHANGED documentVars
            \/ /\ reading \notin Failure
               /\ LET escalated == Escalate /\ reading = "unsure" IN
                    /\ pages' = Append(pages, Page(Len(pages) + 1, "ocr", reading = "confident", escalated))
                    /\ image' = IF escalated THEN Len(pages) + 1 ELSE image
               /\ warnings' = warnings
                   \cup (IF page.corrupt = "none" THEN {} ELSE {"NATIVE_TEXT_CORRUPT"})
                   \cup IF reading = "unsure" THEN {"LOW_OCR_CONFIDENCE"} ELSE {}
               /\ reader' = reader
      BY <2>3, Zenon DEF OcrPage, Fails
    <3>5. \A reading \in {"RESOURCE_LIMIT_EXCEEDED"} \cup recognize :
            reading \notin Failure => reading \in {"confident", "unsure"}
      BY DEF recognize, Failure
    <3> QED BY <3>1, <3>3, <3>4, <3>5
  <2> QED BY <2>1, <2>2, <2>3
<1>7. CASE ReadImage
  <2>1. CASE \E confident, unread \in BOOLEAN :
               /\ pages' = <<Page(1, "ocr", confident, TRUE)>>
               /\ image' = 1
               /\ warnings' = (IF confident THEN {} ELSE {"LOW_OCR_CONFIDENCE"})
                                 \cup IF unread THEN {"TEXT_TRUNCATED"} ELSE {}
               /\ reader' = "done"
    <3>1. PICK confident \in BOOLEAN :
               /\ pages' = <<Page(1, "ocr", confident, TRUE)>>
               /\ image' = 1
               /\ ~ confident => "LOW_OCR_CONFIDENCE" \in warnings'
               /\ reader' = "done"
      BY <2>1
    <3>2. PICK record \in PageRecord : record = Page(1, "ocr", confident, TRUE)
      <4>1. 1 \in Nat /\ TRUE \in BOOLEAN
        OBVIOUS
      <4>2. Page(1, "ocr", confident, TRUE) \in PageRecord
        BY <3>1, <4>1, Zenon DEF Page, PageRecord
      <4> QED BY <4>2, Zenon
    <3>3. record.page_number = 1 /\ record.confident = confident /\ record.vision_escalated = TRUE
      BY <3>2, Zenon DEF Page
    <3> QED BY <3>1, <3>2, <3>3, PageAlone
  <2> QED BY <1>2, <1>7, <2>1 DEF ReadImage, Fails
<1>8. ASSUME NEW source \in {"anydoc", "text"}, pages' = <<Page(1, source, TRUE, FALSE)>>,
             image' = image, image = 0, reader' = "done"
      PROVE  PagesSay'
  <2>1. PICK record \in PageRecord : record = Page(1, source, TRUE, FALSE)
    <3>1. 1 \in Nat /\ TRUE \in BOOLEAN /\ FALSE \in BOOLEAN
      OBVIOUS
    <3>2. Page(1, source, TRUE, FALSE) \in PageRecord
      BY <1>8, <3>1, Zenon DEF Page, PageRecord
    <3> QED BY <3>2, Zenon
  <2>2. record.page_number = 1 /\ record.confident = TRUE /\ record.vision_escalated = FALSE
    BY <2>1, Zenon DEF Page
  <2> QED BY <1>8, <2>1, <2>2, PageAlone
<1>9. CASE ReadOnePage
  BY <1>2, <1>5, <1>8, <1>9 DEF ReadOnePage, Fails
<1>10. CASE SheetEnds
  BY <1>2, <1>5, <1>8, <1>10 DEF SheetEnds, Fails
<1> QED BY <1>1, <1>6, <1>7, <1>9, <1>10 DEF ExtractNext

\* A sheet that is not touched, or not read to its end.
LEMMA SheetStays ==
  ASSUME SheetSays, UNCHANGED sheetVars,
         reader' # "done" \/ seen = {},
         reader' \in {"workbook", "failed"} \/ seen = {}
  PROVE  SheetSays'
BY DEF SheetSays, sheetVars, Window, InWindow

\* One more cell: the corner moves up and to the left, so what is in the
\* window at it was in the window before.
LEMMA NextCellKept == ReadTypes /\ SheetSays /\ NextCell => SheetSays'
<1> SUFFICES ASSUME ReadTypes, SheetSays, NextCell PROVE SheetSays'
  OBVIOUS
<1>1. reader' = "workbook"
  BY DEF NextCell
<1>2. PICK cell, start :
        /\ cell \in Row \X Column
        /\ start = IF seen = {} THEN cell
                   ELSE <<Lesser(corner[1], cell[1]), Lesser(corner[2], cell[2])>>
        /\ seen' = seen \cup {cell} /\ corner' = start
        /\ cells' = IF Cardinality(cells \cup {cell}) >= CELLS_BEFORE_PRUNE
                    THEN prune_to_window(cells \cup {cell}, start) ELSE cells \cup {cell}
  BY DEF NextCell
<1>3. seen \subseteq Nat \X Nat /\ cell \in Nat \X Nat /\ corner \in Nat \X Nat
  <2>1. cell \in Row \X Column
    BY <1>2, Zenon
  <2>2. cell \in Nat \X Nat
    BY <2>1, SheetAssumption
  <2> QED BY <2>2, SheetAssumption DEF ReadTypes
<1>4. /\ start \in Nat \X Nat
      /\ start[1] <= cell[1] /\ start[2] <= cell[2]
      /\ seen # {} => start[1] <= corner[1] /\ start[2] <= corner[2]
  BY <1>2, <1>3 DEF Lesser
<1>5. \A c \in seen : start[1] <= c[1] /\ start[2] <= c[2]
  <2> SUFFICES ASSUME NEW c \in seen PROVE start[1] <= c[1] /\ start[2] <= c[2]
    OBVIOUS
  <2>1. corner[1] <= c[1] /\ corner[2] <= c[2]
    BY DEF SheetSays
  <2>2. c \in Nat \X Nat
    BY <1>3
  <2> QED BY <1>3, <1>4, <2>1, <2>2
<1>6. \A c \in seen' : start[1] <= c[1] /\ start[2] <= c[2]
  BY <1>2, <1>4, <1>5
<1>7. \E last \in Nat : \A c \in seen' : c[1] <= last /\ c[2] <= last
  <2>1. PICK last \in Nat : \A c \in seen : c[1] <= last /\ c[2] <= last
    BY DEF SheetSays
  <2>2. last + cell[1] + cell[2] \in Nat
    BY <1>3
  <2>3. \A c \in seen' : c[1] <= last + cell[1] + cell[2] /\ c[2] <= last + cell[1] + cell[2]
    BY <1>2, <1>3, <2>1
  <2> QED BY <2>2, <2>3
<1>8. ASSUME NEW c \in seen, InWindow(c, start) PROVE c \in cells
  <2>1. InWindow(c, corner)
    <3>1. c \in Nat \X Nat /\ seen # {}
      BY <1>3
    <3>2. MAX_SHEET_ROWS \in Nat /\ MAX_SHEET_COLS \in Nat
      BY SheetAssumption
    <3>3. /\ c[1] \in Nat /\ corner[1] \in Nat /\ start[1] \in Nat /\ start[1] <= corner[1]
          /\ c[2] \in Nat /\ corner[2] \in Nat /\ start[2] \in Nat /\ start[2] <= corner[2]
      BY <1>3, <1>4, <3>1
    <3>4. c[1] - start[1] < MAX_SHEET_ROWS /\ c[2] - start[2] < MAX_SHEET_COLS
      BY <1>8 DEF InWindow
    <3>5. c[1] - corner[1] < MAX_SHEET_ROWS /\ c[2] - corner[2] < MAX_SHEET_COLS
      BY <3>2, <3>3, <3>4
    <3> QED BY <3>5 DEF InWindow
  <2> QED BY <2>1 DEF SheetSays, Window
<1>9. Window(seen', start) \subseteq cells' /\ cells' \subseteq seen'
  BY <1>2, <1>8 DEF SheetSays, Window, prune_to_window
<1>10. Window(seen, corner)' = Window(seen', start)
  BY <1>2 DEF Window, InWindow
<1> QED BY <1>1, <1>2, <1>6, <1>7, <1>9, <1>10, Zenon DEF SheetSays

\* At the end the window at the final corner is shown, all of it, and what
\* is left out is said.
LEMMA SheetEndsKept == ReadTypes /\ SheetSays /\ SheetEnds => SheetSays'
<1> SUFFICES ASSUME ReadTypes, SheetSays, SheetEnds PROVE SheetSays'
  OBVIOUS
<1>1. CASE reader' = "failed" /\ UNCHANGED sheetVars
  BY <1>1, SheetStays
<1>2. CASE /\ seen # {} /\ reader' = "done" /\ UNCHANGED <<corner, seen>>
           /\ cells' = prune_to_window(cells, corner)
           /\ warnings' = IF Elided(prune_to_window(cells, corner)) THEN {"TEXT_TRUNCATED"} ELSE {}
  <2>1. prune_to_window(cells, corner) = Window(seen, corner)
    BY DEF SheetSays, prune_to_window, Window
  <2>2. PICK last \in Nat : \A cell \in seen : cell[1] <= last /\ cell[2] <= last
    BY DEF SheetSays
  <2>3. Elided(Window(seen, corner)) <=> Window(seen, corner) # seen
    BY <1>2, <2>2, ElidedIs DEF SheetSays, ReadTypes
  <2>4. ("TEXT_TRUNCATED" \in warnings') <=> (cells' # seen')
    BY <1>2, <2>1, <2>3
  <2>5. Window(seen, corner)' = Window(seen, corner) /\ cells' = Window(seen, corner)
    BY <1>2, <2>1 DEF Window, InWindow
  <2>6. Window(seen, corner) \subseteq seen
    BY DEF Window
  <2> QED BY <1>2, <2>4, <2>5, <2>6 DEF SheetSays
<1> QED BY <1>1, <1>2 DEF SheetEnds, Fails, sheetVars

\* Every step keeps what is said of the sheet.
LEMMA SheetKept == ReadTypes /\ SheetSays /\ ExtractNext => SheetSays'
<1> SUFFICES ASSUME ReadTypes, SheetSays, ExtractNext PROVE SheetSays'
  OBVIOUS
<1>1. CASE \/ SourceChanges \/ Open \/ CopyChunk \/ Route \/ PdfPage \/ PdfEnds \/ ReadImage
           \/ ReadOnePage
  <2>1. UNCHANGED sheetVars
    BY <1>1 DEF SourceChanges, Open, CopyChunk, Route, PdfPage, PdfEnds, ReadImage, ReadOnePage
  <2>2. CASE seen = {}
    BY <2>1, <2>2, SheetStays
  <2>3. CASE seen # {}
    <3>1. reader \in {"workbook", "done", "failed"}
      BY <2>3 DEF SheetSays
    <3>2. SourceChanges
      BY <1>1, <3>1 DEF Open, CopyChunk, Route, PdfPage, PdfEnds, ReadImage, ReadOnePage
    <3>3. UNCHANGED <<reader, warnings>>
      BY <3>2 DEF SourceChanges, documentVars
    <3> QED BY <2>1, <3>3 DEF SheetSays, sheetVars, Window, InWindow
  <2> QED BY <2>2, <2>3
<1> QED BY <1>1, NextCellKept, SheetEndsKept DEF ExtractNext

\* A document is empty before it is opened.
LEMMA ExtractStarts == ExtractInit => EInv
<1> SUFFICES ASSUME ExtractInit PROVE EInv
  OBVIOUS
<1>1. ReadTypes /\ SnapshotSays
  BY ReaderNames DEF ExtractInit, ReadTypes, SnapshotSays, SnapshotIsOneVersion
<1>2. PagesSay
  BY DEF ExtractInit, PagesSay
<1>3. SheetSays
  BY DEF ExtractInit, SheetSays, Window
<1> QED BY <1>1, <1>2, <1>3 DEF EInv

\* What a document says of itself while it is read, however long it is.
THEOREM ExtractionInvariance == ExtractSpec => []EInv
<1>1. EInv /\ [ExtractNext]_extractVars => EInv'
  <2> SUFFICES ASSUME EInv, [ExtractNext]_extractVars PROVE EInv'
    OBVIOUS
  <2>1. CASE ExtractNext
    BY <2>1, ReadTypesKept, SnapshotKept, PagesKept, SheetKept DEF EInv
  <2>2. CASE UNCHANGED extractVars
    BY <2>2 DEF EInv, extractVars, ReadTypes, SnapshotSays, SnapshotIsOneVersion, PagesSay,
                SheetSays, Window, InWindow
  <2> QED BY <2>1, <2>2
<1> QED BY <1>1, ExtractStarts, PTL DEF ExtractSpec

\* snapshot_source's comparison of the metadata is enough: no document is of
\* two versions of its source.
THEOREM OneVersionIsRead == ExtractSpec => []SnapshotIsOneVersion
<1>1. EInv => SnapshotIsOneVersion
  BY DEF EInv, SnapshotSays
<1> QED BY <1>1, ExtractionInvariance, PTL

\* adapt_document accepts every document, no warning is missing, the image is
\* of the marked page, and a pruned sheet shows its window and says so.
THEOREM DocumentIsRight == ExtractSpec => []DocumentIsWhatWasRead
<1>1. ASSUME EInv PROVE DocumentIsWhatWasRead
  <2>1. DOMAIN pages = 1..Len(pages) /\ Len(pages) \in Nat /\ image \in 0..Len(pages)
    BY <1>1, LenProperties DEF EInv, ReadTypes, PagesSay
  <2>2. \A n \in 1..Len(pages) : pages[n].page_number = n /\ (pages[n].vision_escalated <=> image = n)
    BY <1>1 DEF EInv, PagesSay
  <2>3. {pages[n].page_number : n \in DOMAIN pages} = 1..Len(pages)
    BY <2>1, <2>2
  <2>4. adapt_document
    <3>1. Cardinality(1..Len(pages)) = Len(pages)
      <4>1. PICK n \in Nat : n = Len(pages)
        BY <2>1
      <4>2. 1 \in Int /\ n \in Int
        BY <4>1
      <4>3. Cardinality(1..n) = IF 1 > n THEN 0 ELSE n - 1 + 1
        BY <4>2, FS_Interval
      <4> QED BY <4>1, <4>3
    <3>2. 0 \notin 1..Len(pages) /\ (image # 0 => image \in 1..Len(pages))
      BY <2>1
    <3> QED BY <2>3, <3>1, <3>2, Zenon DEF adapt_document
  <2>5. parser_warnings = warnings
    BY <1>1, <2>1 DEF parser_warnings, EInv, PagesSay
  <2>6. {pages[n].page_number : n \in {k \in DOMAIN pages : pages[k].vision_escalated}} = {image} \ {0}
    <3>1. {k \in DOMAIN pages : pages[k].vision_escalated} = {image} \ {0}
      BY <2>1, <2>2
    <3>2. image # 0 => pages[image].page_number = image
      BY <2>1, <2>2
    <3> QED BY <3>1, <3>2
  <2>7. reader = "done" /\ seen # {} =>
         /\ cells = {cell \in seen : InWindow(cell, corner)}
         /\ ("TEXT_TRUNCATED" \in warnings) <=> (cells # seen)
    BY <1>1 DEF EInv, SheetSays, Window
  <2> QED BY <2>4, <2>5, <2>6, <2>7 DEF DocumentIsWhatWasRead
<1> QED BY <1>1, ExtractionInvariance, PTL

-----------------------------------------------------------------------------
(* The analysis: the names a proposal carries *)

\* A set of places has an earliest one.
LEMMA EarliestIs ==
  ASSUME NEW places \in SUBSET Nat, places # {}
  PROVE  Earliest(places) \in places /\ \A j \in places : Earliest(places) <= j
<1> DEFINE Less == {p \in Nat \X Nat : p[1] < p[2]}
<1>1. IsWellFoundedOn(Less, Nat)
  BY NatLessThanWellFounded DEF OpToRel
<1>2. PICK i \in places : \A j \in places : ~ (<<j, i>> \in Less)
  <2> HIDE DEF Less
  <2> QED BY <1>1, WFMin
<1>3. ASSUME NEW j \in places PROVE i <= j
  <2>1. i \in Nat /\ j \in Nat
    OBVIOUS
  <2>2. ~ (<<j, i>> \in Less)
    BY <1>2
  <2> QED BY <2>1, <2>2
<1> QED BY <1>3, Zenon DEF Earliest

\* A supported name is given first somewhere.
LEMMA GivenFirst ==
  ASSUME NEW names \in Seq(STRING), NEW s, NEW j \in DOMAIN names, names[j] \in s.parties
  PROVE  \E i \in Supported(names, s) : i <= j /\ names[i] = names[j]
<1> DEFINE places == {i \in DOMAIN names : names[i] = names[j]}
<1>1. DOMAIN names = 1..Len(names) /\ Len(names) \in Nat
  BY LenProperties
<1>2. places \subseteq Nat /\ j \in places
  BY <1>1
<1>3. Earliest(places) \in places /\ \A k \in places : Earliest(places) <= k
  <2> HIDE DEF places
  <2> QED BY <1>2, EarliestIs
<1>4. PICK i \in places : \A k \in places : i <= k
  BY <1>3
<1>5. \A k \in 1..(i - 1) : names[k] # names[i]
  BY <1>1, <1>4
<1>6. i \in Supported(names, s)
  BY <1>4, <1>5 DEF Supported
<1> QED BY <1>2, <1>4, <1>6

\* None, one, or the first two of them.
LEMMA FirstTwoIs ==
  ASSUME NEW names \in Seq(STRING), NEW s
  PROVE  LET places == Supported(names, s) IN
         \/ places = {} /\ FirstTwo(names, s) = <<>>
         \/ \E a \in places : places = {a} /\ FirstTwo(names, s) = <<names[a]>>
         \/ \E a, b \in places :
              /\ a < b /\ \A c \in places : c = a \/ b <= c
              /\ names[a] # names[b]
              /\ FirstTwo(names, s) = <<names[a], names[b]>>
<1> DEFINE places == Supported(names, s)
           a == Earliest(places)
           rest == places \ {a}
           b == Earliest(rest)
<1>1. DOMAIN names = 1..Len(names) /\ Len(names) \in Nat
  BY LenProperties
<1>2. places \in SUBSET Nat /\ rest \in SUBSET Nat
  BY <1>1 DEF Supported
<1>3. CASE places = {}
  BY <1>3 DEF FirstTwo
<1>4. CASE places # {} /\ rest = {}
  <2>1. a \in places
    <3> HIDE DEF places
    <3> QED BY <1>2, <1>4, EarliestIs
  <2>2. places = {a}
    BY <1>4, <2>1
  <2>3. FirstTwo(names, s) = <<names[a]>>
    BY <1>4 DEF FirstTwo
  <2> QED BY <2>1, <2>2, <2>3
<1>5. CASE places # {} /\ rest # {}
  <2>1. a \in places /\ \A c \in places : a <= c
    <3> HIDE DEF places
    <3> QED BY <1>2, <1>5, EarliestIs
  <2>2. b \in rest /\ \A c \in rest : b <= c
    <3> HIDE DEF rest
    <3> QED BY <1>2, <1>5, EarliestIs
  <2>3. FirstTwo(names, s) = <<names[a], names[b]>>
    BY <1>5 DEF FirstTwo
  <2>4. b \in places /\ b # a /\ \A c \in places : c = a \/ b <= c
    BY <2>2
  <2>5. a < b /\ a \in Nat /\ b \in Nat
    BY <1>2, <2>1, <2>4
  <2>6. names[a] # names[b]
    <3>1. a \in 1..(b - 1)
      <4>1. a \in 1..Len(names)
        BY <1>1, <2>1 DEF Supported
      <4> HIDE DEF a, b
      <4> QED BY <2>5, <4>1
    <3>2. \A j \in 1..(b - 1) : names[j] # names[b]
      BY <2>4 DEF Supported
    <3> QED BY <3>1, <3>2
  <2> HIDE DEF a, b
  <2> QED BY <2>1, <2>3, <2>4, <2>5, <2>6
<1> QED BY <1>3, <1>4, <1>5

\* The two supported names given first are the two that are carried.
LEMMA NamedAre ==
  ASSUME reply.parties \in Seq(STRING), NEW party, NEW other, FirstNamed(party, other)
  PROVE  FirstTwo(reply.parties, digest) \in {<<party, other>>, <<other, party>>}
<1> DEFINE names == reply.parties
           places == Supported(names, digest)
<1>1. DOMAIN names = 1..Len(names) /\ Len(names) \in Nat
  BY LenProperties
<1>2. places \subseteq 1..Len(names) /\ \A i \in places : names[i] \in digest.parties
  BY <1>1 DEF Supported
<1>3. ASSUME NEW name \in {party, other} PROVE \E i \in places : names[i] = name
  <2>1. PICK j \in DOMAIN names : names[j] = name
    BY <1>3 DEF FirstNamed, NamesIn
  <2>2. name \in digest.parties
    BY <1>3 DEF FirstNamed
  <2> QED BY <2>1, <2>2, GivenFirst
<1>4. party # other
  BY DEF FirstNamed
<1>5. PICK a \in places, b \in places :
        /\ a < b /\ \A c \in places : c = a \/ b <= c
        /\ names[a] # names[b]
        /\ FirstTwo(names, digest) = <<names[a], names[b]>>
  <2>1. PICK i \in places, k \in places : names[i] = party /\ names[k] = other
    BY <1>3
  <2>2. i # k
    BY <1>4, <2>1
  <2>3. \/ places = {} /\ FirstTwo(names, digest) = <<>>
        \/ \E a \in places : places = {a} /\ FirstTwo(names, digest) = <<names[a]>>
        \/ \E a, b \in places :
              /\ a < b /\ \A c \in places : c = a \/ b <= c
              /\ names[a] # names[b]
              /\ FirstTwo(names, digest) = <<names[a], names[b]>>
    BY FirstTwoIs
  <2> QED BY <2>1, <2>2, <2>3
<1>6. ASSUME NEW i \in places, names[i] \notin {party, other}, NEW name \in {party, other}
      PROVE  \E k \in places : k < i /\ names[k] = name
  <2>1. i \in DOMAIN names /\ names[i] \in digest.parties \ {party, other}
    BY <1>1, <1>2, <1>6
  <2>2. PICK j \in 1..(i - 1) : names[j] = name
    BY <1>6, <2>1 DEF FirstNamed
  <2>3. j \in DOMAIN names /\ j < i /\ j \in Nat /\ i \in Nat
    BY <1>1, <2>1, <2>2
  <2>4. names[j] \in digest.parties
    BY <1>6, <2>2 DEF FirstNamed
  <2>5. PICK k \in places : k <= j /\ names[k] = names[j]
    BY <2>3, <2>4, GivenFirst
  <2>6. k \in Nat
    BY <1>2
  <2> QED BY <2>2, <2>3, <2>5, <2>6
<1>7. a \in Nat /\ b \in Nat /\ \A c \in places : c \in Nat
  BY <1>2
<1>8. names[a] \in {party, other}
  <2>1. ASSUME names[a] \notin {party, other} PROVE FALSE
    <3>1. PICK k \in places : k < a
      BY <1>6, <2>1
    <3> QED BY <1>5, <1>7, <3>1
  <2> QED BY <2>1
<1>9. names[b] \in {party, other}
  <2>1. ASSUME names[b] \notin {party, other} PROVE FALSE
    <3>1. PICK k \in places : k < b /\ names[k] = party
      BY <1>6, <2>1
    <3>2. PICK l \in places : l < b /\ names[l] = other
      BY <1>6, <2>1
    <3>3. k = a /\ l = a
      BY <1>5, <1>7, <3>1, <3>2
    <3> QED BY <1>4, <3>1, <3>2, <3>3
  <2> QED BY <2>1
<1> QED BY <1>5, <1>8, <1>9

-----------------------------------------------------------------------------
(* What validate does *)

\* The stages of validate, one after the other.
Completed(r, s) == complete_type_from_title(validate_document_type(r).type, s)
Typed(r, s) == IF Completed(r, s) = None THEN infer_document_type(s) ELSE Completed(r, s)
Dated(r, s) == validate_date(r, s, Typed(r, s))
Carried(r, s) == validate_parties(r, s).parties
Repaired(r, s) ==
  repair_issued_relation(Typed(r, s), Carried(r, s), relation_of(r, Carried(r, s)), s)

\* validate does them in that order.
LEMMA ValidateIs ==
  ASSUME NEW r, NEW s
  PROVE  /\ validate(r, s).type = Typed(r, s)
         /\ validate(r, s).date = Dated(r, s).date
         /\ validate(r, s).parties = truncate(Repaired(r, s).parties, Repaired(r, s).relation)
         /\ validate(r, s).relation = Repaired(r, s).relation
<1>1. validate(r, s).type = Typed(r, s)
  BY Zenon DEF validate, Typed, Completed
<1>2. validate(r, s).date = Dated(r, s).date
  BY Zenon DEF validate, Dated, Typed, Completed
<1>3. validate(r, s).parties = truncate(Repaired(r, s).parties, Repaired(r, s).relation)
  BY Zenon DEF validate, Repaired, Carried, Typed, Completed
<1>4. validate(r, s).relation = Repaired(r, s).relation
  BY Zenon DEF validate, Repaired, Carried, Typed, Completed
<1> QED BY <1>1, <1>2, <1>3, <1>4

\* A proposal without a reason met every check.
LEMMA ReasonsAre ==
  ASSUME NEW r, NEW s, validate(r, s).reasons = {}
  PROVE  /\ validate_document_type(r).supported
         /\ Completed(r, s) = None => Typed(r, s) = None
         /\ validate_document_type(r).supported => Typed(r, s) # None
         /\ Dated(r, s).supported /\ Dated(r, s).date # None
         /\ validate_parties(r, s).supported
         /\ validate_description(r) = {}
         /\ r.doubt \notin {"unsure", "asks"} /\ ~ s.warned
<1>1. validate(r, s).reasons =
        When(~ validate_document_type(r).supported, "TypeUnsupported")
          \cup When(Completed(r, s) = None /\ Typed(r, s) # None, "TypeInferred")
          \cup When(Typed(r, s) = None /\ validate_document_type(r).supported, "TypeMissing")
          \cup When(~ Dated(r, s).supported, "DateUnsupported")
          \cup When(Dated(r, s).supported /\ Dated(r, s).date = None, "DateMissing")
          \cup When(~ validate_parties(r, s).supported, "PartyUnsupported")
          \cup validate_description(r)
          \cup When(r.doubt = "unsure", "LowConfidence")
          \cup When(r.doubt = "asks", "ModelRequestedReview")
          \cup When(s.warned, "ParserWarning")
  BY Zenon DEF validate, Dated, Typed, Completed
<1>2. ASSUME NEW condition, NEW reason, When(condition, reason) = {} PROVE ~ condition
  BY <1>2, Zenon DEF When
<1>3. /\ When(~ validate_document_type(r).supported, "TypeUnsupported") = {}
      /\ When(Completed(r, s) = None /\ Typed(r, s) # None, "TypeInferred") = {}
      /\ When(Typed(r, s) = None /\ validate_document_type(r).supported, "TypeMissing") = {}
      /\ When(~ Dated(r, s).supported, "DateUnsupported") = {}
      /\ When(Dated(r, s).supported /\ Dated(r, s).date = None, "DateMissing") = {}
      /\ When(~ validate_parties(r, s).supported, "PartyUnsupported") = {}
      /\ validate_description(r) = {}
      /\ When(r.doubt = "unsure", "LowConfidence") = {}
      /\ When(r.doubt = "asks", "ModelRequestedReview") = {}
      /\ When(s.warned, "ParserWarning") = {}
  BY <1>1
<1> QED BY <1>3, Zenon DEF When

\* What the engine adds is a reason.
LEMMA AddedReason ==
  ASSUME NEW r, NEW s, NEW more,
         NEW v, v = [validate(r, s) EXCEPT !.reasons = @ \cup more]
  PROVE  /\ v.type = validate(r, s).type /\ v.date = validate(r, s).date
         /\ v.parties = validate(r, s).parties /\ v.relation = validate(r, s).relation
         /\ v.reasons = validate(r, s).reasons \cup more
BY Zenon DEF validate

-----------------------------------------------------------------------------
(* What a validated proposal is *)

Made(r, s) == [validate(r, s) EXCEPT !.reasons = @ \cup When(barely_readable(s), "ParserWarning")]

Proposed ==
  /\ digest # Unset => digest \in Sources
  /\ Judged => digest # Unset /\ reply \in Replies(digest) /\ validated = Made(reply, digest)

\* Whatever document the extraction hands over and the model replies to.
LEMMA ProposedAlways == AnalysisSpec => []Proposed
<1>1. AnalysisInit => Proposed
  BY DEF AnalysisInit, Proposed, Judged
<1>2. Proposed /\ [AnalysisNext]_analysisVars => Proposed'
  <2> SUFFICES ASSUME Proposed, [AnalysisNext]_analysisVars PROVE Proposed'
    OBVIOUS
  <2>1. CASE Distill
    BY <2>1 DEF Distill, Proposed, Judged
  <2>2. CASE analyze_digest
    BY <2>2 DEF analyze_digest, Proposed, Judged, Made
  <2>3. CASE UNCHANGED analysisVars
    BY <2>3 DEF analysisVars, Proposed, Judged
  <2> QED BY <2>1, <2>2, <2>3 DEF AnalysisNext
<1> QED BY <1>1, <1>2, PTL DEF AnalysisSpec

\* A proposal, part by part.
LEMMA ProposalIs ==
  ASSUME Proposed, Judged
  PROVE  /\ digest \in Source /\ reply \in Reply
         /\ validated.type = Typed(reply, digest)
         /\ validated.date = Dated(reply, digest).date
         /\ validated.parties =
              truncate(Repaired(reply, digest).parties, Repaired(reply, digest).relation)
         /\ validated.relation = Repaired(reply, digest).relation
         /\ validated.reasons =
              validate(reply, digest).reasons \cup When(barely_readable(digest), "ParserWarning")
<1>1. digest \in Sources /\ reply \in Replies(digest) /\ validated = Made(reply, digest)
  BY DEF Proposed
<1>2. digest \in Source /\ reply \in Reply
  BY <1>1, AnalysisAssumption
<1>3. /\ validated.type = validate(reply, digest).type
      /\ validated.date = validate(reply, digest).date
      /\ validated.parties = validate(reply, digest).parties
      /\ validated.relation = validate(reply, digest).relation
      /\ validated.reasons =
           validate(reply, digest).reasons \cup When(barely_readable(digest), "ParserWarning")
  BY <1>1, AddedReason DEF Made
<1> QED BY <1>2, <1>3, ValidateIs

\* One of two, exactly, is nominated.
LEMMA OneIsNominated ==
  ASSUME NEW S \in SUBSET {1, 2}
  PROVE  /\ Cardinality(S) = 1 <=> ~ (1 \in S <=> 2 \in S)
         /\ \A i \in {1, 2} : Cardinality(S) = 1 /\ i \in S => (CHOOSE k \in S : TRUE) = i
<1>1. S = {} \/ S = {1} \/ S = {2} \/ S = {1, 2}
  OBVIOUS
<1>2. Cardinality({}) = 0 /\ Cardinality({1}) = 1 /\ Cardinality({2}) = 1
  BY FS_EmptySet, FS_Singleton
<1>3. Cardinality({1, 2}) = 2
  <2>1. IsFiniteSet({1}) /\ Cardinality({1} \cup {2}) = Cardinality({1}) + 1
    BY FS_Singleton, FS_AddElement
  <2>2. {1} \cup {2} = {1, 2}
    OBVIOUS
  <2> QED BY <1>2, <2>1, <2>2
<1>4. ASSUME NEW i \in {1, 2}, Cardinality(S) = 1, i \in S PROVE (CHOOSE k \in S : TRUE) = i
  <2>1. S = {i}
    BY <1>1, <1>3, <1>4
  <2> QED BY <2>1
<1>5. Cardinality(S) = 1 <=> ~ (1 \in S <=> 2 \in S)
  <2>1. CASE S = {}
    BY <1>2, <2>1
  <2>2. CASE S = {1}
    BY <1>2, <2>2
  <2>3. CASE S = {2}
    BY <1>2, <2>3
  <2>4. CASE S = {1, 2}
    BY <1>3, <2>4
  <2> QED BY <1>1, <2>1, <2>2, <2>3, <2>4
<1> QED BY <1>4, <1>5

\* repair_issued_relation drops a side only when the lines agree on the other.
LEMMA BillIs ==
  ASSUME Proposed, Judged, reply.relation = "between", TypeKind(validated.type, digest) = "invoice",
         NEW party, NEW other, FirstNamed(party, other)
  PROVE  /\ validated.relation = "between" => (Issuer(party, other) <=> Issuer(other, party))
         /\ validated.relation = "from" /\ validated.parties = <<party>> =>
              Issuer(party, other) /\ ~ Issuer(other, party)
<1>1. reply.parties \in Seq(STRING) /\ TypeKind(Typed(reply, digest), digest) = "invoice"
  BY ProposalIs DEF Reply
<1>2. PICK x \in {party, other}, y \in {party, other} :
        x # y /\ Carried(reply, digest) = <<x, y>>
  BY <1>1, NamedAre DEF Carried, validate_parties, FirstNamed
<1> DEFINE carried == <<x, y>>
           S == nominees(carried, digest)
<1>3. Len(carried) = 2 /\ carried[1] = x /\ carried[2] = y /\ carried # <<>>
  OBVIOUS
<1>4. relation_of(reply, carried) = "between"
  BY <1>3 DEF relation_of
<1>5. S \in SUBSET {1, 2} /\ (1 \in S <=> Issuer(x, y)) /\ (2 \in S <=> Issuer(y, x))
  BY <1>3 DEF nominees, Issuer
<1>6. Repaired(reply, digest) = repair_issued_relation(Typed(reply, digest), carried, "between", digest)
  BY <1>2, <1>4 DEF Repaired
<1>7. CASE Cardinality(S) # 1
  <2>1. Issuer(x, y) <=> Issuer(y, x)
    BY <1>5, <1>7, OneIsNominated
  <2>2. Repaired(reply, digest).relation = "between"
    BY <1>6, <1>7 DEF repair_issued_relation
  <2> QED BY <1>2, <2>1, <2>2, ProposalIs
<1>8. CASE Cardinality(S) = 1
  <2>1. PICK k \in {1, 2} : k \in S
    BY <1>5, <1>8, OneIsNominated
  <2>2. (CHOOSE i \in S : TRUE) = k
    BY <1>5, <1>8, <2>1, OneIsNominated
  <2>3. Repaired(reply, digest) = [parties |-> <<carried[k]>>, relation |-> "from"]
    BY <1>1, <1>3, <1>6, <1>8, <2>2 DEF repair_issued_relation
  <2>4. Repaired(reply, digest).parties = <<carried[k]>> /\ Repaired(reply, digest).relation = "from"
    BY <2>3
  <2>5. validated.parties = <<carried[k]>> /\ validated.relation = "from"
    <3>1. truncate(<<carried[k]>>, "from") = <<carried[k]>>
      <4> DEFINE alone == <<carried[k]>>
      <4>1. alone \in Seq({carried[k]}) /\ Len(alone) = 1
        OBVIOUS
      <4>2. SubSeq(alone, 1, 1) = alone
        <5> HIDE DEF alone
        <5> QED BY <4>1, SubSeqFull
      <4> QED BY <4>2 DEF truncate
    <3> QED BY <2>4, <3>1, ProposalIs
  <2>6. ~ (Issuer(x, y) <=> Issuer(y, x))
    BY <1>5, <1>8, OneIsNominated
  <2>7. validated.parties = <<party>> => carried[k] = party
    BY <2>5
  <2>8. k = 1 => Issuer(x, y)
    BY <1>5, <2>1
  <2>9. k = 2 => Issuer(y, x)
    BY <1>5, <2>1
  <2> QED BY <1>2, <1>3, <2>5, <2>6, <2>7, <2>8, <2>9
<1> QED BY <1>7, <1>8

\* A bill between two parties has no issuer its lines agree on, and a bill
\* from one of them has him, whatever else the reply names.
THEOREM BillsAreFromTheirIssuers == AnalysisSpec => []BillIsFromItsIssuer
<1>1. Proposed => BillIsFromItsIssuer
  BY BillIs DEF BillIsFromItsIssuer
<1> QED BY <1>1, ProposedAlways, PTL

-----------------------------------------------------------------------------
(* A proposal without a reason *)

\* validate_date takes the date from the model only where some statement of it
\* is the document's own.
LEMMA DateIsTheDocuments ==
  ASSUME NEW r, NEW s, NEW type,
         validate_date(r, s, type).supported, validate_date(r, s, type).date # None
  PROVE  /\ digest_contains_date(r.date, s)
         /\ validate_date(r, s, type).date = r.date =>
              \E statement \in Stating(r.date, s) : statement.wording \notin {"reference", "wrapped"}
<1> DEFINE v == validate_date(r, s, type)
<1>1. r.date # None /\ digest_contains_date(r.date, s)
  <2>1. CASE r.date = None
    <3>1. v = [date |-> None, role |-> None, supported |-> TRUE]
      BY <2>1 DEF validate_date
    <3> QED BY <3>1
  <2>2. CASE r.date # None /\ ~ digest_contains_date(r.date, s)
    <3>1. v = [date |-> None, role |-> None, supported |-> FALSE]
      BY <2>2 DEF validate_date
    <3> QED BY <3>1
  <2> QED BY <2>1, <2>2
<1>2. CASE ~ tainted(r.date, s, type)
  BY <1>1, <1>2 DEF tainted, reference_wrapped, reference_introduced, names_this_document
<1>3. CASE tainted(r.date, s, type)
  <2> DEFINE others == alternates(r.date, s)
  <2>1. Cardinality(others) = 1
    <3>1. ASSUME Cardinality(others) # 1 PROVE FALSE
      <4>1. v = [date |-> None, role |-> None, supported |-> FALSE]
        BY <1>1, <1>3, <3>1 DEF validate_date
      <4> QED BY <4>1
    <3> QED BY <3>1
  <2>2. others # {}
    <3>1. Cardinality({}) = 0
      BY FS_EmptySet
    <3> QED BY <2>1, <3>1
  <2>3. v = [date |-> CHOOSE d \in others : TRUE, role |-> "effective", supported |-> TRUE]
    BY <1>1, <1>3, <2>1 DEF validate_date
  <2>4. v.date \in others
    BY <2>2, <2>3
  <2>5. v.date # r.date
    BY <2>4 DEF alternates
  <2> QED BY <1>1, <2>5
<1> QED BY <1>2, <1>3

\* The parties fit the relation they are given with.
LEMMA PartiesFit ==
  ASSUME NEW r \in Reply, NEW s
  PROVE  LET relation == Repaired(r, s).relation
             parties == truncate(Repaired(r, s).parties, relation)
         IN /\ relation = "between" => Len(parties) = 2
            /\ relation \in {"for", "with", "from", "to"} => Len(parties) = 1
<1> DEFINE names == r.parties
           carried == Carried(r, s)
           relation == Repaired(r, s).relation
           kept == Repaired(r, s).parties
<1>1. names \in Seq(STRING)
  BY DEF Reply
<1>2. carried = FirstTwo(names, s)
  BY DEF Carried, validate_parties
<1>3. \/ carried = <<>>
      \/ \E x : carried = <<x>>
      \/ \E x, y : carried = <<x, y>>
  BY <1>1, <1>2, FirstTwoIs
<1>4. ASSUME NEW z PROVE Len(SubSeq(<<z>>, 1, 1)) = 1
  <2>1. <<z>> \in Seq({z}) /\ Len(<<z>>) = 1
    OBVIOUS
  <2>2. SubSeq(<<z>>, 1, 1) = <<z>>
    BY <2>1, SubSeqFull
  <2> QED BY <2>1, <2>2
<1>5. ASSUME NEW x, NEW y PROVE Len(SubSeq(<<x, y>>, 1, 1)) = 1
  <2>1. <<x, y>> \in Seq({x, y}) /\ Len(<<x, y>>) = 2
    OBVIOUS
  <2> QED BY <2>1, SubSeqProperties
<1>6. CASE carried = <<>>
  <2>1. Len(carried) # 2 /\ relation_of(r, carried) = "none"
    BY <1>6 DEF relation_of
  <2>2. relation = "none"
    BY <2>1 DEF Repaired, repair_issued_relation
  <2> QED BY <2>2
<1>7. CASE \E x : carried = <<x>>
  <2>1. PICK x : carried = <<x>>
    BY <1>7
  <2>2. Len(carried) = 1 /\ relation_of(r, carried) # "between"
    BY <2>1 DEF relation_of
  <2>3. kept = carried /\ relation = relation_of(r, carried)
    BY <2>2 DEF Repaired, repair_issued_relation
  <2> QED BY <1>4, <2>1, <2>2, <2>3 DEF truncate
<1>8. CASE \E x, y : carried = <<x, y>>
  <2>1. PICK x, y : carried = <<x, y>>
    BY <1>8
  <2>2. \/ kept = carried /\ Len(carried) = 2
        \/ relation = "from" /\ \E z : kept = <<z>>
    BY <2>1 DEF Repaired, repair_issued_relation
  <2>3. CASE kept = carried /\ Len(carried) = 2
    BY <1>5, <2>1, <2>3 DEF truncate
  <2>4. CASE relation = "from" /\ \E z : kept = <<z>>
    BY <1>4, <2>4 DEF truncate
  <2> QED BY <2>2, <2>3, <2>4
<1> QED BY <1>3, <1>6, <1>7, <1>8

\* Whatever the model replies to whatever document, a proposal that is filed
\* unseen keeps what the reply said, and the document supports it.
THEOREM ReadyIsWhatTheModelSaid == AnalysisSpec => []ReadyKeepsTheReply
<1>1. Proposed => ReadyKeepsTheReply
  <2> SUFFICES ASSUME Proposed, Ready PROVE ReadyKeepsTheReply
    BY DEF ReadyKeepsTheReply
  <2> DEFINE r == reply
             s == digest
  <2>1. Judged /\ validated.reasons = {}
    BY DEF Ready
  <2>2. r \in Reply /\ s \in Source
    BY <2>1, ProposalIs
  <2>3. validate(r, s).reasons = {} /\ When(barely_readable(s), "ParserWarning") = {}
    BY <2>1, ProposalIs
  <2>4. digest.readable /\ ~ digest.warned
    <3>1. ~ barely_readable(s)
      BY <2>3, Zenon DEF When
    <3>2. ~ s.warned
      BY <2>3, ReasonsAre
    <3> QED BY <3>1, <3>2 DEF barely_readable
  <2>5. validated.type # None /\ r.type \notin {None, "invented"}
    <3>1. /\ validate_document_type(r).supported
          /\ Typed(r, s) # None /\ Completed(r, s) # None
      BY <2>3, ReasonsAre
    <3>2. CASE r.type = None
      <4>1. validate_document_type(r).type = None
        BY <3>2 DEF validate_document_type
      <4>2. None # "ending"
        BY AnalysisAssumption DEF Type
      <4>3. Completed(r, s) = None
        BY <4>1, <4>2 DEF Completed, complete_type_from_title
      <4> QED BY <3>1, <4>3
    <3>3. CASE r.type # None /\ r.type = "invented"
      <4>1. validate_document_type(r) = [type |-> None, supported |-> FALSE]
        BY <3>3 DEF validate_document_type
      <4> QED BY <3>1, <4>1
    <3>4. validated.type # None
      BY <2>1, <3>1, ProposalIs
    <3> QED BY <3>2, <3>3, <3>4
  <2>6. /\ validated.date # None /\ digest_contains_date(reply.date, digest)
        /\ validated.date = reply.date => ~ Foreign(reply.date)
    <3>1. /\ Dated(r, s).supported /\ Dated(r, s).date # None
          /\ validated.date = Dated(r, s).date
      BY <2>1, <2>3, ReasonsAre, ProposalIs
    <3>2. /\ digest_contains_date(r.date, s)
          /\ Dated(r, s).date = r.date =>
               \E statement \in Stating(r.date, s) : statement.wording \notin {"reference", "wrapped"}
      BY <3>1, DateIsTheDocuments DEF Dated
    <3> QED BY <3>1, <3>2 DEF Foreign
  <2>7. NamesIn(reply.parties) \subseteq digest.parties
    <3>1. validate_parties(r, s).supported
      BY <2>3, ReasonsAre
    <3>2. AllSupported(r.parties, s)
      BY <3>1, Zenon DEF validate_parties
    <3> QED BY <3>2 DEF AllSupported, NamesIn
  <2>8. reply.description = "usable" /\ reply.doubt = "none"
    <3>1. validate_description(r) = {} /\ r.doubt \notin {"unsure", "asks"}
      BY <2>3, ReasonsAre
    <3>2. r.description \in {"usable", "long", "fragment", "claims"} /\ r.doubt \in {"none", "unsure", "asks"}
      BY <2>2 DEF Reply
    <3> QED BY <3>1, <3>2 DEF validate_description, When
  <2>9. /\ validated.relation = "between" => Len(validated.parties) = 2
        /\ validated.relation \in {"for", "with", "from", "to"} => Len(validated.parties) = 1
    BY <2>1, <2>2, ProposalIs, PartiesFit
  <2> QED BY <2>4, <2>5, <2>6, <2>7, <2>8, <2>9 DEF ReadyKeepsTheReply
<1> QED BY <1>1, ProposedAlways, PTL
===============================================================================
