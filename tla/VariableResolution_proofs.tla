--------------------- MODULE VariableResolution_proofs ---------------------
(***************************************************************************)
(* For any sensors, formulas, variables, handlers and readings: the state  *)
(* of an evaluation keeps its types, an evaluation fails only for a cause  *)
(* in its texts, the numbers it answers are those its text means, and the  *)
(* handlers it asks fit what went wrong.                                   *)
(***************************************************************************)
EXTENDS VariableResolution, SequenceTheorems, FiniteSetTheorems, WellFoundedInduction, TLAPS

ComputedOf(s) == {Computed[s][i] : i \in DOMAIN Computed[s]}

\* What keeps a computed variable from being evaluated.
Blocked(c) == Absence(c.formula) \/ Open(ComputedVariable)

\* While an evaluation is at work nothing it reads changes, so that what blocks
\* the computed variables it has put off blocks them still.
JobSound ==
  job # NoAnswer =>
    /\ answer = NoAnswer
    /\ job = [sensor |-> job.sensor, ctx |-> job.ctx, left |-> job.left,
              waiting |-> job.waiting, progress |-> job.progress]
    /\ job.sensor \in Sensors
    /\ job.left \in Seq(ComputedOf(job.sensor))
    /\ job.waiting \in Seq(ComputedOf(job.sensor))
    /\ job.progress \in BOOLEAN
    /\ ~job.progress => \A i \in DOMAIN job.waiting : Blocked(job.waiting[i])

IInv == TypeOK /\ JobSound /\ FailuresHaveACause
-----------------------------------------------------------------------------
(* Failures and their causes *)

\* A fault of a text is something it names that is not there.
LEMMA FaultIsAbsence ==
  ASSUME NEW f, Fault(f) # "none"
  PROVE  Absence(f)
  <1>1. CASE AttributeMissing(f)
    BY <1>1 DEF AttributeMissing, Absence
  <1>2. CASE ~AttributeMissing(f)
    <2>1. PICK i \in DOMAIN f : Unreadable(f[i])
      BY <1>2 DEF Fault
    <2> QED BY <2>1 DEF Unreadable, EntityAbsent, NumberAbsent, Absence
  <1> QED BY <1>1, <1>2

\* What is absent stays absent when a number of the registry is taken away.
LEMMA AbsenceStays ==
  ASSUME NEW f, Absence(f), reading' = reading, registered' \subseteq registered
  PROVE  Absence(f)'
  BY DEF Absence

\* An answer that a handler or an alternate state stands behind is no failure.
LEMMA HandledIsNoFailure ==
  ASSUME NEW s, NEW ctx, NEW k \in Alternates
  PROVE  Handled(s, ctx, k).kind # "failed" /\ Handled(s, ctx, k).sensor = s
  <1>1. CASE Handlers[s] = NoHandler
    BY <1>1 DEF Handled, Answer, Alternates
  <1>2. CASE Handlers[s] # NoHandler
    <2> DEFINE h == Chosen(Handlers[s], HandlerFor(ctx, k))
    <2>1. Handled(s, ctx, k) = ByHandler(s, h)
      BY <1>2 DEF Handled
    <2> HIDE DEF h
    <2> QED BY <2>1 DEF ByHandler, Answer
  <1> QED BY <1>1, <1>2

LEMMA AnsweredIsNoFailure ==
  ASSUME NEW s, NEW ctx, NEW v
  PROVE  Answered(s, ctx, v).kind # "failed" /\ Answered(s, ctx, v).sensor = s
  BY HandledIsNoFailure DEF Answered, Answer

\* The state behind a single name is one of the alternate states.
LEMMA DetectedAreAlternates ==
  ASSUME NEW ctx, NEW f
  PROVE  Detected(ctx, f) \in Alternates
  <1> DEFINE op == f[1]
  <1>1. Tracked(ctx, op) => StateBehind(ctx, op) \in Alternates
    BY DEF Tracked, StateBehind, Alternates
  <1>2. ValueOf(ctx, op).kind = "none" => StateBehind(ctx, op) \in Alternates
    BY DEF StateBehind, Alternates
  <1>3. "none" \in Alternates
    BY DEF Alternates
  <1> QED BY <1>1, <1>2, <1>3 DEF Detected
-----------------------------------------------------------------------------
(* Steps *)

LEMMA CountedType ==
  ASSUME NEW n \in 0 .. MaxFatal
  PROVE  Counted(n) \in 0 .. MaxFatal
  BY ResolutionConstants DEF Counted

\* Publishing a sensor's answer registers that sensor at most, and none if the
\* answer is a failure.
LEMMA PublishType ==
  ASSUME TypeOK, NEW a, a.sensor \in Sensors, Publish(a)
  PROVE  registered' \subseteq Sensors /\ (a.kind # "ok" => registered' \subseteq registered)
  BY DEF Publish, TypeOK

LEMMA InitHolds == Init => IInv
  <1> SUFFICES ASSUME Init PROVE IInv
    OBVIOUS
  <1>1. TypeOK
    <2>1. reading \in [Entities -> Readings] /\ registered \subseteq Sensors
      BY DEF Init
    <2>2. globals \subseteq Names
      BY ResolutionConstants DEF Init
    <2>3. errors \in [Sensors \cup {ComputedVariable} -> 0 .. MaxFatal]
      BY ResolutionConstants DEF Init
    <2> QED BY <2>1, <2>2, <2>3 DEF Init, TypeOK
  <1>2. JobSound /\ FailuresHaveACause
    BY DEF Init, JobSound, FailuresHaveACause
  <1> QED BY <1>1, <1>2 DEF IInv

LEMMA BeginStep ==
  ASSUME IInv, NEW s \in Sensors, Begin(s)
  PROVE  IInv'
  <1> USE DEF IInv
  <1>1. CASE Open(s)
    <2>1. answer' = Answer(s, "skipped", {}, "formula") /\ Publish(answer') /\ job' = job
      BY <1>1 DEF Begin
    <2>2. answer'.sensor = s /\ answer'.kind = "skipped"
      BY <2>1 DEF Answer
    <2>3. registered' \subseteq Sensors
      BY <2>1, <2>2, PublishType
    <2>4. TypeOK'
      BY <2>1, <2>2, <2>3 DEF Begin, TypeOK
    <2>5. JobSound' /\ FailuresHaveACause'
      BY <2>1, <2>2 DEF Begin, JobSound, FailuresHaveACause
    <2> QED BY <2>4, <2>5
  <1>2. CASE ~Open(s)
    <2>1. /\ job' = [sensor |-> s, ctx |-> StartContext(s), left |-> Computed[s],
                     waiting |-> <<>>, progress |-> FALSE]
          /\ answer' = NoAnswer /\ registered' = registered
      BY <1>2 DEF Begin
    <2>2. TypeOK'
      BY <2>1 DEF Begin, TypeOK
    <2>3. Computed[s] \in Seq(ComputedOf(s))
      BY ResolutionConstants, LenProperties DEF ComputedOf
    <2>4. JobSound'
      BY <2>1, <2>3 DEF JobSound
    <2>5. FailuresHaveACause'
      BY <2>1 DEF FailuresHaveACause
    <2> QED BY <2>2, <2>4, <2>5
  <1> QED BY <1>1, <1>2

\* An evaluation that goes on.
LEMMA JobGoesOn ==
  ASSUME JobSound, job # NoAnswer, answer' = answer,
         NEW ctx, NEW left \in Seq(ComputedOf(job.sensor)),
         NEW waiting \in Seq(ComputedOf(job.sensor)), NEW progress \in BOOLEAN,
         job' = [sensor |-> job.sensor, ctx |-> ctx, left |-> left,
                 waiting |-> waiting, progress |-> progress],
         ~progress => \A i \in DOMAIN waiting : Blocked(waiting[i])'
  PROVE  JobSound' /\ job'.sensor = job.sensor /\ job'.progress \in BOOLEAN
  <1>1. /\ job'.sensor = job.sensor /\ job'.ctx = ctx /\ job'.left = left
        /\ job'.waiting = waiting /\ job'.progress = progress
    OBVIOUS
  <1>2. answer' = NoAnswer /\ job.sensor \in Sensors
    BY DEF JobSound
  <1>3. ~job'.progress => \A i \in DOMAIN job'.waiting : Blocked(job.waiting[i])'
    BY <1>1 DEF Blocked, Absence, Open
  <1> QED BY <1>1, <1>2, <1>3 DEF JobSound

\* An evaluation that goes on keeps its types.
LEMMA TypesGoOn ==
  ASSUME TypeOK, JobSound, job # NoAnswer, job'.sensor = job.sensor, job'.progress \in BOOLEAN,
         UNCHANGED <<reading, globals, registered, answer>>,
         errors' \in [Sensors \cup {ComputedVariable} -> 0 .. MaxFatal]
  PROVE  TypeOK'
  BY DEF TypeOK, JobSound

\* What is resolved next comes off the computed variables that are left.
LEMMA ResolveKeeps ==
  ASSUME TypeOK, JobSound, job # NoAnswer, job.left # <<>>, NEW ctx, Resolve(ctx),
         UNCHANGED <<reading, globals, registered, answer>>,
         errors' \in [Sensors \cup {ComputedVariable} -> 0 .. MaxFatal]
  PROVE  TypeOK' /\ JobSound'
  <1>1. job = [sensor |-> job.sensor, ctx |-> job.ctx, left |-> job.left,
               waiting |-> job.waiting, progress |-> job.progress]
    BY DEF JobSound
  <1>2. job' = [sensor |-> job.sensor, ctx |-> ctx, left |-> Tail(job.left),
                waiting |-> job.waiting, progress |-> TRUE]
    <2> DEFINE j == job
    <2>1. job' = [j EXCEPT !.ctx = ctx, !.left = Tail(j.left), !.progress = TRUE]
      BY DEF Resolve
    <2>2. j = [sensor |-> job.sensor, ctx |-> job.ctx, left |-> job.left,
               waiting |-> job.waiting, progress |-> job.progress]
      BY <1>1
    <2> HIDE DEF j
    <2> QED BY <2>1, <2>2
  <1>3. /\ Tail(job.left) \in Seq(ComputedOf(job.sensor))
        /\ job.waiting \in Seq(ComputedOf(job.sensor))
    BY HeadTailProperties DEF JobSound
  <1>4. JobSound' /\ job'.sensor = job.sensor /\ job'.progress \in BOOLEAN
    BY <1>2, <1>3, JobGoesOn
  <1> QED BY <1>4, TypesGoOn

LEMMA ResolveComputedStep ==
  ASSUME IInv, ResolveComputed
  PROVE  IInv'
  <1> USE DEF IInv
  <1> DEFINE c == Head(job.left)
             v == ComputedValue(c)
             fault == Fault(c.formula)
             ctx == Append(job.ctx, Entry(NameOf(c.name), c.formula,
                                          Shared(job.ctx, c.formula, v)))
  <1>1. job # NoAnswer /\ job.left # <<>> /\ answer = NoAnswer
    BY DEF ResolveComputed, JobSound
  <1>2. UNCHANGED <<reading, globals, registered, answer>>
    BY DEF ResolveComputed
  <1>3. FailuresHaveACause'
    BY <1>1, <1>2 DEF FailuresHaveACause
  <1>4. CASE Has(job.ctx, NameOf(c.name))
    <2>1. Resolve(job.ctx) /\ errors' = errors
      BY <1>4 DEF ResolveComputed
    <2> QED BY <1>1, <1>2, <1>3, <2>1, ResolveKeeps DEF TypeOK
  <1>5. CASE ~Has(job.ctx, NameOf(c.name)) /\ (Open(ComputedVariable) \/ fault # "none")
    <2>1. /\ job' = [job EXCEPT !.left = Tail(@), !.waiting = Append(@, c)]
          /\ errors' = IF fault = "counted"
                       THEN [errors EXCEPT ![ComputedVariable] = Counted(@)] ELSE errors
      BY <1>5 DEF ResolveComputed
    <2>2. PICK d \in ComputedOf(job.sensor) : d = c
      BY <1>1, HeadTailProperties DEF JobSound
    <2> DEFINE w == Append(job.waiting, d)
    <2>3. job' = [sensor |-> job.sensor, ctx |-> job.ctx, left |-> Tail(job.left),
                  waiting |-> w, progress |-> job.progress]
      <3> DEFINE j == job
      <3>1. job' = [j EXCEPT !.left = Tail(j.left), !.waiting = w]
        BY <2>1, <2>2
      <3>2. j = [sensor |-> job.sensor, ctx |-> job.ctx, left |-> job.left,
                 waiting |-> job.waiting, progress |-> job.progress]
        BY <1>1 DEF JobSound
      <3> HIDE DEF j, w
      <3>3. j.waiting = job.waiting /\ j.ctx = job.ctx /\ j.left = job.left
        BY DEF j
      <3> QED BY <3>1, <3>2, <3>3
    <2>4. errors[ComputedVariable] \in 0 .. MaxFatal
      BY DEF TypeOK
    <2>5. errors' \in [Sensors \cup {ComputedVariable} -> 0 .. MaxFatal]
      BY <2>1, <2>4, CountedType DEF TypeOK
    <2>6. Open(ComputedVariable) => Open(ComputedVariable)'
      BY <2>1, <2>4, ResolutionConstants DEF Open, Counted, TypeOK
    <2>7. \A x : Blocked(x) => Blocked(x)'
      BY <1>2, <2>6 DEF Blocked, Absence
    <2>8. Blocked(d)
      BY <1>5, <2>2, FaultIsAbsence DEF Blocked
    <2>9. /\ Tail(job.left) \in Seq(ComputedOf(job.sensor))
          /\ job.waiting \in Seq(ComputedOf(job.sensor))
          /\ w \in Seq(ComputedOf(job.sensor))
          /\ \A i \in DOMAIN w : w[i] = d \/ \E j \in DOMAIN job.waiting : w[i] = job.waiting[j]
      <3>1. Tail(job.left) \in Seq(ComputedOf(job.sensor)) /\ job.waiting \in Seq(ComputedOf(job.sensor))
        BY <1>1, HeadTailProperties DEF JobSound
      <3>2. /\ w \in Seq(ComputedOf(job.sensor)) /\ Len(w) = Len(job.waiting) + 1
            /\ \A i \in 1 .. Len(job.waiting) : w[i] = job.waiting[i]
            /\ w[Len(w)] = d
        BY <3>1, AppendProperties
      <3>3. DOMAIN w = 1 .. Len(w) /\ DOMAIN job.waiting = 1 .. Len(job.waiting)
            /\ Len(job.waiting) \in Nat
        BY <3>1, <3>2, LenProperties
      <3> HIDE DEF w
      <3> QED BY <3>1, <3>2, <3>3
    <2>10. ~job.progress => \A i \in DOMAIN w : Blocked(w[i])
      BY <1>1, <2>8, <2>9 DEF JobSound
    <2>11. PICK u : u = w
      OBVIOUS
    <2>12. ~job.progress => \A i \in DOMAIN u : Blocked(u[i])'
      BY <2>7, <2>10, <2>11
    <2>13. job.progress \in BOOLEAN
      BY <1>1 DEF JobSound
    <2>14. JobSound' /\ job'.sensor = job.sensor /\ job'.progress \in BOOLEAN
      BY <1>1, <1>2, <2>3, <2>9, <2>11, <2>12, <2>13, JobGoesOn
    <2> QED BY <1>1, <1>2, <1>3, <2>5, <2>14, TypesGoOn
  <1>6. CASE ~Has(job.ctx, NameOf(c.name)) /\ ~(Open(ComputedVariable) \/ fault # "none")
    <2>1. /\ Resolve(ctx)
          /\ Reset(ComputedVariable, c.formula, Detected(job.ctx, c.formula), v)
      BY <1>6 DEF ResolveComputed
    <2>2. errors' \in [Sensors \cup {ComputedVariable} -> 0 .. MaxFatal]
      BY <2>1, ResolutionConstants DEF Reset, TypeOK
    <2> HIDE DEF ctx
    <2> QED BY <1>1, <1>2, <1>3, <2>1, <2>2, ResolveKeeps
  <1> QED BY <1>4, <1>5, <1>6

LEMMA NextPassStep ==
  ASSUME IInv, NextPass
  PROVE  IInv'
  <1> USE DEF IInv
  <1>1. job # NoAnswer /\ answer = NoAnswer /\ UNCHANGED <<reading, globals, registered, errors, answer>>
    BY DEF NextPass, JobSound
  <1>2. job' = [sensor |-> job.sensor, ctx |-> job.ctx, left |-> job.waiting,
                waiting |-> <<>>, progress |-> FALSE]
    <2> DEFINE j == job
    <2>1. job' = [j EXCEPT !.left = j.waiting, !.waiting = <<>>, !.progress = FALSE]
      BY DEF NextPass
    <2>2. j = [sensor |-> job.sensor, ctx |-> job.ctx, left |-> job.left,
               waiting |-> job.waiting, progress |-> job.progress]
      BY <1>1 DEF JobSound
    <2> HIDE DEF j
    <2> QED BY <2>1, <2>2
  <1>3. job.waiting \in Seq(ComputedOf(job.sensor)) /\ <<>> \in Seq(ComputedOf(job.sensor))
    BY <1>1 DEF JobSound
  <1>4. JobSound' /\ job'.sensor = job.sensor /\ job'.progress \in BOOLEAN
    <2>1. /\ job'.sensor = job.sensor /\ job'.ctx = job.ctx /\ job'.left = job.waiting
          /\ job'.waiting = <<>> /\ job'.progress = FALSE
      BY <1>2
    <2>2. job' = [sensor |-> job'.sensor, ctx |-> job'.ctx, left |-> job'.left,
                  waiting |-> job'.waiting, progress |-> job'.progress]
      BY <1>2, <2>1
    <2>3. DOMAIN job'.waiting = {}
      BY <2>1
    <2>4. job.sensor \in Sensors
      BY <1>1 DEF JobSound
    <2> QED BY <1>1, <1>3, <2>1, <2>2, <2>3, <2>4 DEF JobSound
  <1>5. TypeOK'
    BY <1>1, <1>4, TypesGoOn DEF TypeOK
  <1>6. FailuresHaveACause'
    BY <1>1 DEF FailuresHaveACause
  <1> QED BY <1>4, <1>5, <1>6

\* What is put off without an end is absent or behind the open breaker.
LEMMA GiveUpStep ==
  ASSUME IInv, GiveUp
  PROVE  IInv'
  <1> USE DEF IInv
  <1>1. PICK s \in Sensors : s = job.sensor
    BY DEF GiveUp, JobSound
  <1>2. /\ job # NoAnswer /\ job.waiting # <<>> /\ ~job.progress
        /\ answer' = Failed(s) /\ Publish(answer') /\ job' = NoAnswer
        /\ errors' = [errors EXCEPT ![s] = Counted(@)]
        /\ reading' = reading /\ globals' = globals
    BY <1>1 DEF GiveUp
  <1>3. answer'.sensor = s /\ answer'.kind = "failed"
    BY <1>2 DEF Failed, Answer
  <1>4. registered' \subseteq registered /\ registered' \subseteq Sensors
    BY <1>2, <1>3, PublishType
  <1>5. errors' \in [Sensors \cup {ComputedVariable} -> 0 .. MaxFatal]
    BY <1>2, CountedType DEF TypeOK
  <1>6. PICK c \in ComputedOf(s) : Blocked(c)
    <2>1. 1 \in DOMAIN job.waiting /\ job.waiting[1] \in ComputedOf(s)
      BY <1>1, <1>2, EmptySeq, ElementOfSeq, LenProperties DEF JobSound
    <2> QED BY <1>1, <1>2, <2>1 DEF JobSound
  <1>7. PICK i \in DOMAIN Computed[s] : Computed[s][i] = c
    BY <1>6 DEF ComputedOf
  <1>8. ~Sound(s)'
    <2>1. CASE Absence(c.formula)
      <3>1. Absence(c.formula)'
        BY <1>2, <1>4, <2>1, AbsenceStays
      <3> QED BY <1>7, <3>1 DEF Sound
    <2>2. CASE Open(ComputedVariable)
      <3>1. Open(ComputedVariable)'
        BY <1>2, <2>2, ResolutionConstants DEF Open, TypeOK
      <3>2. Computed[s] # <<>>
        BY <1>7
      <3> QED BY <3>1, <3>2 DEF Sound
    <2> QED BY <1>6, <2>1, <2>2 DEF Blocked
  <1>9. TypeOK'
    BY <1>2, <1>3, <1>4, <1>5 DEF TypeOK
  <1>10. JobSound'
    BY <1>2 DEF JobSound
  <1>11. FailuresHaveACause'
    BY <1>3, <1>8 DEF FailuresHaveACause
  <1> QED BY <1>9, <1>10, <1>11

\* What the text names in vain is absent after the failure too, and a state that
\* is lost is lost still.
LEMMA FailStep ==
  ASSUME IInv, Fail
  PROVE  IInv'
  <1> USE DEF IInv
  <1>1. PICK s \in Sensors : s = job.sensor
    BY DEF Fail, Ready, JobSound
  <1>2. /\ ~Readable(s) /\ answer' = Failed(s) /\ Publish(answer') /\ job' = NoAnswer
        /\ errors' = IF Fault(Formula[s]) = "uncounted" THEN errors
                     ELSE [errors EXCEPT ![s] = Counted(@)]
        /\ reading' = reading /\ globals' = globals
    BY <1>1 DEF Fail
  <1>3. answer'.sensor = s /\ answer'.kind = "failed"
    BY <1>2 DEF Failed, Answer
  <1>4. registered' \subseteq registered /\ registered' \subseteq Sensors
    BY <1>2, <1>3, PublishType
  <1>5. errors' \in [Sensors \cup {ComputedVariable} -> 0 .. MaxFatal]
    BY <1>2, CountedType DEF TypeOK
  <1>6. TypeOK'
    BY <1>2, <1>3, <1>4, <1>5 DEF TypeOK
  <1>7. JobSound'
    BY <1>2 DEF JobSound
  <1>8. CASE Fault(Formula[s]) # "none"
    <2>1. Absence(Formula[s])'
      BY <1>2, <1>4, <1>8, FaultIsAbsence, AbsenceStays
    <2> QED BY <1>3, <1>6, <1>7, <2>1 DEF FailuresHaveACause
  <1>9. CASE Fault(Formula[s]) = "none"
    <2>1. Mentions(Formula[s], State) /\ StateLost(s)
      BY <1>2, <1>9 DEF Readable
    <2>2. OwnState[s] # OwnId /\ (OwnState[s] # Nothing => reading[OwnState[s]] = "missing")
      BY <2>1, ResolutionConstants DEF StateLost
    <2> QED BY <1>2, <1>3, <1>6, <1>7, <2>1, <2>2 DEF FailuresHaveACause
  <1> QED BY <1>8, <1>9

\* An answer that is not a failure keeps the invariant.
LEMMA AnswerStep ==
  ASSUME IInv, NEW s \in Sensors, answer'.sensor = s, answer'.kind # "failed",
         Publish(answer'), job' = NoAnswer, UNCHANGED <<reading, globals>>,
         errors' = errors \/ errors' = [errors EXCEPT ![s] = 0]
  PROVE  IInv'
  <1> USE DEF IInv
  <1>1. registered' \subseteq Sensors
    BY PublishType
  <1>2. errors' \in [Sensors \cup {ComputedVariable} -> 0 .. MaxFatal]
    <2>1. 0 \in 0 .. MaxFatal
      BY ResolutionConstants
    <2>2. errors \in [Sensors \cup {ComputedVariable} -> 0 .. MaxFatal]
      BY DEF TypeOK
    <2>3. [errors EXCEPT ![s] = 0] \in [Sensors \cup {ComputedVariable} -> 0 .. MaxFatal]
      BY <2>1, <2>2
    <2> QED BY <2>2, <2>3
  <1>3. TypeOK'
    BY <1>1, <1>2 DEF TypeOK
  <1> QED BY <1>3 DEF JobSound, FailuresHaveACause

LEMMA AnswerStateStep ==
  ASSUME IInv, AnswerState
  PROVE  IInv'
  <1>1. PICK s \in Sensors : s = job.sensor
    BY DEF AnswerState, Ready, JobSound, IInv
  <1> DEFINE ctx == FullContext(s)
             state == Detected(ctx, Formula[s])
  <1>2. answer' = Handled(s, ctx, state) /\ errors' = errors
    BY <1>1 DEF AnswerState
  <1>3. answer'.kind # "failed" /\ answer'.sensor = s
    <2>1. state \in Alternates
      BY DetectedAreAlternates
    <2> HIDE DEF ctx, state
    <2> QED BY <1>2, <2>1, HandledIsNoFailure
  <1> HIDE DEF ctx, state
  <1>4. Publish(answer') /\ job' = NoAnswer /\ UNCHANGED <<reading, globals>>
    BY DEF AnswerState
  <1> QED BY <1>2, <1>3, <1>4, AnswerStep

LEMMA EvaluateStep ==
  ASSUME IInv, Evaluate
  PROVE  IInv'
  <1>1. PICK s \in Sensors : s = job.sensor
    BY DEF Evaluate, Ready, JobSound, IInv
  <1> DEFINE ctx == FullContext(s)
             v == Expression(ctx, Formula[s])
  <1>2. answer' = Answered(s, ctx, v) /\ errors' = [errors EXCEPT ![s] = 0]
    BY <1>1 DEF Evaluate
  <1> HIDE DEF ctx, v
  <1>3. answer'.kind # "failed" /\ answer'.sensor = s
    BY <1>2, AnsweredIsNoFailure
  <1>4. Publish(answer') /\ job' = NoAnswer /\ UNCHANGED <<reading, globals>>
    BY DEF Evaluate
  <1> QED BY <1>2, <1>3, <1>4, AnswerStep

LEMMA ChangeStep ==
  ASSUME IInv, NEW e \in Entities, NEW r \in Readings, Change(e, r)
  PROVE  IInv'
  <1>1. TypeOK'
    BY DEF IInv, Change, TypeOK
  <1> QED BY <1>1 DEF IInv, Change, JobSound, FailuresHaveACause

LEMMA SetGlobalsStep ==
  ASSUME IInv, NEW g \in GlobalSettings, SetGlobals(g)
  PROVE  IInv'
  <1>1. TypeOK'
    BY ResolutionConstants DEF IInv, SetGlobals, TypeOK
  <1> QED BY <1>1 DEF IInv, SetGlobals, JobSound, FailuresHaveACause

LEMMA StutteringStep ==
  ASSUME IInv, UNCHANGED vars
  PROVE  IInv'
  BY DEF IInv, TypeOK, JobSound, FailuresHaveACause, Absence, Sound, Blocked, Open, vars

\* The inductive invariant of evaluations.
LEMMA Inductive == IInv /\ [Next]_vars => IInv'
  <1> SUFFICES ASSUME IInv, [Next]_vars PROVE IInv'
    OBVIOUS
  <1>1. CASE \E s \in Sensors : Begin(s)
    BY <1>1, BeginStep
  <1>2. CASE ResolveComputed
    BY <1>2, ResolveComputedStep
  <1>3. CASE NextPass
    BY <1>3, NextPassStep
  <1>4. CASE GiveUp
    BY <1>4, GiveUpStep
  <1>5. CASE Fail
    BY <1>5, FailStep
  <1>6. CASE AnswerState
    BY <1>6, AnswerStateStep
  <1>7. CASE Evaluate
    BY <1>7, EvaluateStep
  <1>8. CASE \E e \in Entities, r \in Readings : Change(e, r)
    BY <1>8, ChangeStep
  <1>9. CASE \E g \in GlobalSettings : SetGlobals(g)
    BY <1>9, SetGlobalsStep
  <1>10. CASE UNCHANGED vars
    BY <1>10, StutteringStep
  <1> QED BY <1>1, <1>2, <1>3, <1>4, <1>5, <1>6, <1>7, <1>8, <1>9, <1>10 DEF Next
-----------------------------------------------------------------------------
(* Theorems *)

\* Readings, the registry, the counts of errors up to max_fatal_errors and the
\* evaluation at work keep their types.
THEOREM TypesHold == Spec => []TypeOK
  <1>1. IInv => TypeOK
    BY DEF IInv
  <1> QED BY <1>1, InitHolds, Inductive, PTL DEF Spec

\* For any formulas, variables and handlers, an evaluation fails only for something
\* its texts name that is not there, for a state that nothing provides, or because
\* the breaker that computed variables share is open.
THEOREM FailuresHold == Spec => []FailuresHaveACause
  <1>1. IInv => FailuresHaveACause
    BY DEF IInv
  <1> QED BY <1>1, InitHolds, Inductive, PTL DEF Spec
-----------------------------------------------------------------------------
(* Recursion over the numbers of a sequence *)

\* A set of numbers with a first one and every next one is Nat.
LEMMA Induction ==
  ASSUME NEW T \in SUBSET Nat, 0 \in T, \A n \in T : n + 1 \in T
  PROVE  T = Nat
  <1> DEFINE R == OpToRel(<, Nat)
  <1>1. SUFFICES ASSUME Nat \ T # {} PROVE FALSE
    OBVIOUS
  <1>2. PICK n \in Nat \ T : \A m \in Nat \ T : ~(<<m, n>> \in R)
    <2>1. \A Q, S : IsWellFoundedOn(Q, S)
             => \A X : X \subseteq S /\ X # {} => \E x \in X : \A y \in X : ~(<<y, x>> \in Q)
      BY WFMin
    <2>2. IsWellFoundedOn(R, Nat)
      BY NatLessThanWellFounded
    <2> HIDE DEF R
    <2> QED BY <1>1, <2>1, <2>2
  <1>3. n # 0 /\ n - 1 \in Nat
    OBVIOUS
  <1>4. n - 1 \in T
    <2>1. <<n - 1, n>> \in R
      BY <1>3 DEF OpToRel
    <2> HIDE DEF R
    <2> QED BY <1>2, <1>3, <2>1
  <1> QED BY <1>3, <1>4

\* A set of numbers that is not empty has a least one.
LEMMA LeastNumber ==
  ASSUME NEW T \in SUBSET Nat, T # {}
  PROVE  \E n \in T : \A m \in T : n <= m
  <1> DEFINE R == OpToRel(<, Nat)
  <1>1. \A Q, S : IsWellFoundedOn(Q, S)
           => \A X : X \subseteq S /\ X # {} => \E x \in X : \A y \in X : ~(<<y, x>> \in Q)
    BY WFMin
  <1>2. IsWellFoundedOn(R, Nat)
    BY NatLessThanWellFounded
  <1>3. \A m, n \in Nat : m < n => <<m, n>> \in R
    BY DEF OpToRel
  <1> HIDE DEF R
  <1>4. PICK n \in T : \A m \in T : ~(<<m, n>> \in R)
    BY <1>1, <1>2
  <1>5. \A m \in T : m \in Nat /\ n \in Nat /\ ~(m < n)
    BY <1>3, <1>4
  <1> QED BY <1>5

\* The contexts on the way of IncludeAll.
Includes(ctx, last, entries, W) ==
  W = [n \in 0 .. last |->
         IF n = 0 THEN ctx
         ELSE IF n \in DOMAIN entries THEN Include(W[n - 1], entries[n])
         ELSE W[n - 1]]

\* The entries of a sequence go into a context one after the other.
LEMMA IncludeAllSteps ==
  ASSUME NEW ctx, NEW last \in Nat, NEW entries
  PROVE  \E W : Includes(ctx, last, entries, W) /\ IncludeAll(ctx, last, entries) = W[last]
  <1> DEFINE T == {m \in Nat : \E W : Includes(ctx, m, entries, W)}
  <1>1. 0 \in T
    <2>1. Includes(ctx, 0, entries, [n \in 0 .. 0 |-> ctx])
      BY DEF Includes
    <2> QED BY <2>1
  <1>2. ASSUME NEW m \in T PROVE m + 1 \in T
    <2>1. PICK W : Includes(ctx, m, entries, W)
      OBVIOUS
    <2> DEFINE G(V, n) == IF n = 0 THEN ctx
                          ELSE IF n \in DOMAIN entries THEN Include(V[n - 1], entries[n])
                          ELSE V[n - 1]
               X == [n \in 0 .. m + 1 |-> G(W, n)]
    <2>2. \A n \in 0 .. m : X[n] = W[n]
      BY <2>1 DEF Includes
    <2>3. \A n \in 0 .. m + 1 : X[n] = G(W, n)
      OBVIOUS
    <2>4. \A n \in 0 .. m + 1 : G(W, n) = G(X, n)
      <3> SUFFICES ASSUME NEW n \in 0 .. m + 1 PROVE G(W, n) = G(X, n)
        OBVIOUS
      <3>1. n # 0 => n - 1 \in 0 .. m
        OBVIOUS
      <3> HIDE DEF X
      <3>2. n # 0 => X[n - 1] = W[n - 1]
        BY <2>2, <3>1
      <3> QED BY <3>2
    <2>5. X = [n \in 0 .. m + 1 |-> G(X, n)]
      BY <2>4
    <2> HIDE DEF X
    <2>6. Includes(ctx, m + 1, entries, X)
      BY <2>5 DEF Includes
    <2> QED BY <2>6
  <1>3. last \in T
    BY <1>1, <1>2, Induction
  <1>4. PICK W : Includes(ctx, last, entries, W)
    BY <1>3
  <1> DEFINE C == CHOOSE V : Includes(ctx, last, entries, V)
  <1>5. Includes(ctx, last, entries, C)
    BY <1>4
  <1>6. IncludeAll(ctx, last, entries) = C[last]
    BY DEF IncludeAll, Includes
  <1> QED BY <1>5, <1>6

\* Knowing more and more.
Knows(s, taken, first, K) ==
  K = [n \in 0 .. Len(Computed[s]) |-> IF n = 0 THEN first ELSE KnownNext(s, taken, K[n - 1])]

\* What is known grows by one computed variable after the other.
LEMMA KnownSteps ==
  ASSUME NEW s \in Sensors, NEW taken, NEW first
  PROVE  Knows(s, taken, first, KnownAfter(s, taken, first))
  <1> DEFINE G(V, n) == IF n = 0 THEN first ELSE KnownNext(s, taken, V[n - 1])
             T == {m \in Nat : \E W : W = [n \in 0 .. m |-> G(W, n)]}
  <1>1. 0 \in T
    <2>1. [n \in 0 .. 0 |-> first] = [n \in 0 .. 0 |-> G([k \in 0 .. 0 |-> first], n)]
      OBVIOUS
    <2> QED BY <2>1
  <1>2. ASSUME NEW m \in T PROVE m + 1 \in T
    <2>1. PICK W : W = [n \in 0 .. m |-> G(W, n)]
      OBVIOUS
    <2> DEFINE X == [n \in 0 .. m + 1 |-> G(W, n)]
    <2>2. \A n \in 0 .. m : X[n] = W[n]
      BY <2>1
    <2>3. \A n \in 0 .. m + 1 : G(W, n) = G(X, n)
      <3> SUFFICES ASSUME NEW n \in 0 .. m + 1 PROVE G(W, n) = G(X, n)
        OBVIOUS
      <3>1. n # 0 => n - 1 \in 0 .. m
        OBVIOUS
      <3> HIDE DEF X
      <3>2. n # 0 => X[n - 1] = W[n - 1]
        BY <2>2, <3>1
      <3> QED BY <3>2
    <2>4. X = [n \in 0 .. m + 1 |-> G(X, n)]
      BY <2>3
    <2> HIDE DEF X
    <2> QED BY <2>4
  <1>3. Len(Computed[s]) \in Nat
    BY ResolutionConstants, LenProperties
  <1>4. Len(Computed[s]) \in T
    BY <1>1, <1>2, <1>3, Induction
  <1>5. PICK W : Knows(s, taken, first, W)
    BY <1>4 DEF Knows
  <1> DEFINE C == CHOOSE V : Knows(s, taken, first, V)
  <1>6. Knows(s, taken, first, C)
    BY <1>5
  <1>7. KnownAfter(s, taken, first) = C
    BY DEF KnownAfter, Knows
  <1> HIDE DEF C
  <1> QED BY <1>6, <1>7
-----------------------------------------------------------------------------
(* The entries of a context *)

\* A sequence of entries without two for a name.
Context(ctx) ==
  /\ ctx \in Seq(ToSet(ctx))
  /\ \A x, y \in ToSet(ctx) : x.name = y.name => x = y

\* A context has a name if an entry is of that name.
LEMMA HasEntry ==
  ASSUME NEW ctx, NEW op
  PROVE  Has(ctx, op) <=> \E x \in ToSet(ctx) : x.name = op
  BY DEF Has, ToSet

\* In a context with one entry for each name, the value of a name is that of
\* its entry.
LEMMA ValueOfEntry ==
  ASSUME NEW ctx, Context(ctx), NEW x \in ToSet(ctx)
  PROVE  Has(ctx, x.name) /\ ValueOf(ctx, x.name) = x.value
  <1> DEFINE i == CHOOSE j \in DOMAIN ctx : ctx[j].name = x.name
  <1>1. PICK k \in DOMAIN ctx : ctx[k] = x
    BY DEF ToSet
  <1>2. i \in DOMAIN ctx /\ ctx[i].name = x.name
    BY <1>1
  <1>3. ctx[i] = x
    BY <1>2 DEF Context, ToSet
  <1>4. ValueOf(ctx, x.name) = ctx[i].value
    BY DEF ValueOf
  <1> HIDE DEF i
  <1> QED BY <1>1, <1>3, <1>4 DEF Has

\* What one more entry makes of a context.
LEMMA AppendEffect ==
  ASSUME NEW ctx, Context(ctx), NEW x, ~Has(ctx, x.name)
  PROVE  Context(Append(ctx, x)) /\ ToSet(Append(ctx, x)) = ToSet(ctx) \cup {x}
  <1> DEFINE new == Append(ctx, x)
             S == ToSet(ctx) \cup {x}
  <1>1. ctx \in Seq(S)
    BY SeqMonotonic DEF Context
  <1>2. /\ new \in Seq(S) /\ Len(new) = Len(ctx) + 1
        /\ \A i \in 1 .. Len(ctx) : new[i] = ctx[i]
        /\ new[Len(new)] = x
    BY <1>1, AppendProperties
  <1>3. /\ DOMAIN new = 1 .. Len(new) /\ DOMAIN ctx = 1 .. Len(ctx)
        /\ Len(ctx) \in Nat
    BY <1>1, <1>2, LenProperties
  <1> HIDE DEF new
  <1>4. ToSet(new) = S
    <2>1. ToSet(new) \subseteq S
      BY <1>2, <1>3, ElementOfSeq DEF ToSet
    <2>2. ToSet(ctx) \subseteq ToSet(new)
      BY <1>2, <1>3 DEF ToSet
    <2>3. x \in ToSet(new)
      <3>1. Len(new) \in DOMAIN new
        BY <1>2, <1>3
      <3> QED BY <1>2, <3>1 DEF ToSet
    <2> QED BY <2>1, <2>2, <2>3
  <1>5. Context(new)
    BY <1>2, <1>4, HasEntry DEF Context
  <1> QED BY <1>4, <1>5 DEF new

\* Including an entry adds it if its name is new and changes nothing else.
LEMMA IncludeEffect ==
  ASSUME NEW ctx, Context(ctx), NEW x
  PROVE  /\ Context(Include(ctx, x)) /\ Has(Include(ctx, x), x.name)
         /\ ToSet(ctx) \subseteq ToSet(Include(ctx, x))
         /\ \A y \in ToSet(Include(ctx, x)) \ ToSet(ctx) : y = x /\ ~Has(ctx, x.name)
  <1>1. CASE Has(ctx, x.name)
    BY <1>1 DEF Include
  <1>2. CASE ~Has(ctx, x.name)
    <2>1. Include(ctx, x) = Append(ctx, x)
      BY <1>2 DEF Include
    <2>2. Context(Append(ctx, x)) /\ ToSet(Append(ctx, x)) = ToSet(ctx) \cup {x}
      BY <1>2, AppendEffect
    <2> QED BY <1>2, <2>1, <2>2, HasEntry
  <1> QED BY <1>1, <1>2

\* What more entries make of a context: it keeps its own, and of the others those
\* for names it has not.
LEMMA IncludeAllEffect ==
  ASSUME NEW ctx, Context(ctx), NEW last \in Nat, NEW entries, DOMAIN entries \subseteq 1 .. last
  PROVE  LET all == IncludeAll(ctx, last, entries)
         IN  /\ Context(all) /\ ToSet(ctx) \subseteq ToSet(all)
             /\ \A x \in ToSet(all) \ ToSet(ctx) :
                  ~Has(ctx, x.name) /\ \E i \in DOMAIN entries : x = entries[i]
             /\ \A i \in DOMAIN entries : Has(all, entries[i].name)
  <1>1. PICK W : Includes(ctx, last, entries, W) /\ IncludeAll(ctx, last, entries) = W[last]
    BY IncludeAllSteps
  <1>2. /\ W[0] = ctx
        /\ \A n \in 1 .. last : W[n] = IF n \in DOMAIN entries THEN Include(W[n - 1], entries[n])
                                       ELSE W[n - 1]
    BY <1>1 DEF Includes
  <1> DEFINE P(n) == /\ Context(W[n]) /\ ToSet(ctx) \subseteq ToSet(W[n])
                     /\ \A x \in ToSet(W[n]) \ ToSet(ctx) :
                          ~Has(ctx, x.name) /\ \E i \in DOMAIN entries : x = entries[i]
                     /\ \A i \in DOMAIN entries : i <= n => Has(W[n], entries[i].name)
             T == {n \in Nat : n <= last => P(n)}
  <1>3. 0 \in T
    BY <1>2
  <1>4. ASSUME NEW n \in T PROVE n + 1 \in T
    <2> SUFFICES ASSUME n + 1 <= last PROVE P(n + 1)
      OBVIOUS
    <2>1. P(n) /\ n + 1 \in 1 .. last /\ (n + 1) - 1 = n
      OBVIOUS
    <2>2. CASE n + 1 \notin DOMAIN entries
      <3>1. W[n + 1] = W[n]
        BY <1>2, <2>1, <2>2
      <3>2. \A i \in DOMAIN entries : i <= n + 1 => i <= n
        BY <2>2
      <3> QED BY <2>1, <3>1, <3>2
    <2>3. CASE n + 1 \in DOMAIN entries
      <3> DEFINE x == entries[n + 1]
      <3>1. W[n + 1] = Include(W[n], x)
        BY <1>2, <2>1, <2>3
      <3>2. /\ Context(W[n + 1]) /\ Has(W[n + 1], x.name)
            /\ ToSet(W[n]) \subseteq ToSet(W[n + 1])
            /\ \A y \in ToSet(W[n + 1]) \ ToSet(W[n]) : y = x /\ ~Has(W[n], x.name)
        BY <2>1, <3>1, IncludeEffect
      <3>3. \A op : Has(W[n], op) => Has(W[n + 1], op)
        BY <3>2, HasEntry
      <3>4. \A op : Has(ctx, op) => Has(W[n], op)
        BY <2>1, HasEntry
      <3>5. \A y \in ToSet(W[n + 1]) \ ToSet(ctx) :
              ~Has(ctx, y.name) /\ \E i \in DOMAIN entries : y = entries[i]
        BY <2>1, <2>3, <3>2, <3>4
      <3>6. \A i \in DOMAIN entries : i <= n + 1 => Has(W[n + 1], entries[i].name)
        <4> TAKE i \in DOMAIN entries
        <4> HAVE i <= n + 1
        <4>1. i <= n \/ i = n + 1
          OBVIOUS
        <4> QED BY <2>1, <3>2, <3>3, <4>1
      <3> QED BY <2>1, <3>2, <3>5, <3>6
    <2> QED BY <2>2, <2>3
  <1> HIDE DEF P
  <1>5. last \in T
    BY <1>3, <1>4, Induction
  <1>6. P(last)
    BY <1>5
  <1>7. \A i \in DOMAIN entries : i <= last
    OBVIOUS
  <1> QED BY <1>1, <1>6, <1>7 DEF P
-----------------------------------------------------------------------------
(* What is known to mean a number *)

\* Pairs of an operand and its number, one of each operand.
Single(K) ==
  \A x, y \in K : x = <<x[1], x[2]>> /\ (x[1] = y[1] => x = y)

\* Where each operand has one number, that number is what it means.
LEMMA MeaningOfKnown ==
  ASSUME NEW K, Single(K), NEW x \in K
  PROVE  Meaning(K, x[1]) = {x[2]}
  BY DEF Single, Meaning

\* What K knows, the other set and more do.
Within(K, more, other) == Single(more) /\ K \subseteq more \cup other

\* The other set is not about what is in the text.
Apart(other, f) == \A x \in other : \A i \in DOMAIN f : x[1] # f[i]

\* What an operand means to those who know less it means to those who know more.
LEMMA MeaningWithin ==
  ASSUME NEW K, NEW more, NEW other, NEW f, NEW i \in DOMAIN f,
         Within(K, more, other), Apart(other, f), Meaning(K, f[i]) # {}
  PROVE  Meaning(more, f[i]) = Meaning(K, f[i])
  <1>1. PICK x \in K : x[1] = f[i]
    BY DEF Meaning
  <1>2. x \in more
    BY <1>1 DEF Within, Apart
  <1>3. Meaning(more, f[i]) = {x[2]}
    BY <1>1, <1>2, MeaningOfKnown DEF Within
  <1>4. Meaning(K, f[i]) \subseteq Meaning(more, f[i])
    BY DEF Meaning, Within, Apart
  <1> QED BY <1>3, <1>4

\* A text that means a number to those who know less means it to those who
\* know more.
LEMMA MeantWithin ==
  ASSUME NEW K, NEW more, NEW other, NEW f,
         Within(K, more, other), Apart(other, f), Meant(K, f)
  PROVE  Meant(more, f) /\ MeaningOf(more, f) = MeaningOf(K, f)
  <1>1. \A i \in DOMAIN f : Meaning(K, f[i]) # {} /\ Meaning(more, f[i]) = Meaning(K, f[i])
    BY MeaningWithin DEF Meant
  <1>2. {Meaning(more, f[i]) : i \in DOMAIN f} = {Meaning(K, f[i]) : i \in DOMAIN f}
    BY <1>1
  <1> QED BY <1>1, <1>2 DEF Meant, MeaningOf

\* The computed variables of a sensor differ in their names.
LEMMA ComputedOnce ==
  ASSUME NEW s \in Sensors
  PROVE  /\ Len(Computed[s]) \in Nat /\ DOMAIN Computed[s] = 1 .. Len(Computed[s])
         /\ \A c, d \in ToSet(Computed[s]) : c.name = d.name => c = d
         /\ \A c \in ToSet(Computed[s]) : c.name \in Names /\ c.formula \in Seq(Operand)
  <1>1. Computed[s] \in Seq(Computations) /\ NamedOnce(s)
    BY ResolutionConstants
  <1>2. Len(Computed[s]) \in Nat /\ DOMAIN Computed[s] = 1 .. Len(Computed[s])
    BY <1>1, LenProperties
  <1>3. \A c \in ToSet(Computed[s]) : c \in Computations
    BY <1>1, <1>2, ElementOfSeq DEF ToSet
  <1> QED BY <1>1, <1>2, <1>3 DEF NamedOnce, ToSet, Computations

\* What is known at first says nothing of computed variables.
Basic(s, taken, first) ==
  /\ Single(first)
  /\ \A x \in first, c \in ToSet(Computed[s]) : c.name \notin taken => x[1] # NameOf(c.name)

\* What else is known is what the text of a computed variable means.
Grounded(s, taken, first, K) ==
  \A x \in K \ first :
    \E c \in ToSet(Computed[s]) :
      /\ c.name \notin taken /\ x[1] = NameOf(c.name)
      /\ Meant(K, c.formula) /\ x[2] = MeaningOf(K, c.formula) /\ ~Mentions(c.formula, State)

\* One more computed variable adds at most its own name to what is known.
LEMMA KnownNextKeeps ==
  ASSUME NEW s \in Sensors, NEW taken, NEW first, Basic(s, taken, first),
         NEW K, Single(K), first \subseteq K, Grounded(s, taken, first, K)
  PROVE  LET next == KnownNext(s, taken, K)
         IN  Single(next) /\ K \subseteq next /\ Grounded(s, taken, first, next)
  <1> DEFINE next == KnownNext(s, taken, K)
             Now(c) == /\ c \in ToSet(Computed[s]) /\ c.name \notin taken
                       /\ Meant(K, c.formula) /\ ~Mentions(c.formula, State)
  <1>1. K \subseteq next
    BY DEF KnownNext
  <1>2. ASSUME NEW x \in next
        PROVE  x \in first \/ \E c : Now(c) /\ x = <<NameOf(c.name), MeaningOf(K, c.formula)>>
    <2>1. CASE x \in K
      <3>1. x = <<x[1], x[2]>>
        BY <2>1 DEF Single
      <3> QED BY <2>1, <3>1 DEF Grounded
    <2>2. CASE x \notin K
      BY <2>2 DEF KnownNext
    <2> QED BY <2>1, <2>2
  <1>3. Single(next)
    <2> SUFFICES ASSUME NEW x \in next, NEW y \in next
                 PROVE  x = <<x[1], x[2]>> /\ (x[1] = y[1] => x = y)
      BY DEF Single
    <2>1. x = <<x[1], x[2]>>
      BY <1>2 DEF Basic, Single
    <2>2. ASSUME x[1] = y[1] PROVE x = y
      <3>1. CASE x \in first /\ y \in first
        BY <2>2, <3>1 DEF Basic, Single
      <3>2. CASE x \notin first
        <4>1. PICK c : Now(c) /\ x = <<NameOf(c.name), MeaningOf(K, c.formula)>>
          BY <1>2, <3>2
        <4>2. y \notin first
          BY <2>2, <4>1 DEF Basic
        <4>3. PICK d : Now(d) /\ y = <<NameOf(d.name), MeaningOf(K, d.formula)>>
          BY <1>2, <4>2
        <4>4. c.name = d.name
          BY <2>2, <4>1, <4>3 DEF NameOf
        <4> QED BY <4>1, <4>3, <4>4, ComputedOnce
      <3>3. CASE y \notin first
        <4>1. PICK d : Now(d) /\ y = <<NameOf(d.name), MeaningOf(K, d.formula)>>
          BY <1>2, <3>3
        <4>2. x \notin first
          BY <2>2, <4>1 DEF Basic
        <4>3. PICK c : Now(c) /\ x = <<NameOf(c.name), MeaningOf(K, c.formula)>>
          BY <1>2, <4>2
        <4>4. c.name = d.name
          BY <2>2, <4>1, <4>3 DEF NameOf
        <4> QED BY <4>1, <4>3, <4>4, ComputedOnce
      <3> QED BY <3>1, <3>2, <3>3
    <2> QED BY <2>1, <2>2
  <1>4. Grounded(s, taken, first, next)
    <2> SUFFICES ASSUME NEW x \in next \ first
                 PROVE  \E c \in ToSet(Computed[s]) :
                          /\ c.name \notin taken /\ x[1] = NameOf(c.name)
                          /\ Meant(next, c.formula) /\ x[2] = MeaningOf(next, c.formula)
                          /\ ~Mentions(c.formula, State)
      BY DEF Grounded
    <2>1. PICK c : Now(c) /\ x = <<NameOf(c.name), MeaningOf(K, c.formula)>>
      BY <1>2
    <2>2. Meant(next, c.formula) /\ MeaningOf(next, c.formula) = MeaningOf(K, c.formula)
      <3> HIDE DEF next
      <3>1. PICK none : none = {}
        OBVIOUS
      <3>2. Within(K, next, none) /\ Apart(none, c.formula)
        BY <1>1, <1>3, <3>1 DEF Within, Apart
      <3> QED BY <2>1, <3>2, MeantWithin
    <2> HIDE DEF next
    <2>3. x[1] = NameOf(c.name) /\ x[2] = MeaningOf(next, c.formula)
      BY <2>1, <2>2
    <2> QED BY <2>1, <2>2, <2>3
  <1> QED BY <1>1, <1>3, <1>4

\* What is known grows with the computed variables gone through, and stays
\* single.
LEMMA KnownGrows ==
  ASSUME NEW s \in Sensors, NEW taken, NEW first, Basic(s, taken, first)
  PROVE  LET A == KnownAfter(s, taken, first)
         IN  /\ A[0] = first
             /\ \A n \in 1 .. Len(Computed[s]) : A[n] = KnownNext(s, taken, A[n - 1])
             /\ \A n \in 0 .. Len(Computed[s]) :
                  /\ Single(A[n]) /\ first \subseteq A[n] /\ Grounded(s, taken, first, A[n])
                  /\ A[n] \subseteq A[Len(Computed[s])]
  <1> DEFINE A == KnownAfter(s, taken, first)
             N == Len(Computed[s])
  <1>1. Knows(s, taken, first, A) /\ N \in Nat
    BY KnownSteps, ComputedOnce
  <1>2. A[0] = first /\ \A n \in 1 .. N : A[n] = KnownNext(s, taken, A[n - 1])
    <2> HIDE DEF A
    <2>1. A = [n \in 0 .. N |-> IF n = 0 THEN first ELSE KnownNext(s, taken, A[n - 1])]
      BY <1>1 DEF Knows
    <2> HIDE DEF N
    <2> QED BY <1>1, <2>1
  <1> HIDE DEF A, N
  <1> DEFINE P(n) == /\ Single(A[n]) /\ first \subseteq A[n] /\ Grounded(s, taken, first, A[n])
                     /\ \A m \in 0 .. n : A[m] \subseteq A[n]
             T == {n \in Nat : n <= N => P(n)}
  <1>3. 0 \in T
    BY <1>2 DEF Basic, Grounded
  <1>4. ASSUME NEW n \in T PROVE n + 1 \in T
    <2> SUFFICES ASSUME n + 1 <= N PROVE P(n + 1)
      OBVIOUS
    <2>1. P(n) /\ A[n + 1] = KnownNext(s, taken, A[n])
      BY <1>1, <1>2
    <2>2. /\ Single(A[n + 1]) /\ A[n] \subseteq A[n + 1]
          /\ Grounded(s, taken, first, A[n + 1])
      BY <2>1, KnownNextKeeps
    <2>3. \A m \in 0 .. n + 1 : m \in 0 .. n \/ m = n + 1
      OBVIOUS
    <2> QED BY <2>1, <2>2, <2>3
  <1> HIDE DEF P
  <1>5. \A n \in 0 .. N : P(n)
    <2>1. T = Nat
      <3> HIDE DEF T
      <3>1. T \in SUBSET Nat
        BY DEF T
      <3> QED BY <1>3, <1>4, <3>1, Induction
    <2> QED BY <1>1, <2>1
  <1>6. \A n \in 0 .. N : A[n] \subseteq A[N]
    BY <1>1, <1>5 DEF P
  <1> QED BY <1>2, <1>5, <1>6 DEF P, N, A

\* Who knows less at first knows less in the end.
LEMMA KnownWithin ==
  ASSUME NEW s \in Sensors, NEW taken, NEW first, NEW more, Basic(s, taken, more),
         NEW other, first \subseteq more \cup other,
         \A c \in ToSet(Computed[s]) : c.name \notin taken => Apart(other, c.formula)
  PROVE  KnownAfter(s, taken, first)[Len(Computed[s])]
           \subseteq KnownAfter(s, taken, more)[Len(Computed[s])] \cup other
  <1> DEFINE A == KnownAfter(s, taken, first)
             B == KnownAfter(s, taken, more)
             N == Len(Computed[s])
  <1>1. Knows(s, taken, first, A) /\ N \in Nat
    BY KnownSteps, ComputedOnce
  <1>2. A[0] = first /\ \A n \in 1 .. N : A[n] = KnownNext(s, taken, A[n - 1])
    BY <1>1 DEF Knows
  <1>3. /\ B[0] = more
        /\ \A n \in 1 .. N : B[n] = KnownNext(s, taken, B[n - 1])
        /\ \A n \in 0 .. N : Single(B[n])
    BY KnownGrows
  <1> HIDE DEF A, B, N
  <1> DEFINE T == {n \in Nat : n <= N => A[n] \subseteq B[n] \cup other}
  <1>4. 0 \in T
    BY <1>2, <1>3
  <1>5. ASSUME NEW n \in T PROVE n + 1 \in T
    <2> SUFFICES ASSUME n + 1 <= N, NEW x \in A[n + 1] PROVE x \in B[n + 1] \cup other
      OBVIOUS
    <2>1. /\ A[n] \subseteq B[n] \cup other /\ Single(B[n])
          /\ A[n + 1] = KnownNext(s, taken, A[n]) /\ B[n + 1] = KnownNext(s, taken, B[n])
      BY <1>1, <1>2, <1>3
    <2>2. CASE x \in A[n]
      BY <2>1, <2>2 DEF KnownNext
    <2>3. CASE x \notin A[n]
      <3>1. PICK c \in ToSet(Computed[s]) :
              /\ c.name \notin taken /\ Meant(A[n], c.formula) /\ ~Mentions(c.formula, State)
              /\ x = <<NameOf(c.name), MeaningOf(A[n], c.formula)>>
        BY <2>1, <2>3 DEF KnownNext
      <3>2. Meant(B[n], c.formula) /\ MeaningOf(B[n], c.formula) = MeaningOf(A[n], c.formula)
        <4>1. Within(A[n], B[n], other) /\ Apart(other, c.formula)
          BY <2>1, <3>1 DEF Within
        <4> QED BY <3>1, <4>1, MeantWithin
      <3> QED BY <2>1, <3>1, <3>2 DEF KnownNext
    <2> QED BY <2>2, <2>3
  <1>6. T = Nat
    <2> HIDE DEF T
    <2>1. T \in SUBSET Nat
      BY DEF T
    <2> QED BY <1>4, <1>5, <2>1, Induction
  <1>7. A[N] \subseteq B[N] \cup other
    BY <1>1, <1>6
  <1> QED BY <1>7 DEF A, B, N

\* The variables of a sensor differ in their names, from each other and from
\* the computed ones.
LEMMA VariablesOnce ==
  ASSUME NEW s \in Sensors
  PROVE  /\ Len(Variables[s]) \in Nat /\ DOMAIN Variables[s] = 1 .. Len(Variables[s])
         /\ \A v, w \in ToSet(Variables[s]) : v.name = w.name => v = w
         /\ \A v \in ToSet(Variables[s]) : v \in Settings
         /\ \A v \in ToSet(Variables[s]), c \in ToSet(Computed[s]) : v.name # c.name
  <1>1. Variables[s] \in Seq(Settings) /\ NamedOnce(s)
    BY ResolutionConstants
  <1>2. Len(Variables[s]) \in Nat /\ DOMAIN Variables[s] = 1 .. Len(Variables[s])
    BY <1>1, LenProperties
  <1>3. \A v \in ToSet(Variables[s]) : v \in Settings
    BY <1>1, <1>2, ElementOfSeq DEF ToSet
  <1> QED BY <1>1, <1>2, <1>3 DEF NamedOnce, ToSet

\* Numbers that sensors read of entities and of each other are not those of
\* variables.
LEMMA NumbersAreNoNames ==
  \A s \in Sensors : \A op \in Numbers(s) : op.kind # "name" /\ \A n : op # NameOf(n)
  BY DEF Numbers, NameOf, State

\* What is known at first is that, of any readings.
FirstBasic == \A s \in Sensors : Basic(s, globals, KnownFirst(s))

LEMMA FirstIsBasic == FirstBasic
  <1> SUFFICES ASSUME NEW s \in Sensors PROVE Basic(s, globals, KnownFirst(s))
    BY DEF FirstBasic
  <1> DEFINE F == KnownFirst(s)
             G(n) == <<NameOf(n), {[kind |-> "global", of |-> n]}>>
             V(v) == <<NameOf(v.name), {v.value}>>
  <1>1. ASSUME NEW x \in F
        PROVE  \/ \E op \in Numbers(s) : x = <<op, {op}>>
               \/ \E n \in globals : x = G(n)
               \/ \E v \in ToSet(Variables[s]) : v.name \notin globals /\ x = V(v)
    BY DEF KnownFirst
  <1> HIDE DEF F
  <1>2. \A m, n : NameOf(m) = NameOf(n) => m = n
    BY DEF NameOf
  <1>3. ASSUME NEW x \in F, NEW y \in F, x[1] = y[1] PROVE x = <<x[1], x[2]>> /\ x = y
    <2>1. CASE \E op \in Numbers(s) : x = <<op, {op}>>
      <3>1. PICK op \in Numbers(s) : x = <<op, {op}>>
        BY <2>1
      <3>2. PICK o \in Numbers(s) : y = <<o, {o}>>
        BY <1>1, <1>3, <3>1, NumbersAreNoNames
      <3> QED BY <1>3, <3>1, <3>2
    <2>2. CASE \E n \in globals : x = G(n)
      <3>1. PICK n \in globals : x = G(n)
        BY <2>2
      <3>2. PICK m \in globals : y = G(m)
        BY <1>1, <1>2, <1>3, <3>1, NumbersAreNoNames
      <3> QED BY <1>2, <1>3, <3>1, <3>2
    <2>3. CASE \E v \in ToSet(Variables[s]) : v.name \notin globals /\ x = V(v)
      <3>1. PICK v \in ToSet(Variables[s]) : v.name \notin globals /\ x = V(v)
        BY <2>3
      <3>2. PICK w \in ToSet(Variables[s]) : y = V(w)
        BY <1>1, <1>2, <1>3, <3>1, NumbersAreNoNames
      <3>3. v.name = w.name
        BY <1>2, <1>3, <3>1, <3>2
      <3> QED BY <1>3, <3>1, <3>2, <3>3, VariablesOnce
    <2> QED BY <1>1, <2>1, <2>2, <2>3
  <1>4. ASSUME NEW x \in F, NEW c \in ToSet(Computed[s]), c.name \notin globals
        PROVE  x[1] # NameOf(c.name)
    BY <1>1, <1>2, <1>4, NumbersAreNoNames, VariablesOnce
  <1> QED BY <1>3, <1>4 DEF Basic, Single, F

-----------------------------------------------------------------------------
(* What the entries of a context show *)

KnownBy(s, k) == KnownAfter(s, globals, KnownFirst(s))[k]

\* What is known after k computed variables: the lemmas above, for this
\* module's use.
LEMMA KnownFacts ==
  \A s \in Sensors : \A k \in 0 .. Len(Computed[s]) :
    /\ Single(KnownBy(s, k)) /\ Single(Known(s))
    /\ KnownFirst(s) \subseteq KnownBy(s, k) /\ KnownBy(s, k) \subseteq Known(s)
    /\ Grounded(s, globals, KnownFirst(s), Known(s))
    /\ k # 0 => KnownBy(s, k) = KnownNext(s, globals, KnownBy(s, k - 1))
  <1> SUFFICES ASSUME NEW s \in Sensors, NEW k \in 0 .. Len(Computed[s])
               PROVE  /\ Single(KnownBy(s, k)) /\ Single(Known(s))
                      /\ KnownFirst(s) \subseteq KnownBy(s, k) /\ KnownBy(s, k) \subseteq Known(s)
                      /\ Grounded(s, globals, KnownFirst(s), Known(s))
                      /\ k # 0 => KnownBy(s, k) = KnownNext(s, globals, KnownBy(s, k - 1))
    OBVIOUS
  <1> DEFINE A == KnownAfter(s, globals, KnownFirst(s))
  <1>1. Len(Computed[s]) \in Nat
    BY ComputedOnce
  <1>2. /\ \A n \in 1 .. Len(Computed[s]) : A[n] = KnownNext(s, globals, A[n - 1])
        /\ \A n \in 0 .. Len(Computed[s]) :
             /\ Single(A[n]) /\ KnownFirst(s) \subseteq A[n]
             /\ Grounded(s, globals, KnownFirst(s), A[n])
             /\ A[n] \subseteq A[Len(Computed[s])]
    BY FirstIsBasic, KnownGrows DEF FirstBasic
  <1>3. Known(s) = A[Len(Computed[s])] /\ KnownBy(s, k) = A[k] /\ KnownBy(s, k - 1) = A[k - 1]
    BY DEF Known, KnownBy
  <1> HIDE DEF A
  <1>4. k # 0 => k \in 1 .. Len(Computed[s])
    BY <1>1
  <1>5. Len(Computed[s]) \in 0 .. Len(Computed[s])
    BY <1>1
  <1> QED BY <1>2, <1>3, <1>4, <1>5

\* The text of a single operand.
LEMMA OneOperand ==
  ASSUME NEW K, NEW op
  PROVE  /\ Meant(K, <<op>>) <=> Meaning(K, op) # {}
         /\ \A o : Mentions(<<op>>, o) <=> op = o
  <1>1. DOMAIN <<op>> = {1} /\ <<op>>[1] = op
    OBVIOUS
  <1>2. Meant(K, <<op>>) <=> Meaning(K, op) # {}
    BY <1>1 DEF Meant
  <1>3. \A o : Mentions(<<op>>, o) <=> op = o
    BY <1>1 DEF Mentions
  <1> QED BY <1>2, <1>3

\* The texts of a sensor.
TextOf(s, f) == f = Formula[s] \/ \E c \in ToSet(Computed[s]) : f = c.formula

\* A text of a sensor is a sequence of operands.
LEMMA TextType ==
  ASSUME NEW s \in Sensors, NEW f, TextOf(s, f)
  PROVE  /\ f \in Seq(Operand) /\ Len(f) \in Nat /\ DOMAIN f = 1 .. Len(f)
         /\ \A i \in DOMAIN f : f[i] \in Operand
  <1>1. f \in Seq(Operand)
    BY ResolutionConstants, ComputedOnce DEF TextOf
  <1> QED BY <1>1, LenProperties, ElementOfSeq

\* Where a value of none comes from.
NoneBehind(s) ==
  \/ \E e \in ReadBy(s) : reading[e] = "none"
  \/ \E c \in ToSet(Computed[s]) :
       c.name \notin globals /\ (~Meant(Known(s), c.formula) \/ Mentions(c.formula, State))
  \/ ~Ordered(s)

\* Only `state` itself asks for the state.
Stateless(x) == Mentions(x.ref, State) => x.name = State

\* What an entry's value says of the text it comes from, after k computed variables.
Fits(s, x, k) ==
  /\ x.value.kind \in Alternates \cup {"number", "text"}
  /\ x.value.kind = "number" =>
       /\ Meant(KnownBy(s, k), x.ref) /\ MeaningOf(KnownBy(s, k), x.ref) = x.value.from
       /\ <<x.name, x.value.from>> \in KnownBy(s, k)
  /\ x.value.kind \in {"text", "unknown", "unavailable"} => ~Meant(Known(s), x.ref)
  /\ x.value.kind = "unknown" => \E e \in ReadBy(s) : reading[e] = "unknown"
  /\ x.value.kind = "none" => NoneBehind(s)
  /\ Meaning(Known(s), x.name) # {} => Meant(Known(s), x.ref) /\ Stateless(x)
  /\ Ordered(s) /\ Meant(Known(s), x.ref) /\ Stateless(x) => x.value.kind = "number"

\* An entry that a single operand is read for.
LEMMA OneFits ==
  ASSUME NEW s \in Sensors, NEW k \in 0 .. Len(Computed[s]), NEW op, NEW x,
         x.ref = <<op>>, op = State => x.name = State,
         \/ /\ x.value.kind = "number"
            /\ <<op, x.value.from>> \in KnownFirst(s) /\ <<x.name, x.value.from>> \in KnownFirst(s)
         \/ /\ Meaning(Known(s), op) = {} /\ Meaning(Known(s), x.name) = {}
            /\ \/ x.value.kind = "none" /\ NoneBehind(s)
               \/ x.value.kind = "unknown" /\ \E e \in ReadBy(s) : reading[e] = "unknown"
               \/ x.value.kind \in {"unavailable", "text"}
  PROVE  Fits(s, x, k)
  <1>1. Meant(Known(s), <<op>>) <=> Meaning(Known(s), op) # {}
    BY OneOperand
  <1>2. Stateless(x)
    BY OneOperand DEF Stateless
  <1>3. CASE x.value.kind = "number"
    <2>1. PICK L : L = x.value.from
      OBVIOUS
    <2>2. PICK K : K = KnownBy(s, k)
      OBVIOUS
    <2>3. Single(K)
      BY <2>2, KnownFacts
    <2>4. PICK y \in K : y = <<op, L>>
      BY <1>3, <2>1, <2>2, KnownFacts
    <2>5. y[1] = op /\ y[2] = L
      BY <2>4
    <2>6. Meaning(K, op) = {L}
      BY <2>3, <2>5, MeaningOfKnown
    <2>7. Meant(K, <<op>>) /\ MeaningOf(K, <<op>>) = L
      <3> DEFINE f == <<op>>
      <3>1. DOMAIN f = {1} /\ f[1] = op
        OBVIOUS
      <3> HIDE DEF f
      <3>2. {Meaning(K, f[i]) : i \in DOMAIN f} = {{L}}
        BY <2>6, <3>1
      <3>3. MeaningOf(K, f) = L
        BY <3>2 DEF MeaningOf
      <3>4. Meant(K, f)
        BY <2>6, <3>1 DEF Meant
      <3> QED BY <3>3, <3>4 DEF f
    <2>8. <<x.name, L>> \in K
      BY <1>3, <2>1, <2>2, KnownFacts
    <2>9. Meant(Known(s), <<op>>)
      <3>1. y \in Known(s)
        BY <2>2, <2>4, KnownFacts
      <3> QED BY <1>1, <2>5, <3>1 DEF Meaning
    <2> QED BY <1>2, <1>3, <2>1, <2>2, <2>7, <2>8, <2>9 DEF Fits, Alternates
  <1>4. CASE x.value.kind # "number"
    BY <1>1, <1>2, <1>4 DEF Fits, Alternates
  <1> QED BY <1>3, <1>4

\* An entry that fits after k computed variables fits after the next.
LEMMA FitsLater ==
  ASSUME NEW s \in Sensors, NEW k \in 0 .. Len(Computed[s]), k + 1 \in 0 .. Len(Computed[s]),
         NEW x, Fits(s, x, k)
  PROVE  Fits(s, x, k + 1)
  <1>1. /\ Single(KnownBy(s, k + 1))
        /\ KnownBy(s, k + 1) = KnownNext(s, globals, KnownBy(s, k))
    BY KnownFacts
  <1>2. KnownBy(s, k) \subseteq KnownBy(s, k + 1)
    BY <1>1 DEF KnownNext
  <1>3. PICK none : none = {}
    OBVIOUS
  <1>4. Within(KnownBy(s, k), KnownBy(s, k + 1), none) /\ Apart(none, x.ref)
    BY <1>1, <1>2, <1>3 DEF Within, Apart
  <1>5. Meant(KnownBy(s, k), x.ref)
          => /\ Meant(KnownBy(s, k + 1), x.ref)
             /\ MeaningOf(KnownBy(s, k + 1), x.ref) = MeaningOf(KnownBy(s, k), x.ref)
    BY <1>4, MeantWithin
  <1> QED BY <1>2, <1>5 DEF Fits

\* What has a number.
LEMMA HasMeaning ==
  \A s \in Sensors : \A op :
    Meaning(Known(s), op) # {} =>
      \/ op \in Numbers(s)
      \/ \E n \in globals : op = NameOf(n)
      \/ \E v \in ToSet(Variables[s]) :
           /\ v.name \notin globals /\ op = NameOf(v.name)
           /\ v.value.kind = "literal" \/ reading[v.value.of] = "number"
      \/ \E c \in ToSet(Computed[s]) :
           /\ c.name \notin globals /\ op = NameOf(c.name)
           /\ Meant(Known(s), c.formula) /\ ~Mentions(c.formula, State)
  <1> SUFFICES ASSUME NEW s \in Sensors, NEW op, NEW x \in Known(s), x[1] = op
               PROVE  \/ op \in Numbers(s)
                      \/ \E n \in globals : op = NameOf(n)
                      \/ \E v \in ToSet(Variables[s]) :
                           /\ v.name \notin globals /\ op = NameOf(v.name)
                           /\ v.value.kind = "literal" \/ reading[v.value.of] = "number"
                      \/ \E c \in ToSet(Computed[s]) :
                           /\ c.name \notin globals /\ op = NameOf(c.name)
                           /\ Meant(Known(s), c.formula) /\ ~Mentions(c.formula, State)
    BY DEF Meaning
  <1>1. CASE x \in KnownFirst(s)
    BY <1>1 DEF KnownFirst
  <1>2. CASE x \notin KnownFirst(s)
    <2>1. 0 \in 0 .. Len(Computed[s])
      BY ComputedOnce
    <2> QED BY <1>2, <2>1, KnownFacts DEF Grounded
  <1> QED BY <1>1, <1>2

\* The types that reading has.
LEMMA ReadingKinds ==
  ASSUME TypeOK, NEW op, op.of \in Entities
  PROVE  /\ reading[op.of] = "number" => Reading(op) = Number({op})
         /\ reading[op.of] # "number" => Reading(op).kind = reading[op.of]
         /\ reading[op.of] \in {"number", "missing", "none", "unknown", "unavailable"}
  BY DEF TypeOK, Reading, Number, Alternate, Readings, Alternates

\* A global variable's entry.
LEMMA GlobalFits ==
  ASSUME NEW s \in Sensors, NEW k \in 0 .. Len(Computed[s]), NEW n \in globals, NEW x,
         x = Entry(NameOf(n), <<NameOf(n)>>, Number({[kind |-> "global", of |-> n]}))
  PROVE  Fits(s, x, k)
  <1>1. PICK op : op = NameOf(n)
    OBVIOUS
  <1>2. PICK L : L = {[kind |-> "global", of |-> n]}
    OBVIOUS
  <1>3. <<op, L>> \in KnownFirst(s)
    BY <1>1, <1>2 DEF KnownFirst
  <1>4. /\ x.ref = <<op>> /\ x.name = op
        /\ x.value.kind = "number" /\ x.value.from = L
    BY <1>1, <1>2 DEF Entry, Number
  <1>5. <<op, x.value.from>> \in KnownFirst(s) /\ <<x.name, x.value.from>> \in KnownFirst(s)
    BY <1>3, <1>4
  <1>6. op = State => x.name = State
    BY <1>4
  <1> QED BY <1>4, <1>5, <1>6, OneFits

\* An entity that a text names or a variable stands for.
LEMMA EntityFits ==
  ASSUME TypeOK, NEW s \in Sensors, NEW k \in 0 .. Len(Computed[s]), NEW x,
         NEW op, op.kind = "entity", op.of \in Entities, op \in Operand, op.of \in ReadBy(s),
         x.ref = <<op>>,
         \/ reading[op.of] = "missing" /\ x.value = Text
         \/ reading[op.of] # "missing" /\ x.value = Reading(op),
         reading[op.of] = "number" => <<x.name, {op}>> \in KnownFirst(s),
         reading[op.of] # "number" => Meaning(Known(s), x.name) = {}
  PROVE  Fits(s, x, k)
  <1>1. op # State /\ \A n : op # NameOf(n)
    BY DEF State, NameOf
  <1>2. CASE reading[op.of] = "number"
    <2>1. op \in Numbers(s)
      BY <1>2 DEF Numbers
    <2>2. <<op, {op}>> \in KnownFirst(s)
      BY <2>1 DEF KnownFirst
    <2>3. x.value.kind = "number" /\ x.value.from = {op}
      BY <1>2, ReadingKinds DEF Number
    <2>4. <<op, x.value.from>> \in KnownFirst(s) /\ <<x.name, x.value.from>> \in KnownFirst(s)
      BY <1>2, <2>2, <2>3
    <2> QED BY <1>1, <2>3, <2>4, OneFits
  <1>3. CASE reading[op.of] # "number"
    <2>1. op \notin Numbers(s)
      BY <1>1, <1>3 DEF Numbers
    <2>2. Meaning(Known(s), op) = {}
      BY <1>1, <2>1, HasMeaning
    <2>3. \/ x.value.kind = "none" /\ NoneBehind(s)
          \/ x.value.kind = "unknown" /\ \E e \in ReadBy(s) : reading[e] = "unknown"
          \/ x.value.kind \in {"unavailable", "text"}
      <3>1. CASE reading[op.of] = "missing"
        BY <3>1 DEF Text
      <3>2. CASE reading[op.of] # "missing"
        <4>1. x.value.kind = reading[op.of]
          BY <1>3, <3>2, ReadingKinds
        <4>2. reading[op.of] \in {"none", "unknown", "unavailable"}
          BY <1>3, <3>2, ReadingKinds
        <4>3. reading[op.of] = "none" => NoneBehind(s)
          BY DEF NoneBehind
        <4> QED BY <4>1, <4>2, <4>3
      <3> QED BY <3>1, <3>2
    <2> QED BY <1>1, <1>3, <2>2, <2>3, OneFits
  <1> QED BY <1>2, <1>3

\* What a sensor's texts and variables name, it reads.
LEMMA TextReads ==
  ASSUME NEW s \in Sensors, NEW e \in Entities, NEW f, TextOf(s, f), NEW i \in DOMAIN f, NEW op,
         op = f[i],
         \/ op.kind \in {"entity", "attribute"} /\ op.of = e
         \/ op.kind = "state" /\ OwnState[s] = e
  PROVE  e \in ReadBy(s)
  <1>1. op \in UNION {ToSet(Formula[s]), {v.value : v \in ToSet(Variables[s])},
                     UNION {ToSet(c.formula) : c \in ToSet(Computed[s])}}
    <2>1. op \in ToSet(f)
      BY DEF ToSet
    <2>2. CASE f = Formula[s]
      BY <2>1, <2>2
    <2>3. CASE \E c \in ToSet(Computed[s]) : f = c.formula
      BY <2>1, <2>3
    <2> QED BY <2>2, <2>3 DEF TextOf
  <1> QED BY <1>1 DEF ReadBy

\* An entity that a variable names is one the sensor reads.
LEMMA VariableReads ==
  ASSUME NEW s \in Sensors, NEW e \in Entities, NEW v \in ToSet(Variables[s]),
         v.value.kind = "entity", v.value.of = e
  PROVE  e \in ReadBy(s)
  <1>1. v.value \in UNION {ToSet(Formula[s]), {w.value : w \in ToSet(Variables[s])},
                          UNION {ToSet(c.formula) : c \in ToSet(Computed[s])}}
    OBVIOUS
  <1> QED BY <1>1 DEF ReadBy

\* A simple variable's entry, if no global variable has its name.
LEMMA VariableFits ==
  ASSUME TypeOK, NEW s \in Sensors, NEW k \in 0 .. Len(Computed[s]),
         NEW v \in ToSet(Variables[s]), v.name \notin globals, NEW x, x = VariableEntry(v)
  PROVE  Fits(s, x, k) /\ x.name = NameOf(v.name)
         /\ (x.value.kind = "number" => ~Mentions(x.ref, State))
  <1>1. /\ v \in Settings /\ v.name \in Names
        /\ v.value \in [kind : {"entity"}, of : Entities] \cup [kind : {"literal"}, of : Names]
    BY VariablesOnce DEF Settings
  <1>2. x.name = NameOf(v.name)
    BY DEF VariableEntry, Entry
  <1>3. CASE v.value.kind = "literal"
    <2>1. PICK op : op = NameOf(v.name)
      OBVIOUS
    <2>2. PICK L : L = {v.value}
      OBVIOUS
    <2>3. /\ x.ref = <<op>> /\ x.name = op
          /\ x.value.kind = "number" /\ x.value.from = L
      BY <1>3, <2>1, <2>2 DEF VariableEntry, Entry, Resolved, Number
    <2>4. <<op, L>> \in KnownFirst(s)
      BY <1>3, <2>1, <2>2 DEF KnownFirst
    <2>5. <<op, x.value.from>> \in KnownFirst(s) /\ <<x.name, x.value.from>> \in KnownFirst(s)
      BY <2>3, <2>4
    <2>6. op # State
      BY <2>1 DEF NameOf, State
    <2>7. Fits(s, x, k)
      BY <2>3, <2>5, <2>6, OneFits
    <2> QED BY <1>2, <2>3, <2>6, <2>7, OneOperand
  <1>4. CASE v.value.kind = "entity"
    <2>1. PICK op : op = v.value
      OBVIOUS
    <2>2. /\ op.kind = "entity" /\ op.of \in Entities /\ op \in Operand /\ op # State
      BY <1>1, <1>4, <2>1 DEF Operand, State
    <2>3. op.of \in ReadBy(s)
      BY <1>4, <2>1, <2>2, VariableReads
    <2>4. x.ref = <<op>>
      BY <1>4, <2>1 DEF VariableEntry, Entry
    <2>5. \/ reading[op.of] = "missing" /\ x.value = Text
          \/ reading[op.of] # "missing" /\ x.value = Reading(op)
      BY <1>4, <2>1 DEF VariableEntry, Entry, Resolved
    <2>6. reading[op.of] = "number" => <<x.name, {op}>> \in KnownFirst(s)
      BY <1>2, <2>1 DEF KnownFirst
    <2>7. reading[op.of] # "number" => Meaning(Known(s), x.name) = {}
      <3> SUFFICES ASSUME reading[op.of] # "number", Meaning(Known(s), x.name) # {} PROVE FALSE
        OBVIOUS
      <3>1. \A n : x.name = NameOf(n) => n = v.name
        BY <1>2 DEF NameOf
      <3>2. x.name \notin Numbers(s)
        BY <1>2, NumbersAreNoNames
      <3>3. \E w \in ToSet(Variables[s]) :
              /\ w.name = v.name
              /\ w.value.kind = "literal" \/ reading[w.value.of] = "number"
        BY <3>1, <3>2, HasMeaning, VariablesOnce
      <3> QED BY <1>4, <2>1, <3>3, VariablesOnce
    <2>8. Fits(s, x, k)
      BY <2>2, <2>3, <2>4, <2>5, <2>6, <2>7, EntityFits
    <2> QED BY <1>2, <2>2, <2>4, <2>8, OneOperand
  <1> QED BY <1>1, <1>3, <1>4

\* What is absent is a fault of the text.
LEMMA AbsenceIsFault ==
  ASSUME NEW f, Absence(f)
  PROVE  Fault(f) # "none"
  <1>1. CASE AttributeMissing(f)
    BY <1>1 DEF Fault
  <1>2. CASE ~AttributeMissing(f)
    <2>1. \E i \in DOMAIN f : Unreadable(f[i])
      BY <1>2 DEF Absence, AttributeMissing, Unreadable, EntityAbsent, NumberAbsent
    <2> QED BY <1>2, <2>1 DEF Fault
  <1> QED BY <1>1, <1>2

\* The entry of an entity or a sensor that a text names.
LEMMA TextFits ==
  ASSUME TypeOK, NEW s \in Sensors, NEW k \in 0 .. Len(Computed[s]), NEW f, TextOf(s, f),
         ~Absence(f), NEW i \in DOMAIN f, f[i].kind \in {"entity", "sensor"},
         NEW x, x = TextEntry(f[i])
  PROVE  Fits(s, x, k)
  <1>1. PICK op \in Operand : op = f[i]
    BY TextType
  <1>2. x.name = op /\ x.ref = <<op>>
    BY <1>1 DEF TextEntry, Entry
  <1>3. CASE op.kind = "entity"
    <2>1. op.of \in Entities /\ reading[op.of] # "missing"
      BY <1>1, <1>3 DEF Operand, Absence, State
    <2>2. op.of \in ReadBy(s)
      <3>1. PICK e \in Entities : e = op.of
        BY <2>1
      <3>2. op.kind \in {"entity", "attribute"} /\ op.of = e
        BY <1>3, <3>1
      <3> QED BY <1>1, <3>1, <3>2, TextReads
    <2>3. x.value = Reading(op)
      BY <1>1, <1>3 DEF TextEntry, Entry
    <2>4. reading[op.of] = "number" => op \in Numbers(s)
      BY <1>3 DEF Numbers
    <2>5. reading[op.of] = "number" => <<x.name, {op}>> \in KnownFirst(s)
      BY <1>2, <2>4 DEF KnownFirst
    <2>6. op \in Numbers(s) => reading[op.of] = "number"
      BY <1>3 DEF Numbers, State
    <2>7. \A n : op # NameOf(n)
      BY <1>3 DEF NameOf
    <2>8. reading[op.of] # "number" => Meaning(Known(s), x.name) = {}
      BY <1>2, <2>6, <2>7, HasMeaning
    <2> QED BY <1>2, <1>3, <2>1, <2>2, <2>3, <2>5, <2>8, EntityFits
  <1>4. CASE op.kind = "sensor"
    <2>1. op \in Numbers(s)
      BY <1>1, <1>4 DEF Absence, Numbers
    <2>2. <<op, {op}>> \in KnownFirst(s)
      BY <2>1 DEF KnownFirst
    <2>3. x.value.kind = "number" /\ x.value.from = {op}
      BY <1>1, <1>4 DEF TextEntry, Entry, Number
    <2>4. <<op, x.value.from>> \in KnownFirst(s) /\ <<x.name, x.value.from>> \in KnownFirst(s)
      BY <1>2, <2>2, <2>3
    <2>5. op = State => x.name = State
      BY <1>2
    <2> QED BY <1>2, <2>3, <2>4, <2>5, OneFits
  <1> QED BY <1>1, <1>3, <1>4

\* The entry of `state`.
LEMMA StateFits ==
  ASSUME TypeOK, NEW s \in Sensors, NEW k \in 0 .. Len(Computed[s]),
         Mentions(Formula[s], State), ~StateLost(s),
         NEW v, NEW x, x = Entry(State, <<State>>, v),
         v = IF OwnState[s] = OwnId \/ reading[OwnState[s]] = "number"
             THEN Number({State}) ELSE Alternate(reading[OwnState[s]])
  PROVE  Fits(s, x, k)
  <1>1. PICK op : op = State
    OBVIOUS
  <1>2. /\ x.name = op /\ x.ref = <<op>> /\ x.value = v
        /\ op \in Operand /\ op.kind = "state"
    BY <1>1 DEF Entry, State, Operand
  <1>3. OwnState[s] # Nothing /\ OwnState[s] \in Entities \cup {OwnId}
    BY ResolutionConstants DEF StateLost
  <1>4. CASE OwnState[s] = OwnId \/ reading[OwnState[s]] = "number"
    <2>1. op \in Numbers(s)
      BY <1>1, <1>2, <1>3, <1>4 DEF Numbers
    <2>2. <<op, {op}>> \in KnownFirst(s)
      BY <2>1 DEF KnownFirst
    <2>3. x.value.kind = "number" /\ x.value.from = {op}
      <3>1. v = Number({op})
        BY <1>1, <1>4
      <3>2. Number({op}).kind = "number" /\ Number({op}).from = {op}
        BY DEF Number
      <3> QED BY <1>2, <3>1, <3>2
    <2>4. <<op, x.value.from>> \in KnownFirst(s) /\ <<x.name, x.value.from>> \in KnownFirst(s)
      BY <1>2, <2>2, <2>3
    <2> QED BY <1>1, <1>2, <2>3, <2>4, OneFits
  <1>5. CASE ~(OwnState[s] = OwnId \/ reading[OwnState[s]] = "number")
    <2>1. PICK e \in Entities : e = OwnState[s]
      BY <1>3, <1>5
    <2>2. e \in ReadBy(s)
      <3>1. PICK i \in DOMAIN Formula[s] : Formula[s][i] = op
        BY <1>1 DEF Mentions
      <3> QED BY <1>2, <2>1, <3>1, TextReads DEF TextOf
    <2>3. reading[e] \in {"none", "unknown", "unavailable"}
      BY <1>5, <2>1 DEF StateLost, TypeOK, Readings, Alternates
    <2>4. x.value.kind = reading[e]
      BY <1>2, <1>5, <2>1 DEF Alternate
    <2>5. op \notin Numbers(s)
      BY <1>2, <1>5 DEF Numbers
    <2>6. \A n : op # NameOf(n)
      BY <1>2 DEF NameOf
    <2>7. Meaning(Known(s), op) = {}
      BY <2>5, <2>6, HasMeaning
    <2>8. \/ x.value.kind = "none" /\ NoneBehind(s)
          \/ x.value.kind = "unknown" /\ \E d \in ReadBy(s) : reading[d] = "unknown"
          \/ x.value.kind \in {"unavailable", "text"}
      BY <2>2, <2>3, <2>4 DEF NoneBehind
    <2> QED BY <1>1, <1>2, <2>7, <2>8, OneFits
  <1> QED BY <1>4, <1>5

\* A finite set as a sequence has the same elements, each once.
LEMMA SetToSeqElements ==
  ASSUME NEW S, IsFiniteSet(S)
  PROVE  /\ SetToSeq(S) \in Seq(S) /\ ToSet(SetToSeq(S)) = S
         /\ \A i, j \in DOMAIN SetToSeq(S) : SetToSeq(S)[i] = SetToSeq(S)[j] => i = j
  <1> DEFINE N == Cardinality(S)
             P(g) == g \in [1 .. N -> S] /\ IsInjective(g)
             q == SetToSeq(S)
  <1>1. N \in Nat
    BY FS_CardinalityType
  <1>2. PICK f : f \in Bijection(1 .. N, S)
    BY FS_CardinalityType DEF ExistsBijection
  <1>3. P(f)
    BY <1>2 DEF Bijection, Injection, IsInjective
  <1>4. q = CHOOSE g : P(g)
    BY DEF SetToSeq
  <1>5. P(q)
    BY <1>3, <1>4
  <1> HIDE DEF q
  <1>6. q \in Injection(1 .. N, S)
    BY <1>5 DEF Injection
  <1>7. Cardinality(1 .. N) = N
    BY <1>1, FS_Interval
  <1>8. q \in Surjection(1 .. N, S)
    BY <1>6, <1>7, FS_Injection
  <1>9. ToSet(q) = S
    BY <1>5, <1>8 DEF Surjection, ToSet
  <1>10. q \in Seq(S)
    BY <1>1, <1>5
  <1> QED BY <1>5, <1>9, <1>10 DEF q, IsInjective

\* The names that the context of a sensor is to have once k of its computed
\* variables are gone through.
Named(s, n, k) ==
  \/ n \in globals
  \/ \E v \in ToSet(Variables[s]) : n = v.name
  \/ \E j \in 1 .. k : n = Computed[s][j].name

\* A context without the entries of a text, and what it shows.
OfNames(s, x, k) ==
  /\ \E n : Named(s, n, k) /\ x.name = NameOf(n)
  /\ x.value.kind = "number" => ~Mentions(x.ref, State)

Shows(s, ctx, k) ==
  /\ Context(ctx)
  /\ \A x \in ToSet(ctx) : Fits(s, x, k) /\ OfNames(s, x, k)
  /\ \A n : Named(s, n, k) => Has(ctx, NameOf(n))
  /\ \A j \in 1 .. k : Computed[s][j].name \in globals \/ ~Absence(Computed[s][j].formula)

\* The context of the global variables.
LEMMA GlobalContextShows ==
  ASSUME TypeOK, IsFiniteSet(globals), NEW s \in Sensors
  PROVE  /\ Context(GlobalContext)
         /\ \A x \in ToSet(GlobalContext) : Fits(s, x, 0) /\ OfNames(s, x, 0)
         /\ \A n : Has(GlobalContext, NameOf(n)) <=> n \in globals
  <1> DEFINE names == SetToSeq(globals)
             E(n) == Entry(NameOf(n), <<NameOf(n)>>, Number({[kind |-> "global", of |-> n]}))
             ctx == GlobalContext
  <1>1. /\ names \in Seq(globals) /\ ToSet(names) = globals
        /\ \A i, j \in DOMAIN names : names[i] = names[j] => i = j
    BY SetToSeqElements
  <1>2. ctx = [i \in DOMAIN names |-> E(names[i])]
    BY DEF GlobalContext
  <1>3. \A n : E(n).name = NameOf(n) /\ E(n).ref = <<NameOf(n)>>
    BY DEF Entry
  <1>4. DOMAIN names = 1 .. Len(names) /\ Len(names) \in Nat
    BY <1>1, LenProperties
  <1> HIDE DEF names, ctx, E
  <1>5. DOMAIN ctx = DOMAIN names /\ \A i \in DOMAIN ctx : ctx[i] = E(names[i])
    BY <1>2
  <1>6. ctx \in Seq(ToSet(ctx))
    <2>1. \A i \in DOMAIN names : E(names[i]) \in ToSet(ctx)
      BY <1>5 DEF ToSet
    <2> QED BY <1>2, <1>4, <2>1
  <1>7. \A x \in ToSet(ctx) : \E n \in globals : x = E(n)
    BY <1>1, <1>5 DEF ToSet
  <1>8. \A n \in globals : E(n) \in ToSet(ctx)
    BY <1>1, <1>5 DEF ToSet
  <1>9. \A m, n : NameOf(m) = NameOf(n) => m = n
    BY DEF NameOf
  <1>10. Context(ctx)
    BY <1>3, <1>6, <1>7, <1>9 DEF Context
  <1>11. \A x \in ToSet(ctx) : Fits(s, x, 0) /\ OfNames(s, x, 0)
    <2> SUFFICES ASSUME NEW x \in ToSet(ctx) PROVE Fits(s, x, 0) /\ OfNames(s, x, 0)
      OBVIOUS
    <2>1. PICK n \in globals : x = E(n)
      BY <1>7
    <2>2. 0 \in 0 .. Len(Computed[s])
      BY ComputedOnce
    <2>3. Fits(s, x, 0)
      BY <2>1, <2>2, GlobalFits DEF E
    <2>4. Named(s, n, 0) /\ x.name = NameOf(n)
      BY <1>3, <2>1 DEF Named
    <2>5. ~Mentions(x.ref, State)
      <3>1. PICK op : op = NameOf(n)
        OBVIOUS
      <3>2. op # State /\ x.ref = <<op>>
        BY <1>3, <2>1, <3>1 DEF NameOf, State
      <3> QED BY <3>2, OneOperand
    <2> QED BY <2>3, <2>4, <2>5 DEF OfNames
  <1>12. \A n : Has(ctx, NameOf(n)) <=> n \in globals
    BY <1>3, <1>7, <1>8, <1>9, HasEntry
  <1> QED BY <1>10, <1>11, <1>12 DEF ctx

\* The context a sensor's evaluation starts with.
LEMMA StartContextShows ==
  ASSUME TypeOK, IsFiniteSet(globals), NEW s \in Sensors
  PROVE  Shows(s, StartContext(s), 0)
  <1> DEFINE entries == [i \in DOMAIN Variables[s] |-> VariableEntry(Variables[s][i])]
             last == Len(Variables[s])
             all == StartContext(s)
  <1>1. PICK ctx : ctx = GlobalContext
    OBVIOUS
  <1>2. /\ Context(ctx)
        /\ \A x \in ToSet(ctx) : Fits(s, x, 0) /\ OfNames(s, x, 0)
        /\ \A n : Has(ctx, NameOf(n)) <=> n \in globals
    BY <1>1, GlobalContextShows
  <1>3. last \in Nat /\ DOMAIN entries = 1 .. last
    BY VariablesOnce
  <1>4. all = IncludeAll(ctx, last, entries)
    BY <1>1 DEF StartContext, WithVariables
  <1>5. \A i \in DOMAIN entries : \E v \in ToSet(Variables[s]) : entries[i] = VariableEntry(v)
    BY DEF ToSet
  <1>6. \A v \in ToSet(Variables[s]) : \E i \in DOMAIN entries : entries[i] = VariableEntry(v)
    BY DEF ToSet
  <1> HIDE DEF entries, last, all
  <1>7. /\ Context(all) /\ ToSet(ctx) \subseteq ToSet(all)
        /\ \A x \in ToSet(all) \ ToSet(ctx) :
             ~Has(ctx, x.name) /\ \E i \in DOMAIN entries : x = entries[i]
        /\ \A i \in DOMAIN entries : Has(all, entries[i].name)
    <2>1. DOMAIN entries \subseteq 1 .. last
      BY <1>3
    <2>2. Context(ctx)
      BY <1>2
    <2>3. /\ Context(IncludeAll(ctx, last, entries))
          /\ ToSet(ctx) \subseteq ToSet(IncludeAll(ctx, last, entries))
          /\ \A x \in ToSet(IncludeAll(ctx, last, entries)) \ ToSet(ctx) :
               ~Has(ctx, x.name) /\ \E i \in DOMAIN entries : x = entries[i]
          /\ \A i \in DOMAIN entries : Has(IncludeAll(ctx, last, entries), entries[i].name)
      BY <1>3, <2>1, <2>2, IncludeAllEffect
    <2> QED BY <1>4, <2>3
  <1>8. ASSUME NEW x \in ToSet(all) PROVE Fits(s, x, 0) /\ OfNames(s, x, 0)
    <2>1. CASE x \in ToSet(ctx)
      BY <1>2, <2>1
    <2>2. CASE x \notin ToSet(ctx)
      <3>1. PICK v \in ToSet(Variables[s]) : x = VariableEntry(v)
        BY <1>5, <1>7, <2>2
      <3>2. x.name = NameOf(v.name)
        BY <3>1 DEF VariableEntry, Entry
      <3>3. v.name \notin globals
        BY <1>2, <1>7, <2>2, <3>2
      <3>4. 0 \in 0 .. Len(Computed[s])
        BY ComputedOnce
      <3>5. Fits(s, x, 0) /\ (x.value.kind = "number" => ~Mentions(x.ref, State))
        BY <3>1, <3>3, <3>4, VariableFits
      <3> QED BY <3>2, <3>5 DEF OfNames, Named
    <2> QED BY <2>1, <2>2
  <1>9. ASSUME NEW n, Named(s, n, 0) PROVE Has(all, NameOf(n))
    <2>1. CASE n \in globals
      BY <1>2, <1>7, <2>1, HasEntry
    <2>2. CASE \E v \in ToSet(Variables[s]) : n = v.name
      <3>1. PICK v \in ToSet(Variables[s]) : n = v.name
        BY <2>2
      <3>2. PICK i \in DOMAIN entries : entries[i] = VariableEntry(v)
        BY <1>6
      <3>3. entries[i].name = NameOf(n)
        BY <3>1, <3>2 DEF VariableEntry, Entry
      <3> QED BY <1>7, <3>3
    <2> QED BY <1>9, <2>1, <2>2 DEF Named
  <1> QED BY <1>7, <1>8, <1>9 DEF Shows, all
-----------------------------------------------------------------------------
(* What an expression gives *)

\* A context to evaluate a text in.
Legible(s, ctx, f, k) ==
  /\ Context(ctx)
  /\ \A x \in ToSet(ctx) : Fits(s, x, k) /\ x.name.kind # "attribute"
  /\ \A i \in DOMAIN f : f[i].kind \in {"entity", "sensor"} => Has(ctx, f[i])

\* Every name of a text, and `state`, has an entry.
Complete(ctx, f) == \A i \in DOMAIN f : f[i].kind \in {"name", "state"} => Has(ctx, f[i])

\* An entry that fits has the number its name means, and no number where the
\* name means none.
LEMMA EntryMeans ==
  ASSUME NEW s \in Sensors, NEW k \in 0 .. Len(Computed[s]), NEW x, Fits(s, x, k)
  PROVE  /\ x.value.kind \in Alternates \cup {"number", "text"}
         /\ x.value.kind = "number" => Meaning(KnownBy(s, k), x.name) = {x.value.from}
         /\ x.value.kind \in {"text", "unknown", "unavailable"} => Meaning(Known(s), x.name) = {}
         /\ Ordered(s) /\ Meaning(Known(s), x.name) # {} => x.value.kind = "number"
  <1>1. ASSUME x.value.kind = "number" PROVE Meaning(KnownBy(s, k), x.name) = {x.value.from}
    <2>1. PICK y \in KnownBy(s, k) : y = <<x.name, x.value.from>>
      BY <1>1 DEF Fits
    <2>2. PICK K : K = KnownBy(s, k)
      OBVIOUS
    <2>3. Single(K) /\ y \in K
      BY <2>1, <2>2, KnownFacts
    <2>4. Meaning(K, y[1]) = {y[2]}
      BY <2>3, MeaningOfKnown
    <2>5. y[1] = x.name /\ y[2] = x.value.from
      BY <2>1
    <2> QED BY <2>2, <2>4, <2>5
  <1> QED BY <1>1 DEF Fits

\* An operand's value, by an entry or, of an attribute, by its reading.
LEMMA OperandFits ==
  ASSUME TypeOK, NEW s \in Sensors, NEW k \in 0 .. Len(Computed[s]), NEW f, TextOf(s, f),
         NEW ctx, Legible(s, ctx, f, k), NEW i \in DOMAIN f, NEW v, v = ValueIn(ctx, f[i])
  PROVE  /\ v.kind \in Alternates \cup {"number", "text"}
         /\ v.kind \in Alternates => Has(ctx, f[i])
         /\ v.kind = "number" => /\ Meaning(KnownBy(s, k), f[i]) = {v.from}
                                 /\ Has(ctx, f[i]) \/ f[i].kind = "attribute"
         /\ v.kind = "text" => \/ Meaning(Known(s), f[i]) = {}
                               \/ f[i].kind \in {"name", "state"} /\ ~Has(ctx, f[i])
         /\ Ordered(s) /\ Meaning(Known(s), f[i]) # {} /\ Complete(ctx, f) => v.kind = "number"
  <1>1. PICK op \in Operand : op = f[i]
    BY TextType
  <1>2. CASE Has(ctx, op)
    <2>1. PICK x \in ToSet(ctx) : x.name = op
      BY <1>2, HasEntry
    <2>2. v = x.value
      <3>1. Context(ctx)
        BY DEF Legible
      <3>2. ValueOf(ctx, x.name) = x.value
        BY <3>1, ValueOfEntry
      <3> QED BY <1>1, <1>2, <2>1, <3>2 DEF ValueIn
    <2>3. Fits(s, x, k) /\ op.kind # "attribute"
      BY <2>1 DEF Legible
    <2>4. /\ v.kind \in Alternates \cup {"number", "text"}
          /\ v.kind = "number" => Meaning(KnownBy(s, k), op) = {v.from}
          /\ v.kind \in {"text", "unknown", "unavailable"} => Meaning(Known(s), op) = {}
          /\ Ordered(s) /\ Meaning(Known(s), op) # {} => v.kind = "number"
      BY <2>1, <2>2, <2>3, EntryMeans
    <2> QED BY <1>1, <1>2, <2>4
  <1>3. CASE ~Has(ctx, op) /\ op.kind = "attribute"
    <2>1. v = IF reading[op.of] = "number" THEN Number({op}) ELSE Text
      BY <1>1, <1>3 DEF ValueIn, AttributeValue
    <2>2. CASE reading[op.of] = "number"
      <3>1. v.kind = "number" /\ v.from = {op}
        BY <2>1, <2>2 DEF Number
      <3>2. <<op, {op}>> \in KnownFirst(s)
        BY <1>3, <2>2 DEF Numbers, KnownFirst
      <3>3. PICK K : K = KnownBy(s, k)
        OBVIOUS
      <3>4. PICK y \in K : y = <<op, {op}>>
        BY <3>2, <3>3, KnownFacts
      <3>5. Single(K) /\ y[1] = op /\ y[2] = {op}
        BY <3>3, <3>4, KnownFacts
      <3>6. Meaning(K, op) = {{op}}
        BY <3>5, MeaningOfKnown
      <3> QED BY <1>1, <1>3, <3>1, <3>3, <3>6 DEF Alternates
    <2>3. CASE reading[op.of] # "number"
      <3>1. v.kind = "text"
        BY <2>1, <2>3 DEF Text
      <3>2. op \notin Numbers(s) /\ \A n : op # NameOf(n)
        BY <1>3, <2>3 DEF Numbers, State, NameOf
      <3>3. Meaning(Known(s), op) = {}
        BY <3>2, HasMeaning
      <3> QED BY <1>1, <3>1, <3>3 DEF Alternates
    <2> QED BY <2>2, <2>3
  <1>4. CASE ~Has(ctx, op) /\ op.kind # "attribute"
    <2>1. v.kind = "text"
      BY <1>1, <1>4 DEF ValueIn, Text
    <2>2. op.kind \in {"name", "state"}
      BY <1>1, <1>4 DEF Legible, Operand, State
    <2> QED BY <1>1, <1>4, <2>1, <2>2 DEF Complete, Alternates
  <1> QED BY <1>2, <1>3, <1>4

\* What the value of an expression says of its text.
LEMMA ExpressionFits ==
  ASSUME TypeOK, NEW s \in Sensors, NEW k \in 0 .. Len(Computed[s]), NEW f, TextOf(s, f),
         NEW ctx, Legible(s, ctx, f, k), NEW v, v = Expression(ctx, f)
  PROVE  /\ v.kind \in Alternates \cup {"number", "text"}
         /\ v.kind = "number" =>
              /\ Meant(KnownBy(s, k), f) /\ MeaningOf(KnownBy(s, k), f) = v.from
              /\ \A i \in DOMAIN f : Has(ctx, f[i]) \/ f[i].kind = "attribute"
         /\ v.kind \in {"text", "unknown", "unavailable"} => ~Meant(Known(s), f)
         /\ v.kind = "unknown" => \E e \in ReadBy(s) : reading[e] = "unknown"
         /\ v.kind = "none" => \/ \E x \in ToSet(ctx) : x.value.kind = "none"
                               \/ ~Meant(Known(s), f) \/ ~Complete(ctx, f)
         /\ Ordered(s) /\ Meant(Known(s), f) /\ Complete(ctx, f) => v.kind = "number"
  <1> DEFINE alternates == AlternatesIn(ctx, f)
             V(i) == ValueIn(ctx, f[i])
             values == {V(i) : i \in DOMAIN f}
  <1>1. ASSUME NEW i \in DOMAIN f
        PROVE  /\ V(i).kind \in Alternates \cup {"number", "text"}
               /\ V(i).kind \in Alternates => Has(ctx, f[i])
               /\ V(i).kind = "number" => /\ Meaning(KnownBy(s, k), f[i]) = {V(i).from}
                                          /\ Has(ctx, f[i]) \/ f[i].kind = "attribute"
               /\ V(i).kind = "text" => \/ Meaning(Known(s), f[i]) = {}
                                        \/ f[i].kind \in {"name", "state"} /\ ~Has(ctx, f[i])
               /\ Ordered(s) /\ Meaning(Known(s), f[i]) # {} /\ Complete(ctx, f) => V(i).kind = "number"
    BY OperandFits
  <1>2. CASE alternates # {}
    <2>1. PICK j \in alternates : v = ctx[j].value
      <3>1. alternates \subseteq 1 .. Len(ctx) /\ Len(ctx) \in Nat
        BY LenProperties DEF AlternatesIn, Legible, Context
      <3>2. v = ctx[CHOOSE i \in alternates : \A j \in alternates : i <= j].value
        BY <1>2 DEF Expression
      <3>3. PICK n \in alternates : \A m \in alternates : n <= m
        <4> DEFINE A == alternates
        <4>1. A \subseteq Nat /\ A # {}
          BY <1>2, <3>1
        <4> HIDE DEF A
        <4>2. \E n \in A : \A m \in A : n <= m
          BY <4>1, LeastNumber
        <4> QED BY <4>2 DEF A
      <3> QED BY <3>2, <3>3
    <2>2. PICK x \in ToSet(ctx) : x = ctx[j]
      BY DEF AlternatesIn, ToSet
    <2>3. x.value.kind \in Alternates /\ v = x.value
      BY <2>1, <2>2 DEF AlternatesIn
    <2>4. PICK i \in DOMAIN f : f[i] = x.name
      BY <2>1, <2>2 DEF AlternatesIn, Mentions
    <2>5. Fits(s, x, k)
      BY DEF Legible
    <2>6. /\ x.value.kind \in {"text", "unknown", "unavailable"} => Meaning(Known(s), x.name) = {}
          /\ Ordered(s) /\ Meaning(Known(s), x.name) # {} => x.value.kind = "number"
      BY <2>5, EntryMeans
    <2>7. v.kind = "unknown" => \E e \in ReadBy(s) : reading[e] = "unknown"
      BY <2>3, <2>5 DEF Fits
    <2> QED BY <2>3, <2>4, <2>6, <2>7 DEF Alternates, Meant
  <1>3. CASE alternates = {} /\ \A u \in values : u.kind = "number"
    <2>1. v = Number(UNION {u.from : u \in values})
      BY <1>3 DEF Expression
    <2>2. UNION {u.from : u \in values} = UNION {V(i).from : i \in DOMAIN f}
      <3>1. {u.from : u \in values} = {V(i).from : i \in DOMAIN f}
        <4> HIDE DEF V
        <4> QED OBVIOUS
      <3> QED BY <3>1
    <2>3. v.kind = "number" /\ v.from = UNION {V(i).from : i \in DOMAIN f}
      BY <2>1, <2>2 DEF Number
    <2>4. \A i \in DOMAIN f : V(i).kind = "number"
      BY <1>3
    <2>5. Meant(KnownBy(s, k), f) /\ MeaningOf(KnownBy(s, k), f) = UNION {V(i).from : i \in DOMAIN f}
      <3> HIDE DEF V
      <3>1. \A i \in DOMAIN f : Meaning(KnownBy(s, k), f[i]) = {V(i).from}
        BY <1>1, <2>4
      <3>2. UNION {Meaning(KnownBy(s, k), f[i]) : i \in DOMAIN f} = {V(i).from : i \in DOMAIN f}
        BY <3>1
      <3>3. MeaningOf(KnownBy(s, k), f) = UNION {V(i).from : i \in DOMAIN f}
        BY <3>2 DEF MeaningOf
      <3> QED BY <3>1, <3>3 DEF Meant
    <2> QED BY <1>1, <2>3, <2>4, <2>5 DEF Alternates
  <1>4. CASE alternates = {} /\ ~\A u \in values : u.kind = "number"
    <2>1. PICK i \in DOMAIN f : V(i).kind # "number"
      BY <1>4
    <2>2. CASE Len(f) = 1 /\ Has(ctx, f[1])
      <3>1. v = ValueOf(ctx, f[1])
        BY <1>4, <2>2 DEF Expression
      <3>2. DOMAIN f = {1}
        BY <2>2, TextType
      <3>3. i = 1 /\ v = V(i)
        BY <2>1, <2>2, <3>1, <3>2 DEF ValueIn
      <3>4. PICK x \in ToSet(ctx) : x.name = f[1]
        BY <2>2, HasEntry
      <3>5. v = x.value
        BY <3>1, <3>4, ValueOfEntry DEF Legible
      <3>6. Fits(s, x, k)
        BY DEF Legible
      <3>7. v.kind = "unknown" => \E e \in ReadBy(s) : reading[e] = "unknown"
        BY <3>5, <3>6 DEF Fits
      <3>8. v.kind \in {"text", "unknown", "unavailable"} => Meaning(Known(s), f[i]) = {}
        BY <3>3, <3>4, <3>5, <3>6, EntryMeans
      <3> HIDE DEF V
      <3> QED BY <1>1, <2>1, <3>3, <3>4, <3>5, <3>7, <3>8 DEF Meant
    <2>3. CASE ~(Len(f) = 1 /\ Has(ctx, f[1]))
      <3>1. v.kind = "none"
        BY <1>4, <2>3 DEF Expression, Alternate
      <3>2. V(i).kind \in Alternates => FALSE
        <4> SUFFICES ASSUME V(i).kind \in Alternates PROVE FALSE
          OBVIOUS
        <4>1. Has(ctx, f[i])
          BY <1>1
        <4>2. PICK x \in ToSet(ctx) : x.name = f[i]
          BY <4>1, HasEntry
        <4>3. V(i) = x.value
          BY <4>1, <4>2, ValueOfEntry DEF Legible, ValueIn
        <4>4. PICK j \in DOMAIN ctx : ctx[j] = x
          BY DEF ToSet
        <4>5. j \in alternates
          BY <4>2, <4>3, <4>4 DEF AlternatesIn, Mentions
        <4> QED BY <1>4, <4>5
      <3>3. V(i).kind = "text"
        BY <1>1, <2>1, <3>2
      <3> HIDE DEF V
      <3> QED BY <1>1, <2>1, <3>1, <3>3 DEF Meant, Complete, Alternates
    <2> QED BY <2>2, <2>3
  <1> QED BY <1>2, <1>3, <1>4
-----------------------------------------------------------------------------
(* Contexts of texts *)

\* The entities and the sensors of a text make its context legible.
LEMMA WithTextLegible ==
  ASSUME TypeOK, NEW s \in Sensors, NEW k \in 0 .. Len(Computed[s]), NEW f, TextOf(s, f),
         ~Absence(f), NEW ctx, Shows(s, ctx, k), NEW all, all = WithText(ctx, f)
  PROVE  /\ Legible(s, all, f, k) /\ ToSet(ctx) \subseteq ToSet(all)
         /\ \A op : Has(ctx, op) => Has(all, op)
         /\ \A x \in ToSet(all) : x.name.kind \in {"name", "entity", "sensor"}
  <1> DEFINE N == Len(f)
             S == {j \in DOMAIN f : f[j].kind \in {"entity", "sensor"}}
             entries == [i \in S |-> TextEntry(f[i])]
  <1>1. N \in Nat /\ DOMAIN entries \subseteq 1 .. N
    BY TextType
  <1>2. all = IncludeAll(ctx, N, entries)
    BY DEF WithText
  <1>3. \A i \in DOMAIN entries :
          i \in DOMAIN f /\ f[i].kind \in {"entity", "sensor"} /\ entries[i] = TextEntry(f[i])
    OBVIOUS
  <1>4. \A i \in DOMAIN f : f[i].kind \in {"entity", "sensor"} => i \in DOMAIN entries
    OBVIOUS
  <1>5. \A i \in DOMAIN f : TextEntry(f[i]).name = f[i]
    BY DEF TextEntry, Entry
  <1> HIDE DEF N, entries, S
  <1>6. Context(ctx)
    BY DEF Shows
  <1>7. /\ Context(IncludeAll(ctx, N, entries))
        /\ ToSet(ctx) \subseteq ToSet(IncludeAll(ctx, N, entries))
        /\ \A x \in ToSet(IncludeAll(ctx, N, entries)) \ ToSet(ctx) :
             ~Has(ctx, x.name) /\ \E i \in DOMAIN entries : x = entries[i]
        /\ \A i \in DOMAIN entries : Has(IncludeAll(ctx, N, entries), entries[i].name)
    BY <1>1, <1>6, IncludeAllEffect
  <1>8. ASSUME NEW x \in ToSet(all)
        PROVE  Fits(s, x, k) /\ x.name.kind \in {"name", "entity", "sensor"}
    <2>1. CASE x \in ToSet(ctx)
      <3>1. Fits(s, x, k) /\ OfNames(s, x, k)
        BY <2>1 DEF Shows
      <3>2. PICK n : x.name = NameOf(n)
        BY <3>1 DEF OfNames
      <3> QED BY <3>1, <3>2 DEF NameOf
    <2>2. CASE x \notin ToSet(ctx)
      <3>1. PICK i \in DOMAIN f : x = TextEntry(f[i]) /\ f[i].kind \in {"entity", "sensor"}
        BY <1>2, <1>3, <1>7, <2>2
      <3>2. Fits(s, x, k)
        BY <3>1, TextFits
      <3> QED BY <1>5, <3>1, <3>2
    <2> QED BY <2>1, <2>2
  <1>9. \A op : Has(ctx, op) => Has(all, op)
    BY <1>2, <1>7, HasEntry
  <1>10. \A i \in DOMAIN f : f[i].kind \in {"entity", "sensor"} => Has(all, f[i])
    BY <1>2, <1>3, <1>4, <1>5, <1>7
  <1> QED BY <1>2, <1>7, <1>8, <1>9, <1>10 DEF Legible

\* The context of the main formula is legible.
LEMMA FullContextLegible ==
  ASSUME TypeOK, NEW s \in Sensors, NEW k \in 0 .. Len(Computed[s]), Readable(s),
         NEW ctx, Shows(s, ctx, k), NEW all, all = WithState(s, WithText(ctx, Formula[s]))
  PROVE  /\ Legible(s, all, Formula[s], k)
         /\ \A op : Has(ctx, op) => Has(all, op)
         /\ Mentions(Formula[s], State) => Has(all, State)
  <1>1. PICK f : f = Formula[s]
    OBVIOUS
  <1>2. PICK c : c = WithText(ctx, f)
    OBVIOUS
  <1>3. TextOf(s, f) /\ ~Absence(f)
    BY <1>1, AbsenceIsFault DEF TextOf, Readable
  <1>4. /\ Legible(s, c, f, k)
        /\ \A op : Has(ctx, op) => Has(c, op)
    BY <1>2, <1>3, WithTextLegible
  <1>5. CASE ~Mentions(f, State)
    <2>1. all = c
      BY <1>1, <1>2, <1>5 DEF WithState
    <2> QED BY <1>1, <1>4, <1>5, <2>1
  <1>6. CASE Mentions(f, State)
    <2> DEFINE v == IF OwnState[s] = OwnId \/ reading[OwnState[s]] = "number"
                    THEN Number({State}) ELSE Alternate(reading[OwnState[s]])
               x == Entry(State, <<State>>, v)
    <2>1. all = Include(c, x)
      BY <1>1, <1>2, <1>6 DEF WithState
    <2>2. ~StateLost(s)
      BY <1>1, <1>6 DEF Readable
    <2>3. Fits(s, x, k)
      <3>1. PICK u : u = v
        OBVIOUS
      <3>2. PICK y : y = Entry(State, <<State>>, u)
        OBVIOUS
      <3>3. Fits(s, y, k)
        BY <1>1, <1>6, <2>2, <3>1, <3>2, StateFits
      <3> QED BY <3>1, <3>2, <3>3
    <2>4. x.name = State /\ x.name.kind # "attribute"
      BY DEF Entry, State
    <2> HIDE DEF x, v
    <2>5. Context(c)
      BY <1>4 DEF Legible
    <2>6. /\ Context(all) /\ Has(all, State) /\ ToSet(c) \subseteq ToSet(all)
          /\ \A y \in ToSet(all) \ ToSet(c) : y = x
      BY <2>1, <2>4, <2>5, IncludeEffect
    <2>7. \A op : Has(c, op) => Has(all, op)
      BY <2>6, HasEntry
    <2>8. Legible(s, all, f, k)
      BY <1>4, <2>3, <2>4, <2>6, <2>7 DEF Legible
    <2> QED BY <1>1, <1>4, <2>6, <2>7, <2>8
  <1> QED BY <1>5, <1>6

\* A context has the names that mean a number, of computed variables those that
\* are gone through.
LEMMA ShowsNames ==
  ASSUME NEW s \in Sensors, NEW k \in 0 .. Len(Computed[s]), NEW ctx, Shows(s, ctx, k),
         NEW op, op.kind = "name", Meaning(Known(s), op) # {},
         \A j \in DOMAIN Computed[s] : op = NameOf(Computed[s][j].name) => j <= k
  PROVE  Has(ctx, op)
  <1>1. op \notin Numbers(s)
    BY NumbersAreNoNames
  <1>2. \A j \in DOMAIN Computed[s] : j \in Nat /\ j > 0
    BY ComputedOnce
  <1>3. \E n : Named(s, n, k) /\ op = NameOf(n)
    <2>1. CASE \E c \in ToSet(Computed[s]) : op = NameOf(c.name)
      <3>1. PICK j \in DOMAIN Computed[s] : op = NameOf(Computed[s][j].name)
        BY <2>1 DEF ToSet
      <3>2. k \in Nat
        BY ComputedOnce
      <3>3. j \in 1 .. k
        BY <1>2, <3>1, <3>2
      <3> QED BY <3>1, <3>3 DEF Named
    <2>2. CASE ~\E c \in ToSet(Computed[s]) : op = NameOf(c.name)
      BY <1>1, <2>2, HasMeaning DEF Named
    <2> QED BY <2>1, <2>2
  <1> QED BY <1>3 DEF Shows

\* The value of a computed variable's expression, an alternate state taken for none.
ValueFrom(v) == IF v.kind \in Alternates THEN Alternate("none") ELSE v

\* The entry of the next computed variable shows what its text means, if the value
\* does: its own, or that of an earlier entry of the same text.
LEMMA ComputedFits ==
  ASSUME NEW s \in Sensors, NEW k \in 0 .. Len(Computed[s]), k + 1 \in 0 .. Len(Computed[s]),
         NEW c \in ToSet(Computed[s]), c.name \notin globals,
         NEW x, x.name = NameOf(c.name), x.ref = c.formula,
         x.value.kind \in Alternates \cup {"number", "text"},
         x.value.kind = "number" =>
           /\ Meant(KnownBy(s, k), c.formula) /\ MeaningOf(KnownBy(s, k), c.formula) = x.value.from
           /\ ~Mentions(c.formula, State),
         x.value.kind \in {"text", "unknown", "unavailable"} => ~Meant(Known(s), c.formula),
         x.value.kind = "unknown" => \E e \in ReadBy(s) : reading[e] = "unknown",
         x.value.kind = "none" => NoneBehind(s),
         Ordered(s) /\ Meant(Known(s), c.formula) /\ ~Mentions(c.formula, State)
           => x.value.kind = "number"
  PROVE  Fits(s, x, k + 1)
  <1>1. /\ Single(KnownBy(s, k + 1))
        /\ KnownBy(s, k + 1) = KnownNext(s, globals, KnownBy(s, k))
    BY KnownFacts
  <1>2. x.name # State
    BY DEF NameOf, State
  <1>3. ASSUME x.value.kind = "number"
        PROVE  /\ Meant(KnownBy(s, k + 1), x.ref) /\ MeaningOf(KnownBy(s, k + 1), x.ref) = x.value.from
               /\ <<x.name, x.value.from>> \in KnownBy(s, k + 1)
    <2>1. PICK K : K = KnownBy(s, k)
      OBVIOUS
    <2>2. PICK next : next = KnownBy(s, k + 1)
      OBVIOUS
    <2>3. PICK none : none = {}
      OBVIOUS
    <2>4. PICK f : f = c.formula
      OBVIOUS
    <2>5. K \subseteq next
      BY <1>1, <2>1, <2>2 DEF KnownNext
    <2>6. Within(K, next, none) /\ Apart(none, f)
      BY <1>1, <2>2, <2>3, <2>5 DEF Within, Apart
    <2>7. Meant(next, f) /\ MeaningOf(next, f) = MeaningOf(K, f)
      BY <1>3, <2>1, <2>4, <2>6, MeantWithin
    <2>8. <<NameOf(c.name), MeaningOf(K, f)>> \in next
      BY <1>1, <1>3, <2>1, <2>2, <2>4 DEF KnownNext
    <2> QED BY <1>3, <2>1, <2>2, <2>4, <2>7, <2>8
  <1>4. ASSUME Meaning(Known(s), x.name) # {} PROVE Meant(Known(s), x.ref) /\ Stateless(x)
    <2>1. x.name \notin Numbers(s)
      BY NumbersAreNoNames
    <2>2. \A n : x.name = NameOf(n) => n = c.name
      BY DEF NameOf
    <2>3. PICK d \in ToSet(Computed[s]) :
            /\ x.name = NameOf(d.name) /\ Meant(Known(s), d.formula) /\ ~Mentions(d.formula, State)
      BY <1>4, <2>1, <2>2, HasMeaning, VariablesOnce
    <2>4. d = c
      BY <2>2, <2>3, ComputedOnce
    <2> QED BY <2>3, <2>4 DEF Stateless
  <1>5. Stateless(x) => ~Mentions(c.formula, State)
    BY <1>2 DEF Stateless
  <1> QED BY <1>3, <1>4, <1>5 DEF Fits

\* What the expression of the next computed variable gives.
LEMMA ComputedExpression ==
  ASSUME TypeOK, NEW s \in Sensors, NEW k \in 0 .. Len(Computed[s]),
         k + 1 \in DOMAIN Computed[s], NEW c, c = Computed[s][k + 1], c.name \notin globals,
         NEW ctx, Shows(s, ctx, k), ~Absence(c.formula),
         NEW v, v = ValueFrom(Expression(WithText(ctx, c.formula), c.formula))
  PROVE  /\ v.kind \in Alternates \cup {"number", "text"}
         /\ v.kind = "number" =>
              /\ Meant(KnownBy(s, k), c.formula) /\ MeaningOf(KnownBy(s, k), c.formula) = v.from
              /\ ~Mentions(c.formula, State)
         /\ v.kind \in {"text", "unknown", "unavailable"} => ~Meant(Known(s), c.formula)
         /\ v.kind # "unknown"
         /\ v.kind = "none" => NoneBehind(s)
         /\ Ordered(s) /\ Meant(Known(s), c.formula) /\ ~Mentions(c.formula, State)
              => v.kind = "number"
  <1>1. PICK f : f = c.formula
    OBVIOUS
  <1>2. PICK all : all = WithText(ctx, f)
    OBVIOUS
  <1>3. PICK u : u = Expression(all, f)
    OBVIOUS
  <1>4. c \in ToSet(Computed[s]) /\ TextOf(s, f)
    BY <1>1 DEF ToSet, TextOf
  <1>5. /\ Legible(s, all, f, k)
        /\ \A op : Has(ctx, op) => Has(all, op)
        /\ \A x \in ToSet(all) : x.name.kind \in {"name", "entity", "sensor"}
    BY <1>1, <1>2, <1>4, WithTextLegible
  <1>6. /\ u.kind \in Alternates \cup {"number", "text"}
        /\ u.kind = "number" =>
              /\ Meant(KnownBy(s, k), f) /\ MeaningOf(KnownBy(s, k), f) = u.from
              /\ \A i \in DOMAIN f : Has(all, f[i]) \/ f[i].kind = "attribute"
        /\ u.kind \in {"text", "unknown", "unavailable"} => ~Meant(Known(s), f)
        /\ u.kind = "none" => \/ \E x \in ToSet(all) : x.value.kind = "none"
                              \/ ~Meant(Known(s), f) \/ ~Complete(all, f)
        /\ Ordered(s) /\ Meant(Known(s), f) /\ Complete(all, f) => u.kind = "number"
    BY <1>3, <1>4, <1>5, ExpressionFits
  <1>7. v = IF u.kind \in Alternates THEN Alternate("none") ELSE u
    BY <1>1, <1>2, <1>3 DEF ValueFrom
  <1>8. ASSUME u.kind = "number" PROVE ~Mentions(f, State)
    <2> SUFFICES ASSUME NEW i \in DOMAIN f, f[i] = State PROVE FALSE
      BY DEF Mentions
    <2>1. Has(all, State)
      BY <1>6, <1>8 DEF State
    <2>2. PICK x \in ToSet(all) : x.name = State
      BY <2>1, HasEntry
    <2> QED BY <1>5, <2>2 DEF State
  <1>9. ASSUME Meant(Known(s), f), Ordered(s), ~Mentions(f, State) PROVE Complete(all, f)
    <2> SUFFICES ASSUME NEW i \in DOMAIN f, f[i].kind \in {"name", "state"} PROVE Has(all, f[i])
      BY DEF Complete
    <2>1. PICK op \in Operand : op = f[i]
      BY <1>4, TextType
    <2>2. op.kind = "name"
      BY <1>9, <2>1 DEF Operand, Mentions, State
    <2>3. Meaning(Known(s), op) # {}
      BY <1>9, <2>1 DEF Meant
    <2>4. ASSUME NEW j \in DOMAIN Computed[s], op = NameOf(Computed[s][j].name) PROVE j <= k
      <3>1. Mentions(Computed[s][k + 1].formula, NameOf(Computed[s][j].name))
        BY <1>1, <2>1, <2>4 DEF Mentions
      <3>2. j < k + 1
        BY <1>9, <3>1 DEF Ordered
      <3>3. j \in Nat /\ k \in Nat
        BY ComputedOnce
      <3> QED BY <3>2, <3>3
    <2>5. Has(ctx, op)
      BY <2>2, <2>3, <2>4, ShowsNames
    <2> QED BY <1>5, <2>1, <2>5
  <1>10. ASSUME v.kind = "none" PROVE NoneBehind(s)
    <2>1. CASE ~Meant(Known(s), f) \/ Mentions(f, State) \/ ~Ordered(s)
      BY <1>1, <1>4, <2>1 DEF NoneBehind
    <2>2. CASE Meant(Known(s), f) /\ ~Mentions(f, State) /\ Ordered(s)
      <3>1. u.kind = "number"
        BY <1>6, <1>9, <2>2
      <3> QED BY <1>7, <1>10, <3>1 DEF Alternates
    <2> QED BY <2>1, <2>2
  <1>11. v.kind # "unknown" /\ v.kind # "unavailable"
    BY <1>7 DEF Alternate, Alternates
  <1>12. v.kind \in {"number", "text"} => u = v
    BY <1>7 DEF Alternate, Alternates
  <1>13. v.kind \in {"none", "number", "text"}
    BY <1>6, <1>7 DEF Alternate, Alternates
  <1>14. u.kind = "number" => v = u
    BY <1>7 DEF Alternates
  <1> QED BY <1>1, <1>6, <1>8, <1>9, <1>10, <1>11, <1>12, <1>13, <1>14 DEF Alternates

\* A context with the next computed variable gone through.
LEMMA ShowsNext ==
  ASSUME TypeOK, NEW s \in Sensors, NEW k \in 0 .. Len(Computed[s]),
         k + 1 \in DOMAIN Computed[s], NEW c, c = Computed[s][k + 1],
         NEW ctx, Shows(s, ctx, k), ~Has(ctx, NameOf(c.name)), ~Absence(c.formula),
         NEW v, v = ValueFrom(Expression(WithText(ctx, c.formula), c.formula)),
         NEW x, x = Entry(NameOf(c.name), c.formula, Shared(ctx, c.formula, v))
  PROVE  Shows(s, Append(ctx, x), k + 1)
  <1>1. /\ k \in Nat /\ k + 1 \in 0 .. Len(Computed[s]) /\ c \in ToSet(Computed[s])
    BY ComputedOnce DEF ToSet
  <1>2. c.name \notin globals
    BY DEF Shows, Named
  <1>3. x.name = NameOf(c.name) /\ x.ref = c.formula /\ x.value = Shared(ctx, c.formula, v)
    BY DEF Entry
  <1>4. PICK f : f = c.formula
    OBVIOUS
  <1>5. PICK w : w = x.value
    OBVIOUS
  <1>6. /\ w.kind \in Alternates \cup {"number", "text"}
        /\ w.kind = "number" =>
              /\ Meant(KnownBy(s, k), f) /\ MeaningOf(KnownBy(s, k), f) = w.from
              /\ ~Mentions(f, State)
        /\ w.kind \in {"text", "unknown", "unavailable"} => ~Meant(Known(s), f)
        /\ w.kind = "unknown" => \E e \in ReadBy(s) : reading[e] = "unknown"
        /\ w.kind = "none" => NoneBehind(s)
        /\ Ordered(s) /\ Meant(Known(s), f) /\ ~Mentions(f, State) => w.kind = "number"
    <2> DEFINE same == {i \in DOMAIN ctx : ctx[i].ref = f}
    <2>1. CASE same = {}
      <3>1. w = v
        BY <1>3, <1>4, <1>5, <2>1 DEF Shared
      <3> QED BY <1>2, <1>4, <3>1, ComputedExpression
    <2>2. CASE same # {}
      <3>1. PICK i \in DOMAIN ctx : ctx[i].ref = f /\ w = ctx[i].value
        BY <1>3, <1>4, <1>5, <2>2 DEF Shared
      <3>2. PICK y \in ToSet(ctx) : y = ctx[i]
        BY DEF ToSet
      <3>3. Fits(s, y, k) /\ (y.value.kind = "number" => ~Mentions(y.ref, State))
        BY DEF Shows, OfNames
      <3>4. ~Mentions(f, State) => Stateless(y)
        BY <3>1, <3>2 DEF Stateless
      <3> QED BY <3>1, <3>2, <3>3, <3>4 DEF Fits
    <2> QED BY <2>1, <2>2
  <1>7. Fits(s, x, k + 1)
    BY <1>1, <1>2, <1>3, <1>4, <1>5, <1>6, ComputedFits
  <1>8. Context(ctx)
    BY DEF Shows
  <1>9. Context(Append(ctx, x)) /\ ToSet(Append(ctx, x)) = ToSet(ctx) \cup {x}
    BY <1>3, <1>8, AppendEffect
  <1>10. Named(s, c.name, k + 1) /\ \A n : Named(s, n, k) => Named(s, n, k + 1)
    BY <1>1 DEF Named
  <1>11. ASSUME NEW y \in ToSet(Append(ctx, x))
         PROVE  Fits(s, y, k + 1) /\ OfNames(s, y, k + 1)
    <2>1. CASE y = x
      BY <1>3, <1>4, <1>5, <1>6, <1>7, <1>10, <2>1 DEF OfNames
    <2>2. CASE y \in ToSet(ctx)
      <3>1. Fits(s, y, k) /\ OfNames(s, y, k)
        BY <2>2 DEF Shows
      <3>2. Fits(s, y, k + 1)
        BY <1>1, <3>1, FitsLater
      <3> QED BY <1>10, <3>1, <3>2 DEF OfNames
    <2> QED BY <1>9, <2>1, <2>2
  <1>12. ASSUME NEW n, Named(s, n, k + 1) PROVE Has(Append(ctx, x), NameOf(n))
    <2>1. CASE Named(s, n, k)
      <3>1. Has(ctx, NameOf(n))
        BY <2>1 DEF Shows
      <3> QED BY <1>9, <3>1, HasEntry
    <2>2. CASE n = c.name
      BY <1>3, <1>9, <2>2, HasEntry
    <2>3. Named(s, n, k) \/ n = c.name
      BY <1>1, <1>12 DEF Named
    <2> QED BY <2>1, <2>2, <2>3
  <1>13. \A j \in 1 .. k + 1 : Computed[s][j].name \in globals \/ ~Absence(Computed[s][j].formula)
    <2>1. \A j \in 1 .. k + 1 : j \in 1 .. k \/ j = k + 1
      BY <1>1
    <2> QED BY <2>1 DEF Shows
  <1> QED BY <1>9, <1>11, <1>12, <1>13 DEF Shows

\* A computed variable that a global variable of its name stands for is gone
\* through too.
LEMMA ShowsGlobal ==
  ASSUME NEW s \in Sensors, NEW k \in 0 .. Len(Computed[s]),
         k + 1 \in DOMAIN Computed[s], NEW c, c = Computed[s][k + 1],
         NEW ctx, Shows(s, ctx, k), Has(ctx, NameOf(c.name))
  PROVE  Shows(s, ctx, k + 1)
  <1>1. k \in Nat /\ k + 1 \in 0 .. Len(Computed[s]) /\ c \in ToSet(Computed[s])
    BY ComputedOnce DEF ToSet
  <1>2. c.name \in globals
    <2>1. PICK x \in ToSet(ctx) : x.name = NameOf(c.name)
      BY HasEntry
    <2>2. PICK n : Named(s, n, k) /\ x.name = NameOf(n)
      BY DEF Shows, OfNames
    <2>3. n = c.name
      BY <2>1, <2>2 DEF NameOf
    <2>4. \A v \in ToSet(Variables[s]) : v.name # c.name
      BY <1>1, VariablesOnce
    <2>5. \A j \in 1 .. k : Computed[s][j].name # c.name
      <3>1. \A j \in 1 .. k : j \in DOMAIN Computed[s] /\ j # k + 1
        BY <1>1, ComputedOnce
      <3>2. NamedOnce(s)
        BY ResolutionConstants
      <3> QED BY <3>1, <3>2 DEF NamedOnce
    <2> QED BY <2>2, <2>3, <2>4, <2>5 DEF Named
  <1>3. \A n : Named(s, n, k + 1) <=> Named(s, n, k)
    <2>1. \A j \in 1 .. k + 1 : j \in 1 .. k \/ j = k + 1
      BY <1>1
    <2>2. \A j \in 1 .. k : j \in 1 .. k + 1
      BY <1>1
    <2> QED BY <1>2, <2>1, <2>2 DEF Named
  <1>4. ASSUME NEW x \in ToSet(ctx) PROVE Fits(s, x, k + 1) /\ OfNames(s, x, k + 1)
    <2>1. Fits(s, x, k) /\ OfNames(s, x, k)
      BY DEF Shows
    <2>2. Fits(s, x, k + 1)
      BY <1>1, <2>1, FitsLater
    <2> QED BY <1>3, <2>1, <2>2 DEF OfNames
  <1>5. \A j \in 1 .. k + 1 : Computed[s][j].name \in globals \/ ~Absence(Computed[s][j].formula)
    <2>1. \A j \in 1 .. k + 1 : j \in 1 .. k \/ j = k + 1
      BY <1>1
    <2> QED BY <1>2, <2>1 DEF Shows
  <1> QED BY <1>3, <1>4, <1>5 DEF Shows
-----------------------------------------------------------------------------
(* The evaluation at work *)

\* What is left are the computed variables after the first k.
Rest(s, left, k) ==
  /\ Len(left) = Len(Computed[s]) - k
  /\ \A i \in 1 .. Len(left) : left[i] = Computed[s][k + i]

\* Nothing is put off, and the context has all that was gone through.
InOrder(s, ctx, left, waiting) ==
  /\ waiting = <<>>
  /\ \E k \in 0 .. Len(Computed[s]) : Rest(s, left, k) /\ Shows(s, ctx, k)

\* A computed variable that cannot be evaluated is left over to the end.
PutOff(s, ctx, left, waiting) ==
  Context(ctx) /\ \E c \in ComputedOf(s) :
    /\ Blocked(c) /\ ~Has(ctx, NameOf(c.name))
    /\ c \in ToSet(left) \cup ToSet(waiting)

JobInOrder ==
  job # NoAnswer =>
    \E s, ctx, left, waiting :
      /\ job.sensor = s /\ job.ctx = ctx /\ job.left = left /\ job.waiting = waiting
      /\ InOrder(s, ctx, left, waiting) \/ PutOff(s, ctx, left, waiting)

Evaluating == IInv /\ globals \in GlobalSettings /\ JobInOrder

\* What is known depends on what an evaluation does not change.
LEMMA KnownStays ==
  ASSUME NEW s, UNCHANGED <<reading, globals, registered>>
  PROVE  /\ Known(s)' = Known(s)
         /\ \A k : KnownBy(s, k)' = KnownBy(s, k)
         /\ NoneBehind(s)' = NoneBehind(s)
  <1>1. Numbers(s)' = Numbers(s)
    BY DEF Numbers
  <1>2. KnownFirst(s)' = KnownFirst(s)
    BY <1>1 DEF KnownFirst
  <1>3. Known(s)' = Known(s)
    BY <1>2 DEF Known
  <1>4. \A k : KnownBy(s, k)' = KnownBy(s, k)
    BY <1>2 DEF KnownBy
  <1>5. NoneBehind(s)' = NoneBehind(s)
    BY <1>3 DEF NoneBehind
  <1> QED BY <1>3, <1>4, <1>5

\* What a context shows it shows as long as nothing read changes.
LEMMA ShowsStays ==
  ASSUME NEW s, NEW ctx, NEW k, UNCHANGED <<reading, globals, registered>>, Shows(s, ctx, k)
  PROVE  Shows(s, ctx, k)'
  <1>1. ASSUME NEW x, Fits(s, x, k) PROVE Fits(s, x, k)'
    BY <1>1, KnownStays DEF Fits
  <1>2. ASSUME NEW n PROVE Named(s, n, k)' = Named(s, n, k)
    BY DEF Named
  <1>3. ASSUME NEW x, OfNames(s, x, k) PROVE OfNames(s, x, k)'
    BY <1>2, <1>3 DEF OfNames
  <1>4. ASSUME NEW j PROVE Absence(Computed[s][j].formula)' = Absence(Computed[s][j].formula)
    BY DEF Absence
  <1> QED BY <1>1, <1>2, <1>3, <1>4 DEF Shows

\* An evaluation in order stays so while what is left follows what its context
\* shows.
LEMMA InOrderGoesOn ==
  ASSUME NEW s, NEW ctx, NEW left, NEW waiting, NEW k \in 0 .. Len(Computed[s]),
         UNCHANGED <<reading, globals, registered>>, Shows(s, ctx, k), Rest(s, left, k),
         waiting = <<>>,
         job'.sensor = s, job'.ctx = ctx, job'.left = left, job'.waiting = waiting
  PROVE  JobInOrder'
  <1>1. Shows(s, ctx, k)'
    BY ShowsStays
  <1>2. Rest(s, left, k)'
    BY DEF Rest
  <1>3. InOrder(s, ctx, left, waiting)'
    BY <1>1, <1>2 DEF InOrder
  <1> QED BY <1>3 DEF JobInOrder

\* An evaluation begins in order, with no computed variable gone through.
LEMMA BeginEvaluates ==
  ASSUME Evaluating, NEW s \in Sensors, Begin(s)
  PROVE  JobInOrder' /\ globals' \in GlobalSettings
  <1>1. globals' = globals /\ reading' = reading /\ globals \in GlobalSettings
    BY DEF Evaluating, Begin
  <1>2. CASE Open(s)
    BY <1>1, <1>2 DEF Begin, JobInOrder
  <1>3. CASE ~Open(s)
    <2>1. PICK ctx : ctx = StartContext(s)
      OBVIOUS
    <2>2. PICK left : left = Computed[s]
      OBVIOUS
    <2>3. PICK waiting : waiting = <<>>
      OBVIOUS
    <2>4. /\ job'.sensor = s /\ job'.ctx = ctx /\ job'.left = left /\ job'.waiting = waiting
          /\ registered' = registered
      BY <1>3, <2>1, <2>2, <2>3 DEF Begin
    <2>5. IsFiniteSet(globals) /\ TypeOK
      BY <1>1, ResolutionConstants DEF Evaluating, IInv
    <2>6. Shows(s, ctx, 0)
      BY <2>1, <2>5, StartContextShows
    <2>7. 0 \in 0 .. Len(Computed[s]) /\ Rest(s, left, 0)
      BY <2>2, ComputedOnce DEF Rest
    <2> QED BY <1>1, <2>3, <2>4, <2>6, <2>7, InOrderGoesOn
  <1> QED BY <1>2, <1>3

LEMMA ResolveFields ==
  ASSUME JobSound, job # NoAnswer, NEW ctx, Resolve(ctx)
  PROVE  /\ job'.sensor = job.sensor /\ job'.ctx = ctx
         /\ job'.left = Tail(job.left) /\ job'.waiting = job.waiting
  <1> DEFINE j == job
  <1>1. job' = [j EXCEPT !.ctx = ctx, !.left = Tail(j.left), !.progress = TRUE]
    BY DEF Resolve
  <1>2. j = [sensor |-> j.sensor, ctx |-> j.ctx, left |-> j.left,
             waiting |-> j.waiting, progress |-> j.progress]
    BY DEF JobSound
  <1> HIDE DEF j
  <1>3. /\ job'.sensor = j.sensor /\ job'.ctx = ctx
        /\ job'.left = Tail(j.left) /\ job'.waiting = j.waiting
    BY <1>1, <1>2
  <1> QED BY <1>3 DEF j

LEMMA PutOffFields ==
  ASSUME JobSound, job # NoAnswer, NEW c,
         job' = [job EXCEPT !.left = Tail(@), !.waiting = Append(@, c)]
  PROVE  /\ job'.sensor = job.sensor /\ job'.ctx = job.ctx
         /\ job'.left = Tail(job.left) /\ job'.waiting = Append(job.waiting, c)
  <1> DEFINE j == job
  <1>1. job' = [j EXCEPT !.left = Tail(j.left), !.waiting = Append(j.waiting, c)]
    OBVIOUS
  <1>2. j = [sensor |-> j.sensor, ctx |-> j.ctx, left |-> j.left,
             waiting |-> j.waiting, progress |-> j.progress]
    BY DEF JobSound
  <1> HIDE DEF j
  <1>3. /\ job'.sensor = j.sensor /\ job'.ctx = j.ctx
        /\ job'.left = Tail(j.left) /\ job'.waiting = Append(j.waiting, c)
    BY <1>1, <1>2
  <1> QED BY <1>3 DEF j

LEMMA TailElements ==
  ASSUME NEW S, NEW q \in Seq(S), q # <<>>
  PROVE  /\ Head(q) \in S /\ Tail(q) \in Seq(S) /\ Len(Tail(q)) = Len(q) - 1 /\ Len(q) \in Nat
         /\ \A i \in 1 .. Len(Tail(q)) : Tail(q)[i] = q[i + 1]
         /\ ToSet(q) = {Head(q)} \cup ToSet(Tail(q))
         /\ q[1] = Head(q) /\ 1 \in DOMAIN q
  <1>1. /\ Head(q) \in S /\ Tail(q) \in Seq(S) /\ Len(Tail(q)) = Len(q) - 1
        /\ \A i \in 1 .. Len(Tail(q)) : Tail(q)[i] = q[i + 1]
    BY HeadTailProperties
  <1>2. /\ Len(q) \in Nat /\ Len(q) # 0 /\ DOMAIN q = 1 .. Len(q)
        /\ DOMAIN Tail(q) = 1 .. Len(Tail(q)) /\ q[1] = Head(q)
    BY <1>1, EmptySeq, LenProperties
  <1>3. PICK r : r = Tail(q)
    OBVIOUS
  <1>4. PICK N \in Nat : N = Len(q) /\ N # 0
    BY <1>2
  <1>5. /\ DOMAIN q = 1 .. N /\ DOMAIN r = 1 .. (N - 1)
        /\ \A i \in 1 .. (N - 1) : r[i] = q[i + 1]
    BY <1>1, <1>2, <1>3, <1>4
  <1>6. \A i \in DOMAIN q : i = 1 \/ (i - 1 \in DOMAIN r /\ q[i] = r[i - 1])
    BY <1>4, <1>5
  <1>7. \A i \in DOMAIN r : i + 1 \in DOMAIN q /\ r[i] = q[i + 1]
    BY <1>4, <1>5
  <1>8. ToSet(q) = {Head(q)} \cup ToSet(r)
    <2>1. 1 \in DOMAIN q
      BY <1>4, <1>5
    <2>2. ToSet(q) \subseteq {q[1]} \cup ToSet(r)
      BY <1>6 DEF ToSet
    <2>3. {q[1]} \cup ToSet(r) \subseteq ToSet(q)
      BY <1>7, <2>1 DEF ToSet
    <2> QED BY <1>2, <2>2, <2>3
  <1> QED BY <1>1, <1>2, <1>3, <1>8

LEMMA AppendElements ==
  ASSUME NEW S, NEW q \in Seq(S), NEW x \in S
  PROVE  ToSet(Append(q, x)) = ToSet(q) \cup {x}
  <1> DEFINE new == Append(q, x)
  <1>1. /\ new \in Seq(S) /\ Len(new) = Len(q) + 1
        /\ \A i \in 1 .. Len(q) : new[i] = q[i]
        /\ new[Len(new)] = x
    BY AppendProperties
  <1>2. DOMAIN new = 1 .. Len(new) /\ DOMAIN q = 1 .. Len(q) /\ Len(q) \in Nat
    BY <1>1, LenProperties
  <1> HIDE DEF new
  <1>3. \A i \in DOMAIN new : new[i] = x \/ (i \in DOMAIN q /\ new[i] = q[i])
    BY <1>1, <1>2
  <1>4. Len(new) \in DOMAIN new /\ \A i \in DOMAIN q : i \in DOMAIN new /\ new[i] = q[i]
    BY <1>1, <1>2
  <1>5. ToSet(new) \subseteq ToSet(q) \cup {x}
    BY <1>3 DEF ToSet
  <1>6. x \in ToSet(new)
    BY <1>1, <1>4 DEF ToSet
  <1>7. ToSet(q) \subseteq ToSet(new)
    BY <1>4 DEF ToSet
  <1> QED BY <1>5, <1>6, <1>7 DEF new

\* An evaluation that has put off a blocked computed variable still has it to
\* do.
LEMMA PutOffGoesOn ==
  ASSUME NEW s, NEW ctx, Context(ctx), NEW left, NEW waiting, NEW c \in ComputedOf(s), Blocked(c)',
         ~Has(ctx, NameOf(c.name)), c \in ToSet(left) \cup ToSet(waiting),
         job'.sensor = s, job'.ctx = ctx, job'.left = left, job'.waiting = waiting
  PROVE  JobInOrder'
  <1>1. PutOff(s, ctx, left, waiting)'
    BY DEF PutOff
  <1> QED BY <1>1 DEF JobInOrder

\* What blocks a computed variable blocks it for the rest of the evaluation.
LEMMA BlockedStays ==
  ASSUME IInv, job # NoAnswer, ResolveComputed \/ NextPass, NEW c, Blocked(c)
  PROVE  Blocked(c)'
  <1>1. UNCHANGED <<reading, registered>>
    BY DEF ResolveComputed, NextPass
  <1>2. Absence(c.formula) => Absence(c.formula)'
    BY <1>1 DEF Absence
  <1>3. ASSUME Open(ComputedVariable) PROVE Open(ComputedVariable)'
    <2>1. errors[ComputedVariable] = MaxFatal /\ MaxFatal \in Nat
      BY <1>3, ResolutionConstants DEF Open
    <2>2. \/ errors' = errors
          \/ errors' = [errors EXCEPT ![ComputedVariable] = Counted(errors[ComputedVariable])]
      BY <1>3 DEF ResolveComputed, NextPass
    <2>3. Counted(MaxFatal) = MaxFatal
      BY <2>1 DEF Counted
    <2> QED BY <2>1, <2>2, <2>3 DEF Open, IInv, TypeOK
  <1> QED BY <1>2, <1>3 DEF Blocked

\* The next of the computed variables that are left.
LEMMA NextOfRest ==
  ASSUME NEW s \in Sensors, NEW left, NEW rest, NEW c, NEW k \in 0 .. Len(Computed[s]),
         Rest(s, left, k), left[1] = c, Len(left) \in Nat, Len(rest) = Len(left) - 1,
         \A i \in 1 .. Len(rest) : rest[i] = left[i + 1], 1 \in 1 .. Len(left)
  PROVE  /\ k \in Nat /\ k + 1 \in DOMAIN Computed[s] /\ k + 1 \in 0 .. Len(Computed[s])
         /\ c = Computed[s][k + 1] /\ Rest(s, rest, k + 1)
  <1>1. PICK N \in Nat : N = Len(Computed[s]) /\ DOMAIN Computed[s] = 1 .. N
    BY ComputedOnce
  <1>2. /\ Len(left) = N - k /\ k \in Nat /\ k <= N
        /\ \A i \in 1 .. N - k : left[i] = Computed[s][k + i]
    BY <1>1 DEF Rest
  <1>3. k + 1 \in 1 .. N /\ Len(rest) = N - (k + 1)
    BY <1>1, <1>2
  <1>4. c = Computed[s][k + 1]
    BY <1>2
  <1>5. \A i \in 1 .. Len(rest) : rest[i] = Computed[s][(k + 1) + i]
    <2> TAKE i \in 1 .. Len(rest)
    <2>1. i \in Nat /\ i + 1 \in 1 .. N - k /\ k + (i + 1) = (k + 1) + i
      BY <1>2, <1>3
    <2>2. rest[i] = left[i + 1] /\ left[i + 1] = Computed[s][k + (i + 1)]
      BY <1>2, <2>1
    <2> QED BY <2>1, <2>2
  <1> QED BY <1>1, <1>2, <1>3, <1>4, <1>5 DEF Rest

\* Going through a computed variable keeps the evaluation in order, or puts a
\* blocked one off.
LEMMA ResolveEvaluates ==
  ASSUME Evaluating, ResolveComputed
  PROVE  JobInOrder' /\ globals' \in GlobalSettings
  <1>1. /\ job # NoAnswer /\ job.left # <<>>
        /\ UNCHANGED <<reading, globals, registered>> /\ globals \in GlobalSettings
        /\ IInv /\ TypeOK /\ JobSound
    BY DEF ResolveComputed, Evaluating, IInv
  <1>2. PICK s, ctx, left, waiting :
          /\ job.sensor = s /\ job.ctx = ctx /\ job.left = left /\ job.waiting = waiting
          /\ InOrder(s, ctx, left, waiting) \/ PutOff(s, ctx, left, waiting)
    BY <1>1 DEF Evaluating, JobInOrder
  <1>3. /\ s \in Sensors /\ left \in Seq(ComputedOf(s)) /\ waiting \in Seq(ComputedOf(s))
        /\ left # <<>>
    BY <1>1, <1>2 DEF JobSound
  <1>4. PICK c : c = Head(left)
    OBVIOUS
  <1>5. PICK rest : rest = Tail(left)
    OBVIOUS
  <1>6. /\ c \in ComputedOf(s) /\ ToSet(left) = {c} \cup ToSet(rest) /\ left[1] = c
        /\ Len(left) \in Nat /\ Len(rest) = Len(left) - 1
        /\ \A i \in 1 .. Len(rest) : rest[i] = left[i + 1]
        /\ 1 \in 1 .. Len(left)
    <2>1. DOMAIN left = 1 .. Len(left)
      BY <1>3, LenProperties
    <2> QED BY <1>3, <1>4, <1>5, <2>1, TailElements
  <1>7. ComputedOf(s) = ToSet(Computed[s])
    BY DEF ComputedOf, ToSet
  <1>8. PICK v : v = ValueFrom(Expression(WithText(ctx, c.formula), c.formula))
    OBVIOUS
  <1>9. PICK x : x = Entry(NameOf(c.name), c.formula, Shared(ctx, c.formula, v))
    OBVIOUS
  <1>10. v = ComputedValue(c)
    BY <1>2, <1>8 DEF ComputedValue, ValueFrom
  <1>11. \/ Has(ctx, NameOf(c.name)) /\ Resolve(ctx)
         \/ /\ ~Has(ctx, NameOf(c.name))
            /\ Open(ComputedVariable) \/ Fault(c.formula) # "none"
            /\ job' = [job EXCEPT !.left = Tail(@), !.waiting = Append(@, c)]
         \/ /\ ~Has(ctx, NameOf(c.name))
            /\ ~Open(ComputedVariable) /\ Fault(c.formula) = "none"
            /\ Resolve(Append(ctx, x))
    BY <1>2, <1>4, <1>9, <1>10 DEF ResolveComputed
  <1>12. \A d : Blocked(d) => Blocked(d)'
    BY <1>1, BlockedStays
  <1>13. Context(ctx)
    BY <1>2 DEF InOrder, PutOff, Shows
  <1>14. CASE ~Has(ctx, NameOf(c.name)) /\ (Open(ComputedVariable) \/ Fault(c.formula) # "none")
    <2>1. PICK w : w = Append(waiting, c)
      OBVIOUS
    <2>2. job' = [job EXCEPT !.left = Tail(@), !.waiting = Append(@, c)]
      BY <1>11, <1>14
    <2>3. job'.sensor = s /\ job'.ctx = ctx /\ job'.left = rest /\ job'.waiting = w
      BY <1>1, <1>2, <1>5, <2>1, <2>2, PutOffFields
    <2>4. Blocked(c)'
      BY <1>12, <1>14, FaultIsAbsence DEF Blocked
    <2>5. c \in ToSet(w)
      BY <1>3, <1>6, <2>1, AppendElements
    <2> QED BY <1>1, <1>6, <1>14, <1>13, <2>3, <2>4, <2>5, PutOffGoesOn
  <1>15. CASE InOrder(s, ctx, left, waiting) /\ Has(ctx, NameOf(c.name))
    <2>1. PICK k \in 0 .. Len(Computed[s]) : Rest(s, left, k) /\ Shows(s, ctx, k)
      BY <1>15 DEF InOrder
    <2>2. /\ k \in Nat /\ k + 1 \in DOMAIN Computed[s] /\ k + 1 \in 0 .. Len(Computed[s])
          /\ c = Computed[s][k + 1] /\ Rest(s, rest, k + 1)
      BY <1>3, <1>6, <2>1, NextOfRest
    <2>3. Shows(s, ctx, k + 1)
      BY <1>3, <1>15, <2>1, <2>2, ShowsGlobal
    <2>4. job'.sensor = s /\ job'.ctx = ctx /\ job'.left = rest /\ job'.waiting = waiting
      BY <1>1, <1>2, <1>5, <1>11, <1>15, ResolveFields
    <2>5. waiting = <<>>
      BY <1>15 DEF InOrder
    <2> QED BY <1>1, <2>2, <2>3, <2>4, <2>5, InOrderGoesOn
  <1>16. CASE InOrder(s, ctx, left, waiting) /\ ~Has(ctx, NameOf(c.name))
              /\ ~(Open(ComputedVariable) \/ Fault(c.formula) # "none")
    <2>1. PICK k \in 0 .. Len(Computed[s]) : Rest(s, left, k) /\ Shows(s, ctx, k)
      BY <1>16 DEF InOrder
    <2>2. /\ k \in Nat /\ k + 1 \in DOMAIN Computed[s] /\ k + 1 \in 0 .. Len(Computed[s])
          /\ c = Computed[s][k + 1] /\ Rest(s, rest, k + 1)
      BY <1>3, <1>6, <2>1, NextOfRest
    <2>3. PICK new : new = Append(ctx, x)
      OBVIOUS
    <2>4. ~Absence(c.formula)
      BY <1>16, AbsenceIsFault
    <2>5. Shows(s, new, k + 1)
      BY <1>1, <1>3, <1>8, <1>9, <1>16, <2>1, <2>2, <2>3, <2>4, ShowsNext
    <2>6. Resolve(new)
      BY <1>11, <1>16, <2>3
    <2>7. job'.sensor = s /\ job'.ctx = new /\ job'.left = rest /\ job'.waiting = waiting
      BY <1>1, <1>2, <1>5, <2>6, ResolveFields
    <2>8. waiting = <<>>
      BY <1>16 DEF InOrder
    <2> QED BY <1>1, <2>2, <2>5, <2>7, <2>8, InOrderGoesOn
  <1>17. CASE PutOff(s, ctx, left, waiting) /\ Has(ctx, NameOf(c.name))
    <2>1. PICK d \in ComputedOf(s) : /\ Blocked(d) /\ ~Has(ctx, NameOf(d.name))
                                     /\ d \in ToSet(left) \cup ToSet(waiting)
      BY <1>17 DEF PutOff
    <2>2. d \in ToSet(rest) \cup ToSet(waiting)
      BY <1>6, <1>17, <2>1
    <2>3. job'.sensor = s /\ job'.ctx = ctx /\ job'.left = rest /\ job'.waiting = waiting
      BY <1>1, <1>2, <1>5, <1>11, <1>17, ResolveFields
    <2>4. Blocked(d)'
      BY <1>12, <2>1
    <2> QED BY <1>1, <1>13, <2>1, <2>2, <2>3, <2>4, PutOffGoesOn
  <1>18. CASE PutOff(s, ctx, left, waiting) /\ ~Has(ctx, NameOf(c.name))
              /\ ~(Open(ComputedVariable) \/ Fault(c.formula) # "none")
    <2>1. PICK d \in ComputedOf(s) : /\ Blocked(d) /\ ~Has(ctx, NameOf(d.name))
                                     /\ d \in ToSet(left) \cup ToSet(waiting)
      BY <1>18 DEF PutOff
    <2>2. d # c
      BY <1>18, <2>1, AbsenceIsFault DEF Blocked
    <2>3. d \in ToSet(rest) \cup ToSet(waiting)
      BY <1>6, <2>1, <2>2
    <2>4. PICK new : new = Append(ctx, x)
      OBVIOUS
    <2>5. Resolve(new)
      BY <1>11, <1>18, <2>4
    <2>6. job'.sensor = s /\ job'.ctx = new /\ job'.left = rest /\ job'.waiting = waiting
      BY <1>1, <1>2, <1>5, <2>5, ResolveFields
    <2>7. ~Has(new, NameOf(d.name))
      <3>1. x.name = NameOf(c.name)
        BY <1>9 DEF Entry
      <3>2. d.name # c.name
        BY <1>3, <1>6, <1>7, <2>1, <2>2, ComputedOnce
      <3>3. NameOf(d.name) # x.name
        BY <3>1, <3>2 DEF NameOf
      <3>4. ToSet(new) = ToSet(ctx) \cup {x}
        BY <1>18, <1>13, <2>4, <3>1, AppendEffect
      <3> QED BY <2>1, <3>3, <3>4, HasEntry
    <2>8. Blocked(d)'
      BY <1>12, <2>1
    <2>9. Context(new)
      <3>1. x.name = NameOf(c.name)
        BY <1>9 DEF Entry
      <3> QED BY <1>18, <1>13, <2>4, <3>1, AppendEffect
    <2> QED BY <1>1, <2>3, <2>6, <2>7, <2>8, <2>9, PutOffGoesOn
  <1> QED BY <1>2, <1>14, <1>15, <1>16, <1>17, <1>18

\* The next pass goes through those put off.
LEMMA NextPassEvaluates ==
  ASSUME Evaluating, NextPass
  PROVE  JobInOrder' /\ globals' \in GlobalSettings
  <1>1. /\ job # NoAnswer /\ job.left = <<>> /\ job.waiting # <<>>
        /\ UNCHANGED <<reading, globals, registered>> /\ globals \in GlobalSettings
        /\ IInv /\ JobSound
    BY DEF NextPass, Evaluating, IInv
  <1>2. PICK s, ctx, left, waiting :
          /\ job.sensor = s /\ job.ctx = ctx /\ job.left = left /\ job.waiting = waiting
          /\ InOrder(s, ctx, left, waiting) \/ PutOff(s, ctx, left, waiting)
    BY <1>1 DEF Evaluating, JobInOrder
  <1>3. PutOff(s, ctx, left, waiting) /\ Context(ctx)
    BY <1>1, <1>2 DEF InOrder, PutOff
  <1>4. PICK c \in ComputedOf(s) : /\ Blocked(c) /\ ~Has(ctx, NameOf(c.name))
                                   /\ c \in ToSet(left) \cup ToSet(waiting)
    BY <1>3 DEF PutOff
  <1>5. c \in ToSet(waiting)
    BY <1>1, <1>2, <1>4 DEF ToSet
  <1>6. PICK none : none = <<>>
    OBVIOUS
  <1>7. /\ job'.sensor = s /\ job'.ctx = ctx /\ job'.left = waiting /\ job'.waiting = none
    <2> DEFINE j == job
    <2>1. job' = [j EXCEPT !.left = j.waiting, !.waiting = none, !.progress = FALSE]
      BY <1>6 DEF NextPass
    <2>2. j = [sensor |-> j.sensor, ctx |-> j.ctx, left |-> j.left,
               waiting |-> j.waiting, progress |-> j.progress]
      BY <1>1 DEF JobSound
    <2>3. j.sensor = s /\ j.ctx = ctx /\ j.waiting = waiting
      BY <1>2
    <2> HIDE DEF j
    <2> QED BY <2>1, <2>2, <2>3
  <1>8. Blocked(c)'
    BY <1>1, <1>4, BlockedStays
  <1> QED BY <1>1, <1>3, <1>4, <1>5, <1>7, <1>8, PutOffGoesOn

\* The evaluation is at work in order, or there is none, after every step.
LEMMA StepEvaluates ==
  ASSUME Evaluating, [Next]_vars
  PROVE  Evaluating'
  <1>1. IInv'
    BY Inductive DEF Evaluating
  <1>2. JobInOrder' /\ globals' \in GlobalSettings
    <2>1. CASE \E s \in Sensors : Begin(s)
      BY <2>1, BeginEvaluates
    <2>2. CASE ResolveComputed
      BY <2>2, ResolveEvaluates
    <2>3. CASE NextPass
      BY <2>3, NextPassEvaluates
    <2>4. CASE GiveUp \/ Fail \/ AnswerState \/ Evaluate
      BY <2>4 DEF GiveUp, Fail, AnswerState, Evaluate, Evaluating, JobInOrder
    <2>5. CASE \E e \in Entities, r \in Readings : Change(e, r)
      BY <2>5 DEF Change, Evaluating, JobInOrder
    <2>6. CASE \E g \in GlobalSettings : SetGlobals(g)
      BY <2>6 DEF SetGlobals, JobInOrder
    <2>7. CASE UNCHANGED vars
      <3>1. /\ UNCHANGED <<reading, globals, registered, errors, job>> /\ globals \in GlobalSettings
        BY <2>7 DEF vars, Evaluating
      <3>2. CASE job = NoAnswer
        BY <3>1, <3>2 DEF JobInOrder
      <3>3. CASE job # NoAnswer
        <4>1. PICK s, ctx, left, waiting :
                /\ job.sensor = s /\ job.ctx = ctx /\ job.left = left /\ job.waiting = waiting
                /\ InOrder(s, ctx, left, waiting) \/ PutOff(s, ctx, left, waiting)
          BY <3>3 DEF Evaluating, JobInOrder
        <4>2. CASE InOrder(s, ctx, left, waiting)
          <5>1. PICK k \in 0 .. Len(Computed[s]) : Rest(s, left, k) /\ Shows(s, ctx, k)
            BY <4>2 DEF InOrder
          <5>2. waiting = <<>>
            BY <4>2 DEF InOrder
          <5> QED BY <3>1, <4>1, <5>1, <5>2, InOrderGoesOn
        <4>3. CASE PutOff(s, ctx, left, waiting)
          <5>1. PICK c \in ComputedOf(s) : /\ Blocked(c) /\ ~Has(ctx, NameOf(c.name))
                                           /\ c \in ToSet(left) \cup ToSet(waiting)
            BY <4>3 DEF PutOff
          <5>2. Blocked(c)'
            BY <3>1, <5>1 DEF Blocked, Absence, Open
          <5>3. Context(ctx)
            BY <4>3 DEF PutOff
          <5> QED BY <3>1, <4>1, <5>1, <5>2, <5>3, PutOffGoesOn
        <4> QED BY <4>1, <4>2, <4>3
      <3> QED BY <3>2, <3>3
    <2> QED BY <2>1, <2>2, <2>3, <2>4, <2>5, <2>6, <2>7 DEF Next
  <1> QED BY <1>1, <1>2 DEF Evaluating

\* When the computed variables are done, the context shows them all.
LEMMA ReadyShows ==
  ASSUME Evaluating, Ready
  PROVE  /\ job.sensor \in Sensors
         /\ Shows(job.sensor, job.ctx, Len(Computed[job.sensor]))
  <1>1. job # NoAnswer /\ job.left = <<>> /\ job.waiting = <<>> /\ job.sensor \in Sensors
    BY DEF Evaluating, IInv, JobSound, Ready
  <1>2. PICK s, ctx, left, waiting :
          /\ job.sensor = s /\ job.ctx = ctx /\ job.left = left /\ job.waiting = waiting
          /\ InOrder(s, ctx, left, waiting) \/ PutOff(s, ctx, left, waiting)
    BY <1>1 DEF Evaluating, JobInOrder
  <1>3. ToSet(left) = {} /\ ToSet(waiting) = {}
    BY <1>1, <1>2 DEF ToSet
  <1>4. InOrder(s, ctx, left, waiting)
    BY <1>2, <1>3 DEF PutOff
  <1>5. PICK k \in 0 .. Len(Computed[s]) : Rest(s, left, k) /\ Shows(s, ctx, k)
    BY <1>4 DEF InOrder
  <1>6. k = Len(Computed[s])
    <2>1. Len(left) = 0 /\ Len(Computed[s]) \in Nat
      BY <1>1, <1>2, ComputedOnce
    <2> QED BY <1>5, <2>1 DEF Rest
  <1> QED BY <1>1, <1>2, <1>5, <1>6
-----------------------------------------------------------------------------
(* Answers and what the text means *)

UnknownBehind(s) ==
  \/ \E e \in ReadBy(s) : reading[e] = "unknown"
  \/ Len(Formula[s]) = 1 /\ NoneBehind(s)

\* What an answer that is no failure says of the sensor's formula.
AnswerFits(s, a) ==
  /\ a.sensor = s
  /\ a.kind = "ok" /\ a.by = "formula"
       => Meant(Known(s), Formula[s]) /\ a.from = MeaningOf(Known(s), Formula[s])
  /\ Meant(Known(s), Formula[s]) /\ Ordered(s) => a.kind = "ok" /\ a.by = "formula"
  /\ a.by = "unknown" => UnknownBehind(s)
  /\ a.by = "none" => NoneBehind(s)
  /\ a.by = "unavailable" => ~Meant(Known(s), Formula[s])
  /\ a.by = "fallback" => \/ UnknownBehind(s) /\ Handlers[s]["unknown"] = Absent
                          \/ Handlers[s]["unavailable"] = Absent

\* A handler, or the sensor without one, answers for the alternate state it is asked for.
LEMMA HandledFits ==
  ASSUME NEW s \in Sensors, NEW ctx, NEW k \in Alternates,
         k = "unknown" => UnknownBehind(s),
         k = "none" /\ (\E x \in ToSet(ctx) : x.value.kind = "none") => NoneBehind(s),
         k = "unavailable" => ~Meant(Known(s), Formula[s]),
         k = "none" /\ ~(\E x \in ToSet(ctx) : x.value.kind = "none") => ~Meant(Known(s), Formula[s]),
         ~(Meant(Known(s), Formula[s]) /\ Ordered(s))
  PROVE  AnswerFits(s, Handled(s, ctx, k))
  <1>1. CASE Handlers[s] = NoHandler
    <2>1. PICK a : a = Handled(s, ctx, k)
      OBVIOUS
    <2>2. /\ a.sensor = s /\ a.by = "formula"
          /\ a.kind = IF k = "none" THEN "unknown" ELSE k
      BY <1>1, <2>1 DEF Handled, Answer
    <2>3. a.kind # "ok"
      BY <2>2 DEF Alternates
    <2> QED BY <2>1, <2>2, <2>3 DEF AnswerFits
  <1>2. CASE Handlers[s] # NoHandler
    <2>1. PICK h : h = HandlerFor(ctx, k)
      OBVIOUS
    <2>2. PICK c : c = Chosen(Handlers[s], h)
      OBVIOUS
    <2>3. PICK a : a = ByHandler(s, c)
      OBVIOUS
    <2>4. Handled(s, ctx, k) = a
      BY <1>2, <2>1, <2>2, <2>3 DEF Handled
    <2>5. a.sensor = s /\ a.by = c
      BY <2>3 DEF ByHandler, Answer
    <2>6. /\ h \in Alternates
          /\ h = "unknown" => UnknownBehind(s)
          /\ h = "none" => NoneBehind(s)
          /\ h = "unavailable" => ~Meant(Known(s), Formula[s])
      <3>1. (\E i \in DOMAIN ctx : ctx[i].value.kind = "none")
              <=> \E x \in ToSet(ctx) : x.value.kind = "none"
        BY DEF ToSet
      <3>2. h = IF k = "none" /\ ~(\E i \in DOMAIN ctx : ctx[i].value.kind = "none")
                THEN "unavailable" ELSE k
        BY <2>1 DEF HandlerFor
      <3> QED BY <3>1, <3>2 DEF Alternates
    <2>7. c = h \/ (c = "fallback" /\ h # "none" /\ Handlers[s][h] = Absent)
      BY <2>2 DEF Chosen
    <2>8. c # "formula"
      BY <2>6, <2>7 DEF Alternates
    <2> QED BY <2>4, <2>5, <2>6, <2>7, <2>8 DEF AnswerFits, Alternates
  <1> QED BY <1>1, <1>2

\* The context in which the main formula is evaluated.
LEMMA MainContext ==
  ASSUME Evaluating, Ready, NEW s, s = job.sensor, Readable(s), NEW ctx, ctx = FullContext(s)
  PROVE  /\ TypeOK /\ s \in Sensors /\ Len(Computed[s]) \in 0 .. Len(Computed[s])
         /\ TextOf(s, Formula[s]) /\ ~Absence(Formula[s])
         /\ Legible(s, ctx, Formula[s], Len(Computed[s]))
         /\ Meant(Known(s), Formula[s]) => Complete(ctx, Formula[s])
         /\ \A c \in ToSet(Computed[s]) : c.name \notin globals => ~Absence(c.formula)
  <1>1. PICK start : start = job.ctx
    OBVIOUS
  <1>2. PICK k : k = Len(Computed[s])
    OBVIOUS
  <1>3. s \in Sensors /\ Shows(s, start, k)
    BY <1>1, <1>2, ReadyShows
  <1>4. k \in Nat /\ k \in 0 .. Len(Computed[s]) /\ TypeOK
    BY <1>2, <1>3, ComputedOnce DEF Evaluating, IInv
  <1>5. PICK f : f = Formula[s]
    OBVIOUS
  <1>6. ctx = WithState(s, WithText(start, f))
    BY <1>1, <1>5 DEF FullContext
  <1>7. TextOf(s, f) /\ ~Absence(f)
    BY <1>5, AbsenceIsFault DEF TextOf, Readable
  <1>8. /\ Legible(s, ctx, f, k)
        /\ \A op : Has(start, op) => Has(ctx, op)
        /\ Mentions(f, State) => Has(ctx, State)
    BY <1>3, <1>4, <1>5, <1>6, FullContextLegible
  <1>9. ASSUME Meant(Known(s), f) PROVE Complete(ctx, f)
    <2> SUFFICES ASSUME NEW i \in DOMAIN f, f[i].kind \in {"name", "state"} PROVE Has(ctx, f[i])
      BY DEF Complete
    <2>1. PICK op \in Operand : op = f[i]
      BY <1>3, <1>7, TextType
    <2>2. CASE op.kind = "name"
      <3>1. Meaning(Known(s), op) # {}
        BY <1>9, <2>1 DEF Meant
      <3>2. \A j \in DOMAIN Computed[s] : op = NameOf(Computed[s][j].name) => j <= k
        BY <1>2, <1>3, ComputedOnce
      <3>3. Has(start, op)
        BY <1>3, <1>4, <2>2, <3>1, <3>2, ShowsNames
      <3> QED BY <1>8, <2>1, <3>3
    <2>3. CASE op.kind = "state"
      <3>1. op = State
        BY <2>3 DEF Operand
      <3> QED BY <1>8, <2>1, <3>1 DEF Mentions
    <2> QED BY <2>1, <2>2, <2>3
  <1>10. ASSUME NEW c \in ToSet(Computed[s]), c.name \notin globals PROVE ~Absence(c.formula)
    <2>1. PICK j \in DOMAIN Computed[s] : c = Computed[s][j]
      BY DEF ToSet
    <2>2. j \in 1 .. k
      BY <1>2, <1>3, ComputedOnce
    <2> QED BY <1>3, <1>10, <2>1, <2>2 DEF Shows
  <1> QED BY <1>2, <1>3, <1>4, <1>5, <1>7, <1>8, <1>9, <1>10

\* After all its computed variables a sensor knows all there is to know.
LEMMA KnownAtLast ==
  \A s \in Sensors : KnownBy(s, Len(Computed[s])) = Known(s)
  BY DEF KnownBy, Known

\* The answer of an evaluated formula.
LEMMA EvaluateFits ==
  ASSUME Evaluating, Ready, NEW s, s = job.sensor, Readable(s), NEW ctx, ctx = FullContext(s),
         NEW v, v = Expression(ctx, Formula[s])
  PROVE  AnswerFits(s, Answered(s, ctx, v))
  <1>1. PICK f : f = Formula[s]
    OBVIOUS
  <1>2. PICK k : k = Len(Computed[s])
    OBVIOUS
  <1>3. /\ TypeOK /\ s \in Sensors /\ k \in 0 .. Len(Computed[s])
        /\ TextOf(s, f) /\ Legible(s, ctx, f, k)
        /\ Meant(Known(s), f) => Complete(ctx, f)
    BY <1>1, <1>2, MainContext
  <1>4. /\ v.kind \in Alternates \cup {"number", "text"}
        /\ v.kind = "number" => Meant(Known(s), f) /\ MeaningOf(Known(s), f) = v.from
        /\ v.kind \in {"text", "unknown", "unavailable"} => ~Meant(Known(s), f)
        /\ v.kind = "unknown" => \E e \in ReadBy(s) : reading[e] = "unknown"
        /\ v.kind = "none" => \/ \E x \in ToSet(ctx) : x.value.kind = "none"
                              \/ ~Meant(Known(s), f) \/ ~Complete(ctx, f)
        /\ Ordered(s) /\ Meant(Known(s), f) /\ Complete(ctx, f) => v.kind = "number"
    <2>1. KnownBy(s, k) = Known(s)
      BY <1>2, <1>3, KnownAtLast
    <2>2. v = Expression(ctx, f)
      BY <1>1
    <2>3. /\ v.kind \in Alternates \cup {"number", "text"}
          /\ v.kind = "number" => Meant(KnownBy(s, k), f) /\ MeaningOf(KnownBy(s, k), f) = v.from
          /\ v.kind \in {"text", "unknown", "unavailable"} => ~Meant(Known(s), f)
          /\ v.kind = "unknown" => \E e \in ReadBy(s) : reading[e] = "unknown"
          /\ v.kind = "none" => \/ \E x \in ToSet(ctx) : x.value.kind = "none"
                                \/ ~Meant(Known(s), f) \/ ~Complete(ctx, f)
          /\ Ordered(s) /\ Meant(Known(s), f) /\ Complete(ctx, f) => v.kind = "number"
      BY <1>3, <2>2, ExpressionFits
    <2> QED BY <2>1, <2>3
  <1>5. CASE v.kind \in Alternates
    <2>1. PICK kind \in Alternates : kind = v.kind
      BY <1>5
    <2>2. Answered(s, ctx, v) = Handled(s, ctx, kind)
      BY <1>5, <2>1 DEF Answered
    <2>3. (\E x \in ToSet(ctx) : x.value.kind = "none") => NoneBehind(s)
      BY <1>3 DEF Legible, Fits
    <2>4. /\ kind = "unknown" => UnknownBehind(s)
          /\ kind = "unavailable" => ~Meant(Known(s), Formula[s])
          /\ kind = "none" /\ ~(\E x \in ToSet(ctx) : x.value.kind = "none") => ~Meant(Known(s), Formula[s])
          /\ ~(Meant(Known(s), Formula[s]) /\ Ordered(s))
      BY <1>1, <1>3, <1>4, <2>1 DEF UnknownBehind, Alternates
    <2>5. AnswerFits(s, Handled(s, ctx, kind))
      BY <1>3, <2>3, <2>4, HandledFits
    <2> QED BY <2>2, <2>5
  <1>6. CASE v.kind \notin Alternates
    <2>1. PICK a : a = Answered(s, ctx, v)
      OBVIOUS
    <2>2. /\ a.sensor = s /\ a.by = "formula" /\ a.from = v.from
          /\ a.kind = IF v.kind = "number" THEN "ok" ELSE "text"
      BY <1>6, <2>1 DEF Answered, Answer
    <2>3. AnswerFits(s, a)
      BY <1>1, <1>3, <1>4, <1>6, <2>2 DEF AnswerFits
    <2> QED BY <2>1, <2>3
  <1> QED BY <1>5, <1>6

\* The answer for the alternate state behind the one name of the formula.
LEMMA AnswerStateFits ==
  ASSUME Evaluating, Ready, NEW s, s = job.sensor, Readable(s), NEW ctx, ctx = FullContext(s),
         NEW state, state = Detected(ctx, Formula[s]), state # "none"
  PROVE  AnswerFits(s, Handled(s, ctx, state))
  <1>1. PICK f : f = Formula[s]
    OBVIOUS
  <1>2. PICK k : k = Len(Computed[s])
    OBVIOUS
  <1>3. /\ TypeOK /\ s \in Sensors /\ k \in 0 .. Len(Computed[s])
        /\ TextOf(s, f) /\ Legible(s, ctx, f, k)
    BY <1>1, <1>2, MainContext
  <1>4. PICK op : op = f[1]
    OBVIOUS
  <1>5. Len(f) = 1 /\ DOMAIN f = {1} /\ op \in Operand
    <2>1. Len(f) = 1
      BY <1>1 DEF Detected
    <2>2. DOMAIN f = {1} /\ f[1] \in Operand
      BY <1>3, <2>1, TextType
    <2> QED BY <1>4, <2>1, <2>2
  <1>6. state = CASE op.kind = "attribute" /\ reading[op.of] \in Alternates -> reading[op.of]
                  [] op.kind = "name" /\ Tracked(ctx, op) -> StateBehind(ctx, op)
                  [] op = State /\ Has(ctx, op) /\ ValueOf(ctx, op).kind = "none"
                       -> StateBehind(ctx, op)
                  [] OTHER -> "none"
    BY <1>1, <1>4, <1>5 DEF Detected
  <1>7. Meant(Known(s), f) <=> Meaning(Known(s), op) # {}
    BY <1>4, <1>5 DEF Meant
  <1>8. /\ state \in {"unknown", "unavailable"}
        /\ state = "unknown" => UnknownBehind(s)
        /\ state = "unavailable" => ~Meant(Known(s), f)
        /\ ~(Meant(Known(s), f) /\ Ordered(s))
    <2>1. CASE op.kind = "attribute" /\ reading[op.of] \in Alternates
      <3>1. state = reading[op.of] /\ state \in {"unknown", "unavailable"}
        BY <1>6, <2>1 DEF Alternates, State
      <3>2. op \notin Numbers(s) /\ \A n : op # NameOf(n)
        BY <2>1 DEF Numbers, State, NameOf, Alternates
      <3>3. Meaning(Known(s), op) = {}
        BY <1>3, <3>2, HasMeaning
      <3>4. PICK e \in Entities : e = op.of
        BY <1>5, <2>1 DEF Operand, State
      <3>5. e \in ReadBy(s)
        BY <1>3, <1>4, <1>5, <2>1, <3>4, TextReads
      <3> QED BY <1>7, <3>1, <3>3, <3>4, <3>5 DEF UnknownBehind
    <2>2. CASE op.kind # "attribute" /\ Has(ctx, op) /\ ValueOf(ctx, op).kind \in Alternates
              /\ state = StateBehind(ctx, op)
      <3>1. PICK x \in ToSet(ctx) : x.name = op
        BY <2>2, HasEntry
      <3>2. ValueOf(ctx, op) = x.value
        BY <1>3, <3>1, ValueOfEntry DEF Legible
      <3>3. Fits(s, x, k)
        BY <1>3 DEF Legible
      <3>4. /\ x.value.kind \in {"text", "unknown", "unavailable"} => Meaning(Known(s), op) = {}
            /\ Ordered(s) /\ Meaning(Known(s), op) # {} => x.value.kind = "number"
        BY <1>3, <3>1, <3>3, EntryMeans
      <3>5. /\ x.value.kind = "unknown" => \E e \in ReadBy(s) : reading[e] = "unknown"
            /\ x.value.kind = "none" => NoneBehind(s)
        BY <3>3 DEF Fits
      <3>6. state = IF x.value.kind = "none" THEN "unknown" ELSE x.value.kind
        BY <2>2, <3>2 DEF StateBehind
      <3> QED BY <1>1, <1>5, <1>7, <2>2, <3>2, <3>4, <3>5, <3>6 DEF UnknownBehind, Alternates
    <2>3. \/ op.kind = "attribute" /\ reading[op.of] \in Alternates
          \/ op.kind # "attribute" /\ Has(ctx, op) /\ ValueOf(ctx, op).kind \in Alternates
              /\ state = StateBehind(ctx, op)
      <3>1. CASE op.kind = "name" /\ Tracked(ctx, op)
        BY <1>6, <3>1 DEF Tracked, State
      <3>2. CASE op = State /\ Has(ctx, op) /\ ValueOf(ctx, op).kind = "none"
        BY <1>6, <3>2 DEF State, Alternates
      <3> QED BY <1>6, <3>1, <3>2
    <2> QED BY <2>1, <2>2, <2>3
  <1>9. state \in Alternates /\ state # "none"
    BY <1>8 DEF Alternates
  <1> QED BY <1>1, <1>3, <1>8, <1>9, HandledFits
-----------------------------------------------------------------------------
(* What the text means after the answer is published *)

\* Sensors that are new in the registry matter to no text that names nothing absent.
LEMMA KnownLater ==
  ASSUME NEW s \in Sensors, UNCHANGED <<reading, globals>>,
         \A c \in ToSet(Computed[s]) : c.name \notin globals => ~Absence(c.formula)
  PROVE  \A f : ~Absence(f) /\ Meant(Known(s)', f) => Meant(Known(s), f)
  <1>1. PICK K : K = Known(s)
    OBVIOUS
  <1>2. PICK later : later = Known(s)'
    OBVIOUS
  <1>3. PICK first : first = KnownFirst(s)'
    OBVIOUS
  <1>4. PICK more : more = KnownFirst(s)
    OBVIOUS
  <1>5. PICK taken : taken = globals
    OBVIOUS
  <1>6. PICK other : other = {<<op, {op}>> : op \in Numbers(s)' \ Numbers(s)}
    OBVIOUS
  <1>7. first \subseteq more \cup other
    BY <1>3, <1>4, <1>6 DEF KnownFirst
  <1>8. Basic(s, taken, more)
    BY <1>4, <1>5, FirstIsBasic DEF FirstBasic
  <1>9. ASSUME NEW f, ~Absence(f) PROVE Apart(other, f)
    <2> SUFFICES ASSUME NEW op \in Numbers(s)' \ Numbers(s), NEW i \in DOMAIN f PROVE op # f[i]
      BY <1>6 DEF Apart
    <2>1. op.kind = "sensor" /\ op.of \notin registered
      BY DEF Numbers
    <2> QED BY <1>9, <2>1 DEF Absence
  <1>10. \A c \in ToSet(Computed[s]) : c.name \notin taken => Apart(other, c.formula)
    BY <1>5, <1>9
  <1>11. /\ later = KnownAfter(s, taken, first)[Len(Computed[s])]
         /\ K = KnownAfter(s, taken, more)[Len(Computed[s])]
    BY <1>1, <1>2, <1>3, <1>4, <1>5 DEF Known
  <1>12. later \subseteq K \cup other
    BY <1>7, <1>8, <1>10, <1>11, KnownWithin
  <1>13. Single(K)
    <2>1. 0 \in 0 .. Len(Computed[s])
      BY ComputedOnce
    <2> QED BY <1>1, <2>1, KnownFacts
  <1>14. Within(later, K, other)
    BY <1>12, <1>13 DEF Within
  <1> QED BY <1>1, <1>2, <1>9, <1>14, MeantWithin

\* A number more in the registry takes nothing from what is meant.
LEMMA KnownMore ==
  ASSUME NEW s \in Sensors, UNCHANGED <<reading, globals>>, registered \subseteq registered'
  PROVE  \A f : Meant(Known(s), f)
                 => Meant(Known(s)', f) /\ MeaningOf(Known(s)', f) = MeaningOf(Known(s), f)
  <1>1. PICK K : K = Known(s)
    OBVIOUS
  <1>2. PICK later : later = Known(s)'
    OBVIOUS
  <1>3. PICK first : first = KnownFirst(s)
    OBVIOUS
  <1>4. PICK more : more = KnownFirst(s)'
    OBVIOUS
  <1>5. PICK taken : taken = globals
    OBVIOUS
  <1>6. PICK other : other = {}
    OBVIOUS
  <1>7. first \subseteq more \cup other
    <2>1. Numbers(s) \subseteq Numbers(s)'
      BY DEF Numbers
    <2> QED BY <1>3, <1>4, <2>1 DEF KnownFirst
  <1>8. Basic(s, taken, more)
    <2>1. FirstBasic'
      BY FirstIsBasic, PTL
    <2> QED BY <1>4, <1>5, <2>1 DEF FirstBasic
  <1>9. \A c \in ToSet(Computed[s]) : c.name \notin taken => Apart(other, c.formula)
    BY <1>6 DEF Apart
  <1>10. /\ later = KnownAfter(s, taken, more)[Len(Computed[s])]
         /\ K = KnownAfter(s, taken, first)[Len(Computed[s])]
    BY <1>1, <1>2, <1>3, <1>4, <1>5 DEF Known
  <1>11. K \subseteq later \cup other
    BY <1>7, <1>8, <1>9, <1>10, KnownWithin
  <1>12. Single(later)
    <2>1. Len(Computed[s]) \in 0 .. Len(Computed[s])
      BY ComputedOnce
    <2>2. Single(KnownAfter(s, taken, more)[Len(Computed[s])])
      BY <1>8, <2>1, KnownGrows
    <2> QED BY <1>10, <2>2
  <1>13. Within(K, later, other) /\ \A f : Apart(other, f)
    BY <1>6, <1>11, <1>12 DEF Within, Apart
  <1> QED BY <1>1, <1>2, <1>13, MeantWithin

\* What lets a handler for none answer is still there after a publication.
LEMMA BehindLater ==
  ASSUME NEW s \in Sensors, UNCHANGED <<reading, globals>>,
         \A c \in ToSet(Computed[s]) : c.name \notin globals => ~Absence(c.formula)
  PROVE  NoneBehind(s) => NoneBehind(s)'
  <1>1. \A f : ~Absence(f) /\ Meant(Known(s)', f) => Meant(Known(s), f)
    BY KnownLater
  <1> QED BY <1>1 DEF NoneBehind

\* The two properties, of the sensor that is answered for.
Meanings(s, a) ==
  /\ a.kind = "ok" /\ a.by = "formula"
       => Meant(Known(s), Formula[s]) /\ a.from = MeaningOf(Known(s), Formula[s])
  /\ Meant(Known(s), Formula[s]) /\ Ordered(s) /\ Sound(s) /\ a.kind # "skipped"
       => a.kind = "ok" /\ a.by = "formula"

AnswerMeant == answer # NoAnswer => \E s, a : answer = a /\ a.sensor = s /\ Meanings(s, a)

\* The property of answers from what is kept of one.
LEMMA MeaningsAreMeant == AnswerMeant => AnswersAreMeant
  BY DEF AnswerMeant, AnswersAreMeant, Meanings

HandlersOf(s, a) ==
  /\ a.by = "unknown" => UnknownBehind(s)
  /\ a.by = "none" => NoneBehind(s)
  /\ a.by = "unavailable" => ~Meant(Known(s), Formula[s])
  /\ a.by = "fallback" => \/ UnknownBehind(s) /\ Handlers[s]["unknown"] = Absent
                          \/ Handlers[s]["unavailable"] = Absent

AnswerFitting == answer # NoAnswer => \E s, a : answer = a /\ a.sensor = s /\ HandlersOf(s, a)

\* The property of handlers from what is kept of one.
LEMMA HandlersOfFit == AnswerFitting => HandlersFit
  <1> SUFFICES ASSUME answer # NoAnswer, NEW s, NEW a, answer = a, a.sensor = s, HandlersOf(s, a)
               PROVE  HandlersFit
    BY DEF HandlersFit, AnswerFitting
  <1> DEFINE nothing == \/ \E e \in ReadBy(s) : reading[e] = "none"
                        \/ \E c \in ToSet(Computed[s]) : \/ ~Meant(Known(s), c.formula)
                                                         \/ Mentions(c.formula, State)
                        \/ ~Ordered(s)
             unknown == \/ \E e \in ReadBy(s) : reading[e] = "unknown"
                        \/ Len(Formula[s]) = 1 /\ nothing
  <1>1. NoneBehind(s) => nothing
    BY DEF NoneBehind
  <1>2. UnknownBehind(s) => unknown
    BY <1>1 DEF UnknownBehind
  <1> QED BY <1>1, <1>2 DEF HandlersFit, HandlersOf

Properties == AnswersAreMeant /\ HandlersFit

\* An answer that fits fits in the state it is published in.
LEMMA AnswerPublished ==
  ASSUME NEW s \in Sensors, NEW a, AnswerFits(s, a), answer' = a, Publish(answer'),
         UNCHANGED <<reading, globals>>, ~Absence(Formula[s]),
         \A c \in ToSet(Computed[s]) : c.name \notin globals => ~Absence(c.formula)
  PROVE  Properties'
  <1>1. PICK f : f = Formula[s]
    OBVIOUS
  <1>2. Meant(Known(s)', f) => Meant(Known(s), f)
    BY <1>1, KnownLater
  <1>3. NoneBehind(s) => NoneBehind(s)'
    BY BehindLater
  <1>4. UnknownBehind(s) => UnknownBehind(s)'
    BY <1>3 DEF UnknownBehind
  <1>5. Meanings(s, a)'
    <2>1. ASSUME a.kind = "ok", a.by = "formula"
          PROVE  Meant(Known(s)', f) /\ a.from = MeaningOf(Known(s)', f)
      <3>1. registered \subseteq registered'
        BY <2>1 DEF Publish
      <3>2. Meant(Known(s), f) /\ a.from = MeaningOf(Known(s), f)
        BY <1>1, <2>1 DEF AnswerFits
      <3> QED BY <3>1, <3>2, KnownMore
    <2>2. Meant(Known(s)', f) /\ Ordered(s) => a.kind = "ok" /\ a.by = "formula"
      BY <1>1, <1>2 DEF AnswerFits
    <2> QED BY <1>1, <2>1, <2>2 DEF Meanings
  <1>6. HandlersOf(s, a)'
    BY <1>1, <1>2, <1>3, <1>4 DEF HandlersOf, AnswerFits
  <1>7. a.sensor = s
    BY DEF AnswerFits
  <1>8. AnswersAreMeant'
    <2>1. AnswerMeant'
      BY <1>5, <1>7 DEF AnswerMeant
    <2> QED BY <2>1, MeaningsAreMeant, PTL
  <1>9. HandlersFit'
    <2>1. AnswerFitting'
      BY <1>6, <1>7 DEF AnswerFitting
    <2> QED BY <2>1, HandlersOfFit, PTL
  <1> QED BY <1>8, <1>9 DEF Properties

\* No answer says nothing, and neither does one that is skipped.
Silent == answer # NoAnswer => answer.kind = "skipped" /\ answer.by = "formula"

\* No answer, or one of a formula that was skipped, is no claim.
LEMMA NothingSaid == Silent => Properties
  BY DEF Silent, Properties, AnswersAreMeant, HandlersFit

\* What makes an evaluation fail keeps the text from meaning a number.
LEMMA CausesMeanNothing ==
  \A s \in Sensors :
    Absence(Formula[s]) \/ (/\ Mentions(Formula[s], State) /\ OwnState[s] # OwnId
                            /\ OwnState[s] # Nothing => reading[OwnState[s]] = "missing")
      => ~Meant(Known(s), Formula[s])
  <1> SUFFICES ASSUME NEW s \in Sensors,
                      \/ Absence(Formula[s])
                      \/ /\ Mentions(Formula[s], State) /\ OwnState[s] # OwnId
                         /\ OwnState[s] # Nothing => reading[OwnState[s]] = "missing"
               PROVE  ~Meant(Known(s), Formula[s])
    OBVIOUS
  <1>1. PICK i \in DOMAIN Formula[s] :
          \/ /\ Formula[s][i].kind \in {"entity", "attribute"}
             /\ reading[Formula[s][i].of] = "missing"
          \/ Formula[s][i].kind = "sensor" /\ Formula[s][i].of \notin registered
          \/ /\ Formula[s][i] = State /\ OwnState[s] # OwnId
             /\ OwnState[s] # Nothing => reading[OwnState[s]] = "missing"
    BY DEF Absence, Mentions
  <1>2. PICK op : op = Formula[s][i]
    OBVIOUS
  <1>3. op \notin Numbers(s)
    <2>1. OwnState[s] \in Entities => OwnState[s] # Nothing
      BY ResolutionConstants
    <2> QED BY <1>1, <1>2, <2>1 DEF Numbers, State
  <1>4. \A n : op # NameOf(n)
    BY <1>1, <1>2 DEF NameOf, State
  <1>5. Meaning(Known(s), op) = {}
    BY <1>3, <1>4, HasMeaning
  <1> QED BY <1>2, <1>5 DEF Meant

\* A failure stands for a text that means no number or that cannot be evaluated.
FailureAnswered ==
  /\ answer # NoAnswer /\ answer.kind = "failed" /\ answer.by = "formula"
  /\ answer.sensor \in Sensors /\ FailuresHaveACause

\* An answer of an evaluation that failed claims no number and no handler.
LEMMA FailuresFit == FailureAnswered => Properties
  <1> SUFFICES ASSUME answer # NoAnswer, answer.kind = "failed", answer.by = "formula",
                      answer.sensor \in Sensors, FailuresHaveACause
               PROVE  Properties
    BY DEF FailureAnswered
  <1>1. PICK s \in Sensors : s = answer.sensor
    OBVIOUS
  <1>2. ~Meant(Known(s), Formula[s]) \/ ~Sound(s)
    BY <1>1, CausesMeanNothing DEF FailuresHaveACause
  <1> QED BY <1>1, <1>2 DEF Properties, AnswersAreMeant, HandlersFit

\* Answers keep meaning what they meant in steps that change nothing.
LEMMA PropertiesStay ==
  ASSUME Properties, UNCHANGED vars, answer # NoAnswer => answer.sensor \in Sensors
  PROVE  Properties'
  <1>1. UNCHANGED <<reading, globals, registered, errors, answer>>
    BY DEF vars
  <1>2. ASSUME NEW s PROVE Known(s)' = Known(s) /\ Sound(s)' = Sound(s)
    BY <1>1, KnownStays DEF Sound, Absence, Open
  <1>3. CASE answer = NoAnswer
    BY <1>1, <1>3 DEF Properties, AnswersAreMeant, HandlersFit
  <1>4. CASE answer # NoAnswer
    <2>1. PICK s, a : answer = a /\ a.sensor = s
      OBVIOUS
    <2>2. AnswersAreMeant'
      <3>1. Meanings(s, a)
        BY <1>4, <2>1 DEF Properties, AnswersAreMeant, Meanings
      <3>2. Meanings(s, a)'
        BY <1>2, <3>1 DEF Meanings
      <3>3. AnswerMeant'
        BY <1>1, <2>1, <3>2 DEF AnswerMeant
      <3> QED BY <3>3, MeaningsAreMeant, PTL
    <2>3. HandlersFit'
      BY <1>1, <1>2, <1>4, <2>1 DEF Properties, HandlersFit
    <2> QED BY <2>2, <2>3 DEF Properties
  <1> QED BY <1>3, <1>4

\* Every answer that is given is meant, and the handler that gives it fits.
LEMMA PropertiesStep ==
  ASSUME Evaluating, Properties, [Next]_vars
  PROVE  Properties'
  <1>1. Evaluating' /\ IInv' /\ FailuresHaveACause' /\ TypeOK'
    <2>1. Evaluating'
      BY StepEvaluates
    <2> QED BY <2>1 DEF Evaluating, IInv
  <1>2. CASE \E s \in Sensors : Begin(s)
    <2>1. Silent'
      BY <1>2 DEF Begin, Silent, Answer
    <2> QED BY <2>1, NothingSaid, PTL
  <1>3. CASE ResolveComputed \/ NextPass
    <2>1. answer' = NoAnswer
      BY <1>3 DEF ResolveComputed, NextPass, Evaluating, IInv, JobSound
    <2>2. Silent'
      BY <2>1 DEF Silent
    <2> QED BY <2>2, NothingSaid, PTL
  <1>4. CASE GiveUp \/ Fail
    <2>1. PICK s \in Sensors : s = job.sensor
      BY <1>4 DEF GiveUp, Fail, Ready, Evaluating, IInv, JobSound
    <2>2. answer' = Failed(s)
      BY <1>4, <2>1 DEF GiveUp, Fail
    <2>3. answer'.kind = "failed" /\ answer'.by = "formula" /\ answer'.sensor = s
      BY <2>2 DEF Failed, Answer
    <2>4. CASE answer' # NoAnswer
      <3>1. FailureAnswered'
        BY <1>1, <2>3, <2>4 DEF FailureAnswered
      <3> QED BY <3>1, FailuresFit, PTL
    <2>5. CASE answer' = NoAnswer
      <3>1. Silent'
        BY <2>5 DEF Silent
      <3> QED BY <3>1, NothingSaid, PTL
    <2> QED BY <2>4, <2>5
  <1>5. CASE AnswerState
    <2>1. PICK s \in Sensors : s = job.sensor
      BY <1>5 DEF AnswerState, Ready, Evaluating, IInv, JobSound
    <2>2. PICK ctx : ctx = FullContext(s)
      OBVIOUS
    <2>3. PICK state : state = Detected(ctx, Formula[s])
      OBVIOUS
    <2>4. PICK a : a = Handled(s, ctx, state)
      OBVIOUS
    <2>5. /\ Ready /\ Readable(s) /\ state # "none" /\ answer' = a /\ Publish(answer')
          /\ UNCHANGED <<reading, globals>>
      BY <1>5, <2>1, <2>2, <2>3, <2>4 DEF AnswerState
    <2>6. AnswerFits(s, a)
      BY <2>1, <2>2, <2>3, <2>4, <2>5, AnswerStateFits
    <2>7. /\ ~Absence(Formula[s])
          /\ \A c \in ToSet(Computed[s]) : c.name \notin globals => ~Absence(c.formula)
      BY <2>1, <2>2, <2>5, MainContext
    <2> QED BY <2>5, <2>6, <2>7, AnswerPublished
  <1>6. CASE Evaluate
    <2>1. PICK s \in Sensors : s = job.sensor
      BY <1>6 DEF Evaluate, Ready, Evaluating, IInv, JobSound
    <2>2. PICK ctx : ctx = FullContext(s)
      OBVIOUS
    <2>3. PICK v : v = Expression(ctx, Formula[s])
      OBVIOUS
    <2>4. PICK a : a = Answered(s, ctx, v)
      OBVIOUS
    <2>5. /\ Ready /\ Readable(s) /\ answer' = a /\ Publish(answer')
          /\ UNCHANGED <<reading, globals>>
      BY <1>6, <2>1, <2>2, <2>3, <2>4 DEF Evaluate
    <2>6. AnswerFits(s, a)
      BY <2>1, <2>2, <2>3, <2>4, <2>5, EvaluateFits
    <2>7. /\ ~Absence(Formula[s])
          /\ \A c \in ToSet(Computed[s]) : c.name \notin globals => ~Absence(c.formula)
      BY <2>1, <2>2, <2>5, MainContext
    <2> QED BY <2>5, <2>6, <2>7, AnswerPublished
  <1>7. CASE \/ \E e \in Entities, r \in Readings : Change(e, r)
             \/ \E g \in GlobalSettings : SetGlobals(g)
    <2>1. Silent'
      BY <1>7 DEF Change, SetGlobals, Silent
    <2> QED BY <2>1, NothingSaid, PTL
  <1>8. CASE UNCHANGED vars
    BY <1>8, PropertiesStay DEF Evaluating, IInv, TypeOK
  <1> QED BY <1>2, <1>3, <1>4, <1>5, <1>6, <1>7, <1>8 DEF Next

\* The strengthened invariant, with both properties.
LEMMA PropertiesHold == Spec => [](Evaluating /\ Properties)
  <1>1. Init => Evaluating /\ Properties
    <2> SUFFICES ASSUME Init PROVE Evaluating /\ Properties
      OBVIOUS
    <2>1. Evaluating
      BY InitHolds DEF Init, Evaluating, JobInOrder
    <2>2. Properties
      BY NothingSaid DEF Init, Silent
    <2> QED BY <2>1, <2>2
  <1>2. Evaluating /\ Properties /\ [Next]_vars => (Evaluating /\ Properties)'
    BY StepEvaluates, PropertiesStep
  <1> QED BY <1>1, <1>2, PTL DEF Spec

\* For any formulas, variables, global variables and readings, a number that a
\* formula answers is the one its text means, of the operands it names and no
\* other; and a formula all of whose operands mean numbers is answered, if its
\* computed variables are in order and can be evaluated.
THEOREM AnswersHold == Spec => []AnswersAreMeant
  <1>1. Properties => AnswersAreMeant
    BY DEF Properties
  <1> QED BY <1>1, PropertiesHold, PTL

\* For any handlers, the handler that answers is one for what went wrong.
THEOREM HandlersHold == Spec => []HandlersFit
  <1>1. Properties => HandlersFit
    BY DEF Properties
  <1> QED BY <1>1, PropertiesHold, PTL
=============================================================================
