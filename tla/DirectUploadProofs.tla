------------------------- MODULE DirectUploadProofs -------------------------
(***************************************************************************)
(* Proofs about DirectUpload, for any files, runs of the handler, limit    *)
(* and life of a ticket.  What a step does to the runs of the handler is   *)
(* one of six things (Effect); what it does to the form and the rows is    *)
(* looked at step by step.                                                 *)
(***************************************************************************)
EXTENDS DirectUpload, FiniteSetTheorems, TLAPS

HandlerRecord == [pc : {"idle", "probe", "prepare", "put"}, files : SUBSET Files, todo : SUBSET Files]
FormRecord    == [pc : {"none", "sent"}, manifest : SUBSET Files,
                  direct : SUBSET Files, delete : SUBSET Files]

Typed ==
  /\ page \in {"open", "sent", "closed"}
  /\ handler \in [Handlers -> HandlerRecord]
  /\ input \subseteq Files /\ pending \in Nat
  /\ listed \subseteq Files /\ shown \subseteq Files /\ removed \subseteq Files
  /\ form \in FormRecord
  /\ ticket \in [Files -> 0 .. TicketLife + 1]
  /\ blob \subseteq Files /\ media \subseteq Files

(* The files that are being uploaded.                                      *)
Pending == UNION {handler[h].files : h \in {g \in Handlers : Uploading(g)}}

(* A run has files until it ends, and no two runs have one in common.      *)
RunsApart ==
  /\ \A h \in Handlers : /\ handler[h].pc = "idle" => handler[h].files = {}
                         /\ handler[h].pc # "idle" => handler[h].files # {}
                         /\ handler[h].todo \subseteq handler[h].files
  /\ \A g, h \in Handlers : g # h => handler[g].files \cap handler[h].files = {}

Counted == pending = Cardinality(Pending)

(* What is in the input belongs to a run, and is not listed before that    *)
(* run uploads it.                                                         *)
InputFits ==
  /\ input # {} => \E h \in Handlers : handler[h].pc # "idle" /\ handler[h].files = input
  /\ \A f \in listed \cap input : f \in Pending

(* A form that is on its way may have the files of a run, if it was sent   *)
(* from this page.                                                         *)
FormApart ==
  /\ form.pc = "none" => form = NoForm
  /\ page = "sent" => form.pc = "sent"
  /\ \A f \in Files : Handled(f) => f \notin media /\ (InForm(f) => page = "sent")

TicketsValid == \A f \in Files : ticket[f] <= TicketLife => f \in Valid

(* The inductive invariant.                                                *)
IInv ==
  /\ Typed
  /\ RunsApart
  /\ Counted
  /\ InputFits
  /\ FormApart
  /\ TicketsValid
  /\ MediaWithinLimit

-----------------------------------------------------------------------------
(* What a step does to the runs of the handler, to the input, the counter  *)
(* and the list.                                                           *)

Reset == handler' = [h \in Handlers |-> Idle] /\ input' = {} /\ pending' = 0 /\ listed' = {}

Same == UNCHANGED <<handler, input, pending>> /\ listed' \subseteq listed

Refused == UNCHANGED <<handler, pending, listed>> /\ input' = {}

Picked(h, files) ==
  /\ handler[h].pc = "idle" /\ files # {} /\ files \subseteq Files
  /\ \A f \in files : ~Handled(f) /\ f \notin listed
  /\ handler' = [handler EXCEPT ![h] = [pc |-> "probe", files |-> files, todo |-> files]]
  /\ input' = files /\ UNCHANGED <<pending, listed>>

(* The run goes on with its files.                                         *)
Goes(h, new) ==
  /\ new \in HandlerRecord /\ new.files = handler[h].files /\ new.todo \subseteq new.files
  /\ new.pc \in {"prepare", "put"}
  /\ handler' = [handler EXCEPT ![h] = new]
  /\ UNCHANGED input

Began(h, new) ==
  /\ handler[h].pc = "probe" /\ Goes(h, new)
  /\ pending' = pending + Cardinality(handler[h].files) /\ UNCHANGED listed

Went(h, new) ==
  /\ Uploading(h) /\ Goes(h, new)
  /\ UNCHANGED pending /\ listed' \subseteq listed \cup new.files

Ended(h) ==
  /\ Uploading(h) /\ listed' \subseteq Files
  /\ EndUpload(h, TRUE)

Effect ==
  \/ Reset \/ Same \/ Refused
  \/ \E h \in Handlers : \/ \E files \in SUBSET Files : Picked(h, files)
                         \/ \E new \in HandlerRecord : Began(h, new) \/ Went(h, new)
                         \/ Ended(h)

LEMMA StepEffect == ASSUME Typed, RunsApart, [Next]_vars PROVE Effect
<1>1. CASE UNCHANGED vars BY <1>1 DEF vars, pageVars, Effect, Same
<1>2. CASE OpenPage \/ LeavePage BY <1>2 DEF OpenPage, LeavePage, Fresh, Effect, Reset
<1>3. ASSUME NEW h \in Handlers, NEW files \in SUBSET Files, PickFiles(h, files) PROVE Effect
  BY <1>3 DEF PickFiles, Free, Effect, Picked, Refused
<1>4. CASE SendForm BY <1>4 DEF SendForm, Effect, Same
<1>5. CASE Tick BY <1>5 DEF Tick, pageVars, Effect, Same
<1>6. ASSUME NEW f \in Files, RemoveMedia(f) PROVE Effect BY <1>6 DEF RemoveMedia, Effect, Same
<1>7. CASE AcceptForm BY <1>7 DEF AcceptForm, Fresh, pageVars, Effect, Reset, Same
<1>8. CASE RefuseForm BY <1>8 DEF RefuseForm, Fresh, pageVars, Effect, Reset, Same
<1>9. ASSUME NEW h \in Handlers, HandlerStep(h) PROVE Effect
  <2>0. handler[h] \in HandlerRecord /\ handler[h].todo \subseteq handler[h].files
    BY DEF Typed, RunsApart
  <2>1. CASE BeginUpload(h)
    <3>1. [handler[h] EXCEPT !.pc = "prepare"] \in HandlerRecord
          /\ [handler[h] EXCEPT !.pc = "prepare"].files = handler[h].files
          /\ [handler[h] EXCEPT !.pc = "prepare"].todo = handler[h].todo
          /\ [handler[h] EXCEPT !.pc = "prepare"].pc = "prepare"
      BY <2>0 DEF HandlerRecord
    <3>2. Began(h, [handler[h] EXCEPT !.pc = "prepare"])
      BY <2>0, <2>1, <3>1 DEF BeginUpload, Began, Goes
    <3>. QED BY <3>1, <3>2 DEF Effect
  <2>2. CASE Prepare(h)
    <3>1. [handler[h] EXCEPT !.pc = "put"] \in HandlerRecord
          /\ [handler[h] EXCEPT !.pc = "put"].files = handler[h].files
          /\ [handler[h] EXCEPT !.pc = "put"].todo = handler[h].todo
          /\ [handler[h] EXCEPT !.pc = "put"].pc = "put"
      BY <2>0 DEF HandlerRecord
    <3>2. Went(h, [handler[h] EXCEPT !.pc = "put"])
      BY <2>0, <2>2, <3>1 DEF Prepare, Went, Goes, Uploading
    <3>. QED BY <3>1, <3>2 DEF Effect
  <2>3. CASE FailPrepare(h) \/ FailPut(h)
    BY <2>3 DEF FailPrepare, FailPut, Effect, Ended, EndUpload, Uploading, Typed
  <2>4. ASSUME NEW f \in Files, Put(h, f) PROVE Effect
    <3>1. listed' \subseteq Files /\ listed' = listed \cup {f} /\ f \in handler[h].todo
          /\ handler[h].pc = "put"
      BY <2>4 DEF Put, Typed
    <3>2. CASE handler[h].todo = {f}
      BY <2>4, <3>1, <3>2 DEF Put, Effect, Ended, Uploading
    <3>3. CASE handler[h].todo # {f}
      <4>1. handler' = [handler EXCEPT ![h] = [handler[h] EXCEPT !.todo = handler[h].todo \ {f}]]
            /\ UNCHANGED <<input, pending>>
        BY <2>4, <3>3 DEF Put
      <4>2. [handler[h] EXCEPT !.todo = handler[h].todo \ {f}] \in HandlerRecord
            /\ [handler[h] EXCEPT !.todo = handler[h].todo \ {f}].files = handler[h].files
            /\ [handler[h] EXCEPT !.todo = handler[h].todo \ {f}].todo \subseteq handler[h].todo
            /\ [handler[h] EXCEPT !.todo = handler[h].todo \ {f}].pc = handler[h].pc
        BY <2>0 DEF HandlerRecord
      <4>3. Went(h, [handler[h] EXCEPT !.todo = handler[h].todo \ {f}])
        BY <2>0, <3>1, <4>1, <4>2 DEF Went, Goes, Uploading
      <4>. QED BY <4>2, <4>3 DEF Effect
    <3>. QED BY <3>2, <3>3
  <2>. QED BY <1>9, <2>1, <2>2, <2>3, <2>4 DEF HandlerStep
<1>. QED BY <1>1, <1>2, <1>3, <1>4, <1>5, <1>6, <1>7, <1>8, <1>9 DEF Next

-----------------------------------------------------------------------------
(* The runs of the handler, the counter and the input.                     *)

LEMMA FinitePending == Typed => IsFiniteSet(Pending) /\ Cardinality(Pending) \in Nat
<1>. SUFFICES ASSUME Typed PROVE IsFiniteSet(Pending) /\ Cardinality(Pending) \in Nat
  OBVIOUS
<1>1. Pending \subseteq Files BY DEF Pending, Typed, HandlerRecord
<1>. QED BY <1>1, FilesTyped, FS_Subset, FS_CardinalityType

LEMMA FiniteFiles ==
  ASSUME NEW S \in SUBSET Files PROVE IsFiniteSet(S) /\ Cardinality(S) \in Nat
  BY FilesTyped, FS_Subset, FS_CardinalityType

(* Without a step of a run's own its record stays.                         *)
LEMMA OnlyOne ==
  ASSUME Typed, NEW h \in Handlers, NEW new, handler' = [handler EXCEPT ![h] = new]
  PROVE  handler'[h] = new /\ \A g \in Handlers \ {h} : handler'[g] = handler[g]
  BY DEF Typed

LEMMA StepRunsApart == ASSUME Typed, RunsApart, Effect PROVE RunsApart'
<1>1. CASE Reset BY <1>1 DEF Reset, RunsApart, Idle
<1>2. CASE Same \/ Refused BY <1>2 DEF Same, Refused, RunsApart
<1>3. ASSUME NEW h \in Handlers, NEW files \in SUBSET Files, Picked(h, files) PROVE RunsApart'
  <2>1. handler'[h] = [pc |-> "probe", files |-> files, todo |-> files]
        /\ \A g \in Handlers \ {h} : handler'[g] = handler[g]
    BY <1>3, OnlyOne DEF Picked
  <2>2. \A g \in Handlers : handler[g].files \cap files = {} BY <1>3 DEF Picked, Handled
  <2>3. files # {} BY <1>3 DEF Picked
  <2>. QED BY <2>1, <2>2, <2>3 DEF RunsApart
<1>4. ASSUME NEW h \in Handlers, NEW new \in HandlerRecord, Began(h, new) \/ Went(h, new)
      PROVE  RunsApart'
  <2>1. Goes(h, new) /\ handler[h].pc # "idle" BY <1>4 DEF Began, Went, Uploading
  <2>2. handler'[h] = new /\ \A g \in Handlers \ {h} : handler'[g] = handler[g]
    BY <2>1, OnlyOne DEF Goes
  <2>3. \A g \in Handlers : handler'[g].files = handler[g].files BY <2>1, <2>2 DEF Goes
  <2>. QED BY <2>1, <2>2, <2>3 DEF RunsApart, Goes
<1>5. ASSUME NEW h \in Handlers, Ended(h) PROVE RunsApart'
  <2>1. handler'[h] = Idle /\ \A g \in Handlers \ {h} : handler'[g] = handler[g]
    BY <1>5, OnlyOne DEF Ended, EndUpload
  <2>. QED BY <2>1 DEF RunsApart, Idle
<1>. QED BY <1>1, <1>2, <1>3, <1>4, <1>5 DEF Effect

(* What a run's step makes of the files that are being uploaded.           *)
LEMMA PendingOf ==
  ASSUME Typed, RunsApart, NEW h \in Handlers, NEW new, handler' = [handler EXCEPT ![h] = new]
  PROVE  Pending' = (Pending \ handler[h].files)
                      \cup (IF new.pc \in {"prepare", "put"} THEN new.files ELSE {})
<1>1. handler'[h] = new /\ \A g \in Handlers \ {h} : handler'[g] = handler[g] BY OnlyOne
<1>2. Pending \ handler[h].files
        = UNION {handler[g].files : g \in {k \in Handlers \ {h} : Uploading(k)}}
  BY DEF Pending, RunsApart
<1>3. Pending' = UNION {handler'[g].files : g \in {k \in Handlers : Uploading(k)'}}
  BY DEF Pending
<1>4. \A k \in Handlers \ {h} : Uploading(k)' <=> Uploading(k) BY <1>1 DEF Uploading
<1>5. Uploading(h)' <=> new.pc \in {"prepare", "put"} BY <1>1 DEF Uploading
<1>. QED BY <1>1, <1>2, <1>3, <1>4, <1>5

LEMMA StepCounted == ASSUME Typed, RunsApart, Counted, Effect PROVE Counted'
<1>1. CASE Reset
  <2>1. Pending' = {} BY <1>1 DEF Reset, Pending, Uploading, Idle
  <2>. QED BY <1>1, <2>1, FS_EmptySet DEF Reset, Counted
<1>2. CASE Same \/ Refused BY <1>2 DEF Same, Refused, Counted, Pending, Uploading
<1>3. ASSUME NEW h \in Handlers, NEW files \in SUBSET Files, Picked(h, files) PROVE Counted'
  <2>1. handler[h].files = {} BY <1>3 DEF Picked, RunsApart
  <2>2. Pending' = (Pending \ handler[h].files)
                     \cup (IF [pc |-> "probe", files |-> files, todo |-> files].pc \in {"prepare", "put"}
                            THEN [pc |-> "probe", files |-> files, todo |-> files].files ELSE {})
    BY <1>3, PendingOf DEF Picked
  <2>3. Pending' = Pending BY <2>1, <2>2
  <2>. QED BY <1>3, <2>3 DEF Picked, Counted
<1>4. ASSUME NEW h \in Handlers, NEW new \in HandlerRecord, Began(h, new) PROVE Counted'
  <2>0. Goes(h, new) BY <1>4 DEF Began
  <2>1. Pending' = (Pending \ handler[h].files) \cup handler[h].files
    BY <2>0, PendingOf DEF Goes
  <2>2. Pending \cap handler[h].files = {}
    BY <1>4 DEF Pending, RunsApart, Began, Uploading
  <2>3. handler[h].files \in SUBSET Files BY DEF Typed, HandlerRecord
  <2>4. Cardinality(Pending \cup handler[h].files)
          = Cardinality(Pending) + Cardinality(handler[h].files) - Cardinality({})
    BY <2>2, <2>3, FinitePending, FiniteFiles, FS_Union
  <2>5. Cardinality(Pending \cup handler[h].files)
          = Cardinality(Pending) + Cardinality(handler[h].files)
    BY <2>3, <2>4, FinitePending, FiniteFiles, FS_EmptySet
  <2>6. Pending' = Pending \cup handler[h].files BY <2>1
  <2>. QED BY <1>4, <2>5, <2>6 DEF Began, Counted
<1>5. ASSUME NEW h \in Handlers, NEW new \in HandlerRecord, Went(h, new) PROVE Counted'
  <2>1. Pending' = (Pending \ handler[h].files) \cup handler[h].files
    BY <1>5, PendingOf DEF Went, Goes
  <2>2. handler[h].files \subseteq Pending BY <1>5 DEF Went, Pending
  <2>3. Pending' = Pending BY <2>1, <2>2
  <2>. QED BY <1>5, <2>3 DEF Went, Counted
<1>6. ASSUME NEW h \in Handlers, Ended(h) PROVE Counted'
  <2>0. handler' = [handler EXCEPT ![h] = Idle] BY <1>6 DEF Ended, EndUpload
  <2>1. Pending' = Pending \ handler[h].files
    <3>1. Pending' = (Pending \ handler[h].files)
                       \cup (IF Idle.pc \in {"prepare", "put"} THEN Idle.files ELSE {})
      BY <2>0, PendingOf
    <3>. QED BY <3>1 DEF Idle
  <2>2. handler[h].files \subseteq Pending BY <1>6 DEF Ended, Pending
  <2>3. handler[h].files \in SUBSET Files BY DEF Typed, HandlerRecord
  <2>4. IsFiniteSet(Pending') /\ Cardinality(Pending') \in Nat
    BY <2>1, FinitePending, FS_Subset, FS_CardinalityType
  <2>5. Pending' \cup handler[h].files = Pending /\ Pending' \cap handler[h].files = {}
    BY <2>1, <2>2
  <2>6. Cardinality(Pending) = Cardinality(Pending') + Cardinality(handler[h].files) - Cardinality({})
    BY <2>3, <2>4, <2>5, FiniteFiles, FS_Union
  <2>7. Cardinality(Pending) = Cardinality(Pending') + Cardinality(handler[h].files)
        /\ Cardinality(handler[h].files) \in Nat
    BY <2>3, <2>4, <2>6, FiniteFiles, FS_EmptySet
  <2>8. pending' = pending - Cardinality(handler[h].files)
    BY <1>6, <2>4, <2>7 DEF Ended, EndUpload, Counted
  <2>9. Cardinality(Pending') = Cardinality(Pending)' OBVIOUS
  <2>. QED BY <2>4, <2>7, <2>8, <2>9, FinitePending DEF Counted
<1>. QED BY <1>1, <1>2, <1>3, <1>4, <1>5, <1>6 DEF Effect

LEMMA StepInputFits == ASSUME Typed, RunsApart, InputFits, Effect PROVE InputFits'
<1>1. CASE Reset \/ Refused \/ \E h \in Handlers : Ended(h)
  BY <1>1 DEF Reset, Refused, Ended, EndUpload, InputFits
<1>2. CASE Same BY <1>2 DEF Same, InputFits, Pending, Uploading
<1>3. ASSUME NEW h \in Handlers, NEW files \in SUBSET Files, Picked(h, files) PROVE InputFits'
  <2>1. handler'[h].pc # "idle" /\ handler'[h].files = input'
    <3>1. handler'[h] = [pc |-> "probe", files |-> files, todo |-> files] BY <1>3, OnlyOne DEF Picked
    <3>. QED BY <1>3, <3>1 DEF Picked
  <2>2. listed' \cap input' = {} BY <1>3 DEF Picked
  <2>. QED BY <2>1, <2>2 DEF InputFits
<1>4. ASSUME NEW h \in Handlers, NEW new \in HandlerRecord, Began(h, new) \/ Went(h, new)
      PROVE  InputFits'
  <2>1. Goes(h, new) /\ handler[h].pc # "idle" BY <1>4 DEF Began, Went, Uploading
  <2>2. handler'[h] = new /\ \A g \in Handlers \ {h} : handler'[g] = handler[g]
    BY <2>1, OnlyOne DEF Goes
  <2>3. ASSUME input' # {} PROVE \E g \in Handlers : handler'[g].pc # "idle" /\ handler'[g].files = input'
    BY <2>1, <2>2, <2>3 DEF InputFits, Goes
  <2>4. Pending' = (Pending \ handler[h].files) \cup handler[h].files
    BY <2>1, PendingOf DEF Goes
  <2>5. listed' \subseteq listed \cup handler[h].files BY <1>4 DEF Began, Went, Goes
  <2>6. input' = input BY <2>1 DEF Goes
  <2>. QED BY <2>3, <2>4, <2>5, <2>6 DEF InputFits
<1>. QED BY <1>1, <1>2, <1>3, <1>4 DEF Effect

-----------------------------------------------------------------------------
(* Types, step by step for the page and the server, by the effect for the  *)
(* runs of the handler.                                                    *)

LEMMA EffectTyped ==
  ASSUME Typed, RunsApart, Counted, Effect, Counted'
  PROVE  /\ handler' \in [Handlers -> HandlerRecord] /\ input' \subseteq Files
         /\ listed' \subseteq Files /\ pending' \in Nat
<1>1. CASE Reset
  <2>1. Idle \in HandlerRecord BY DEF Idle, HandlerRecord
  <2>. QED BY <1>1, <2>1 DEF Reset
<1>2. CASE Same \/ Refused BY <1>2 DEF Same, Refused, Typed
<1>3. ASSUME NEW h \in Handlers, NEW files \in SUBSET Files, Picked(h, files)
      PROVE  /\ handler' \in [Handlers -> HandlerRecord] /\ input' \subseteq Files
             /\ listed' \subseteq Files /\ pending' \in Nat
  <2>1. [pc |-> "probe", files |-> files, todo |-> files] \in HandlerRecord BY DEF HandlerRecord
  <2>. QED BY <1>3, <2>1 DEF Picked, Typed
<1>4. ASSUME NEW h \in Handlers, NEW new \in HandlerRecord, Began(h, new) \/ Went(h, new)
      PROVE  /\ handler' \in [Handlers -> HandlerRecord] /\ input' \subseteq Files
             /\ listed' \subseteq Files /\ pending' \in Nat
  <2>1. handler[h].files \in SUBSET Files BY DEF Typed, HandlerRecord
  <2>2. Cardinality(handler[h].files) \in Nat BY <2>1, FiniteFiles
  <2>. QED BY <1>4, <2>1, <2>2 DEF Began, Went, Goes, Typed
<1>5. ASSUME NEW h \in Handlers, Ended(h)
      PROVE  /\ handler' \in [Handlers -> HandlerRecord] /\ input' \subseteq Files
             /\ listed' \subseteq Files /\ pending' \in Nat
  <2>1. Idle \in HandlerRecord BY DEF Idle, HandlerRecord
  <2>2. handler[h].files \in SUBSET Files BY DEF Typed, HandlerRecord
  <2>3. Cardinality(handler[h].files) \in Nat BY <2>2, FiniteFiles
  <2>. QED BY <1>5, <2>1, <2>3 DEF Ended, EndUpload, Typed
<1>. QED BY <1>1, <1>2, <1>3, <1>4, <1>5 DEF Effect

LEMMA StepTyped == ASSUME Typed, RunsApart, Counted, [Next]_vars PROVE Typed'
<1>1. Effect BY StepEffect
<1>2. /\ handler' \in [Handlers -> HandlerRecord] /\ input' \subseteq Files
      /\ listed' \subseteq Files /\ pending' \in Nat
  BY <1>1, StepCounted, EffectTyped
<1>3. TicketLife \in Nat BY LimitsTyped
<1>4. ASSUME page' \in {"open", "sent", "closed"}, shown' \subseteq Files, removed' \subseteq Files,
             form' \in FormRecord, ticket' \in [Files -> 0 .. TicketLife + 1],
             blob' \subseteq Files, media' \subseteq Files
      PROVE  Typed'
  BY <1>2, <1>4 DEF Typed
<1>5. CASE UNCHANGED vars BY <1>4, <1>5 DEF vars, pageVars, Typed
<1>6. CASE OpenPage BY <1>4, <1>6 DEF OpenPage, Fresh, Typed
<1>7. CASE LeavePage BY <1>3, <1>4, <1>7 DEF LeavePage, Fresh, Forget, Typed
<1>8. ASSUME NEW h \in Handlers, NEW files \in SUBSET Files, PickFiles(h, files) PROVE Typed'
  BY <1>4, <1>8 DEF PickFiles, Typed
<1>9. ASSUME NEW h \in Handlers, HandlerStep(h) PROVE Typed'
  <2>1. CASE BeginUpload(h) BY <1>4, <2>1 DEF BeginUpload, Typed
  <2>2. CASE Prepare(h)
    <3>1. /\ UNCHANGED <<page, shown, removed, form, media>> /\ blob' = blob \ handler[h].files
          /\ ticket' = [f \in Files |-> IF f \in handler[h].files THEN 0 ELSE ticket[f]]
      BY <2>2 DEF Prepare
    <3>2. ticket' \in [Files -> 0 .. TicketLife + 1] BY <1>3, <3>1 DEF Typed
    <3>. QED BY <1>4, <3>1, <3>2 DEF Typed
  <2>3. CASE FailPrepare(h) BY <1>4, <2>3 DEF FailPrepare, Typed
  <2>4. CASE FailPut(h) BY <1>4, <2>4 DEF FailPut, Typed
  <2>5. ASSUME NEW f \in Files, Put(h, f) PROVE Typed' BY <1>4, <2>5 DEF Put, Typed
  <2>. QED BY <1>9, <2>1, <2>2, <2>3, <2>4, <2>5 DEF HandlerStep
<1>10. ASSUME NEW f \in Files, RemoveMedia(f) PROVE Typed'
  BY <1>4, <1>10 DEF RemoveMedia, Typed
<1>11. CASE SendForm
  <2>1. form' \in FormRecord BY <1>11 DEF SendForm, FormRecord, Typed
  <2>. QED BY <1>4, <1>11, <2>1 DEF SendForm, Typed
<1>12. NoForm \in FormRecord BY DEF NoForm, FormRecord
<1>13. CASE AcceptForm
  <2>1. form.manifest \subseteq Files /\ form.direct \subseteq Files BY DEF Typed, FormRecord
  <2>2. page' \in {"open", "sent", "closed"} /\ shown' \subseteq Files /\ removed' \subseteq Files
    BY <1>13 DEF AcceptForm, Fresh, pageVars, Typed
  <2>. QED BY <1>4, <1>12, <1>13, <2>1, <2>2 DEF AcceptForm, Retained, Typed
<1>14. CASE RefuseForm
  BY <1>3, <1>4, <1>12, <1>14 DEF RefuseForm, Fresh, Forget, pageVars, Typed
<1>15. CASE Tick
  <2>1. ticket' \in [Files -> 0 .. TicketLife + 1] BY <1>3, <1>15 DEF Tick, Typed
  <2>. QED BY <1>4, <1>15, <2>1 DEF Tick, pageVars, Typed
<1>. QED BY <1>5, <1>6, <1>7, <1>8, <1>9, <1>10, <1>11, <1>13, <1>14, <1>15 DEF Next

-----------------------------------------------------------------------------
(* The form and the rows.                                                  *)

(* But for a pick, a run only ever lets go of files.                       *)
LEMMA HandledShrinks ==
  ASSUME Typed, Effect, NEW f \in Files, Handled(f)',
         \A h \in Handlers : \A files \in SUBSET Files : ~Picked(h, files)
  PROVE  Handled(f)
<1>1. CASE Reset BY <1>1 DEF Reset, Handled, Idle
<1>2. CASE Same \/ Refused BY <1>2 DEF Same, Refused, Handled
<1>3. ASSUME NEW h \in Handlers, NEW new \in HandlerRecord, Began(h, new) \/ Went(h, new)
      PROVE  Handled(f)
  <2>1. Goes(h, new) BY <1>3 DEF Began, Went
  <2>2. \A g \in Handlers : handler'[g].files = handler[g].files
    BY <2>1, OnlyOne DEF Goes
  <2>. QED BY <2>2 DEF Handled
<1>4. ASSUME NEW h \in Handlers, Ended(h) PROVE Handled(f)
  <2>1. handler'[h] = Idle /\ \A g \in Handlers \ {h} : handler'[g] = handler[g]
    BY <1>4, OnlyOne DEF Ended, EndUpload
  <2>. QED BY <2>1 DEF Handled, Idle
<1>. QED BY <1>1, <1>2, <1>3, <1>4 DEF Effect

LEMMA ResetHandlesNothing == ASSUME Reset, NEW f PROVE ~Handled(f)'
  BY DEF Reset, Handled, Idle

LEMMA StepFormApart == ASSUME Typed, RunsApart, FormApart, [Next]_vars PROVE FormApart'
<1>1. Effect BY StepEffect
<1>2. ASSUME Reset, form'.pc = "none" => form' = NoForm, page' = "sent" => form'.pc = "sent"
      PROVE  FormApart'
  BY <1>2, ResetHandlesNothing DEF FormApart
<1>3. ASSUME NEW h \in Handlers, NEW files \in SUBSET Files, Picked(h, files),
             UNCHANGED <<page, form, media>>, \A f \in files : Free(f)
      PROVE  FormApart'
  <2>1. handler'[h] = [pc |-> "probe", files |-> files, todo |-> files]
        /\ \A g \in Handlers \ {h} : handler'[g] = handler[g]
    BY <1>3, OnlyOne DEF Picked
  <2>2. \A f \in Files : Handled(f)' => Handled(f) \/ f \in files BY <2>1 DEF Handled
  <2>. QED BY <1>3, <2>2 DEF FormApart, Free, InForm
<1>4. ASSUME UNCHANGED handler PROVE \A f : Handled(f)' <=> Handled(f) BY <1>4 DEF Handled
<1>5. ASSUME \A f \in Files : Handled(f)' => Handled(f), UNCHANGED <<page, form, media>>
      PROVE  FormApart'
  BY <1>5 DEF FormApart, InForm
<1>6. CASE UNCHANGED vars BY <1>4, <1>5, <1>6 DEF vars, pageVars
<1>7. CASE OpenPage \/ LeavePage
  BY <1>2, <1>7 DEF OpenPage, LeavePage, Fresh, Reset, FormApart
<1>8. ASSUME NEW h \in Handlers, NEW files \in SUBSET Files, PickFiles(h, files) PROVE FormApart'
  <2>1. CASE UNCHANGED handler BY <1>4, <1>5, <1>8, <2>1 DEF PickFiles
  <2>2. CASE handler' # handler
    <3>1. Picked(h, files) BY <1>8, <2>2 DEF PickFiles, Free, Picked
    <3>. QED BY <1>3, <1>8, <3>1 DEF PickFiles
  <2>. QED BY <2>1, <2>2
<1>9. ASSUME NEW h \in Handlers, HandlerStep(h) PROVE FormApart'
  <2>1. handler[h].pc # "idle" /\ handler'[h].pc # "probe"
        /\ \A g \in Handlers \ {h} : handler'[g] = handler[g]
    BY <1>9 DEF HandlerStep, BeginUpload, Prepare, FailPrepare, FailPut, Put, EndUpload, Idle,
                Typed, HandlerRecord
  <2>2. ASSUME NEW g \in Handlers, NEW files \in SUBSET Files PROVE ~Picked(g, files)
    <3>. SUFFICES ASSUME Picked(g, files) PROVE FALSE OBVIOUS
    <3>1. handler'[g] = [pc |-> "probe", files |-> files, todo |-> files] BY OnlyOne DEF Picked
    <3>2. handler'[g].pc = "probe" /\ handler[g].pc = "idle" BY <3>1 DEF Picked
    <3>. QED BY <2>1, <3>2
  <2>3. \A f \in Files : Handled(f)' => Handled(f) BY <1>1, <2>2, HandledShrinks
  <2>. QED BY <1>5, <1>9, <2>3
           DEF HandlerStep, BeginUpload, Prepare, FailPrepare, FailPut, Put
<1>10. ASSUME NEW f \in Files, RemoveMedia(f) PROVE FormApart'
  BY <1>4, <1>5, <1>10 DEF RemoveMedia
<1>11. CASE SendForm
  <2>1. form'.pc = "sent" /\ page' = "sent" /\ media' = media /\ handler' = handler
    BY <1>11 DEF SendForm
  <2>. QED BY <1>4, <2>1 DEF FormApart
<1>12. CASE AcceptForm
  <2>1. CASE page = "sent"
    BY <1>2, <1>12, <2>1 DEF AcceptForm, Fresh, Reset
  <2>2. CASE page # "sent"
    <3>1. UNCHANGED pageVars /\ form' = NoForm
          /\ media' = Retained \cup form.manifest \cup form.direct
      BY <1>12, <2>2 DEF AcceptForm
    <3>2. ASSUME NEW f \in Files, Handled(f)' PROVE f \notin media' /\ ~InForm(f)'
      <4>1. Handled(f) BY <1>4, <3>1, <3>2 DEF pageVars
      <4>2. f \notin media /\ ~InForm(f) BY <2>2, <4>1 DEF FormApart
      <4>. QED BY <3>1, <4>2 DEF InForm, Retained, NoForm
    <3>. QED BY <2>2, <3>1, <3>2 DEF FormApart, pageVars
  <2>. QED BY <2>1, <2>2
<1>13. CASE RefuseForm
  <2>1. CASE page = "sent"
    BY <1>2, <1>13, <2>1 DEF RefuseForm, Fresh, Reset
  <2>2. CASE page # "sent"
    <3>1. UNCHANGED pageVars /\ form' = NoForm /\ UNCHANGED media
      BY <1>13, <2>2 DEF RefuseForm
    <3>2. ASSUME NEW f \in Files, Handled(f)' PROVE f \notin media' /\ ~InForm(f)'
      <4>1. Handled(f) BY <1>4, <3>1, <3>2 DEF pageVars
      <4>. QED BY <3>1, <4>1 DEF FormApart, InForm, NoForm
    <3>. QED BY <2>2, <3>1, <3>2 DEF FormApart, pageVars
  <2>. QED BY <2>1, <2>2
<1>14. CASE Tick BY <1>4, <1>5, <1>14 DEF Tick, pageVars
<1>. QED BY <1>6, <1>7, <1>8, <1>9, <1>10, <1>11, <1>12, <1>13, <1>14 DEF Next

LEMMA StepTicketsValid == ASSUME Typed, TicketsValid, [Next]_vars PROVE TicketsValid'
<1>1. TicketLife \in Nat BY LimitsTyped
<1>2. CASE UNCHANGED ticket BY <1>2 DEF TicketsValid
<1>3. ASSUME NEW used, Forget(used) PROVE TicketsValid'
  BY <1>1, <1>3 DEF Forget, TicketsValid, Typed
<1>4. ASSUME NEW h \in Handlers, Prepare(h) PROVE TicketsValid'
  BY <1>4 DEF Prepare, DescriptorsValid, TicketsValid, Typed
<1>5. CASE Tick BY <1>1, <1>5 DEF Tick, TicketsValid, Typed
<1>. QED BY <1>2, <1>3, <1>4, <1>5
         DEF Next, vars, OpenPage, LeavePage, PickFiles, HandlerStep, BeginUpload, FailPrepare,
             FailPut, Put, RemoveMedia, SendForm, AcceptForm, RefuseForm

LEMMA CardinalityOfUnion ==
  ASSUME NEW S \in SUBSET Files, NEW T \in SUBSET Files
  PROVE  Cardinality(S \cup T) <= Cardinality(S) + Cardinality(T)
<1>1. IsFiniteSet(S) /\ IsFiniteSet(T) BY FiniteFiles
<1>2. Cardinality(S \cup T) = Cardinality(S) + Cardinality(T) - Cardinality(S \cap T)
  BY <1>1, FS_Union
<1>3. S \cap T \in SUBSET Files OBVIOUS
<1>4. Cardinality(S) \in Nat /\ Cardinality(T) \in Nat /\ Cardinality(S \cap T) \in Nat
  BY <1>3, FiniteFiles
<1>. QED BY <1>2, <1>4

LEMMA StepMediaWithinLimit ==
  ASSUME Typed, FormApart, TicketsValid, MediaWithinLimit, [Next]_vars
  PROVE  MediaWithinLimit'
<1>1. ASSUME UNCHANGED media, media \subseteq blob' PROVE MediaWithinLimit'
  BY <1>1 DEF MediaWithinLimit
<1>2. CASE UNCHANGED <<media, blob>> BY <1>1, <1>2 DEF MediaWithinLimit
<1>3. ASSUME NEW used, Forget(used), UNCHANGED media PROVE MediaWithinLimit'
  BY <1>1, <1>3 DEF Forget, MediaWithinLimit
<1>4. ASSUME NEW h \in Handlers, Prepare(h) PROVE MediaWithinLimit'
  <2>1. \A f \in media : f \notin handler[h].files BY DEF FormApart, Handled, Typed
  <2>. QED BY <1>1, <1>4, <2>1 DEF Prepare, MediaWithinLimit
<1>5. ASSUME NEW h \in Handlers, NEW f \in Files, Put(h, f) PROVE MediaWithinLimit'
  BY <1>1, <1>5 DEF Put, MediaWithinLimit
<1>6. CASE AcceptForm
  <2>1. /\ form.manifest \subseteq Files /\ form.direct \subseteq Files /\ Retained \subseteq Files
        /\ MaxMedia \in Nat
    BY LimitsTyped DEF Typed, FormRecord, Retained
  <2>2. media' \subseteq Valid \cap blob'
    BY <1>6, <2>1 DEF AcceptForm, FormFits, Uploaded, FilesValid, TicketsValid, Retained,
                      MediaWithinLimit
  <2>3. Cardinality(Retained \cup form.manifest) <= Cardinality(Retained) + Cardinality(form.manifest)
    BY <2>1, CardinalityOfUnion
  <2>4. Retained \cup form.manifest \subseteq Files /\ media' = (Retained \cup form.manifest) \cup form.direct
    BY <1>6, <2>1 DEF AcceptForm
  <2>5. Cardinality(media')
          <= Cardinality(Retained \cup form.manifest) + Cardinality(form.direct)
    BY <2>1, <2>4, CardinalityOfUnion
  <2>6. Cardinality(Retained) + Cardinality(form.direct) + Cardinality(form.manifest) <= MaxMedia
    BY <1>6 DEF AcceptForm, FormFits
  <2>7. /\ Cardinality(Retained) \in Nat /\ Cardinality(form.manifest) \in Nat
        /\ Cardinality(form.direct) \in Nat /\ Cardinality(Retained \cup form.manifest) \in Nat
        /\ Cardinality(media') \in Nat
    BY <2>1, <2>4, FiniteFiles
  <2>8. Cardinality(media') <= MaxMedia BY <2>1, <2>3, <2>5, <2>6, <2>7
  <2>9. Cardinality(media)' = Cardinality(media') OBVIOUS
  <2>. QED BY <2>2, <2>8, <2>9 DEF MediaWithinLimit
<1>. QED BY <1>2, <1>3, <1>4, <1>5, <1>6
         DEF Next, vars, OpenPage, LeavePage, PickFiles, HandlerStep, BeginUpload, FailPrepare,
             FailPut, RemoveMedia, SendForm, RefuseForm, Tick

-----------------------------------------------------------------------------
(* The theorems.                                                           *)

LEMMA InitIInv == Init => IInv
<1>. SUFFICES ASSUME Init PROVE IInv OBVIOUS
<1>1. TicketLife \in Nat /\ MaxMedia \in Nat BY LimitsTyped
<1>2. Idle \in HandlerRecord /\ NoForm \in FormRecord
  BY DEF Idle, NoForm, HandlerRecord, FormRecord
<1>3. \A h \in Handlers : handler[h] = Idle BY DEF Init
<1>4. \A h \in Handlers : handler[h].pc = "idle" /\ handler[h].files = {} /\ handler[h].todo = {}
  BY <1>3 DEF Idle
<1>5. Typed BY <1>1, <1>2 DEF Init, Typed
<1>6. RunsApart BY <1>4 DEF RunsApart
<1>7. Pending = {} BY <1>4 DEF Pending
<1>8. Counted BY <1>7, FS_EmptySet DEF Init, Counted
<1>9. InputFits BY DEF Init, InputFits
<1>10. FormApart BY <1>4 DEF Init, FormApart, Handled
<1>11. TicketsValid BY <1>1 DEF Init, TicketsValid
<1>12. MediaWithinLimit BY <1>1, FS_EmptySet DEF Init, MediaWithinLimit
<1>. QED BY <1>5, <1>6, <1>8, <1>9, <1>10, <1>11, <1>12 DEF IInv

LEMMA StepIInv == IInv /\ [Next]_vars => IInv'
<1>. SUFFICES ASSUME IInv, [Next]_vars PROVE IInv' OBVIOUS
<1>1. Typed /\ RunsApart /\ Counted /\ InputFits /\ FormApart /\ TicketsValid /\ MediaWithinLimit
  BY DEF IInv
<1>2. Effect BY <1>1, StepEffect
<1>3. RunsApart' /\ Counted' /\ InputFits'
  BY <1>1, <1>2, StepRunsApart, StepCounted, StepInputFits
<1>4. Typed' BY <1>1, StepTyped
<1>5. FormApart' BY <1>1, StepFormApart
<1>6. TicketsValid' /\ MediaWithinLimit' BY <1>1, StepTicketsValid, StepMediaWithinLimit
<1>. QED BY <1>3, <1>4, <1>5, <1>6 DEF IInv

LEMMA Inductive == Spec => []IInv
  BY InitIInv, StepIInv, PTL DEF Spec

(* The variables keep their types, and however runs of the change handler  *)
(* overlap, fail or are left behind with the page, the counter that        *)
(* disables the submit buttons is the number of files they are uploading.  *)
THEOREM PendingIsExact == Spec => []TypeOK
<1>1. IInv => TypeOK
  BY DEF IInv, Typed, Counted, Pending, TypeOK, HandlerRecord, FormRecord
<1>. QED BY <1>1, Inductive, PTL

(* Whatever is removed, uploaded and sent in whichever order, a submission *)
(* has no more media than the limit, all of them valid and in the storage. *)
THEOREM MediaStayWithinLimit == Spec => []MediaWithinLimit
<1>1. IInv => MediaWithinLimit BY DEF IInv
<1>. QED BY <1>1, Inductive, PTL

(* A form is sent only when no upload is half way, has no file twice, and  *)
(* the files in the input are those of one pick still being looked at.     *)
THEOREM FormsAreComplete == Spec => FormIsComplete
<1> DEFINE Complete ==
      page # "sent" /\ page' = "sent" =>
        /\ \A h \in Handlers : ~Uploading(h)
        /\ form'.manifest \cap form'.direct = {}
        /\ form'.direct # {} =>
             \E h \in Handlers : handler[h].pc = "probe" /\ handler[h].files = form'.direct
<1>1. ASSUME IInv, [Next]_vars PROVE [Complete]_vars
  <2>. SUFFICES ASSUME page # "sent", page' = "sent" PROVE Complete OBVIOUS
  <2>1. SendForm
    BY <1>1 DEF Next, vars, pageVars, OpenPage, LeavePage, Fresh, PickFiles, HandlerStep,
                BeginUpload, Prepare, FailPrepare, FailPut, Put, RemoveMedia, AcceptForm,
                RefuseForm, Tick
  <2>2. Typed /\ RunsApart /\ Counted /\ InputFits BY <1>1 DEF IInv
  <2>3. Cardinality(Pending) = 0 BY <2>1, <2>2 DEF SendForm, Counted
  <2>4. Pending = {} BY <2>2, <2>3, FinitePending, FS_EmptySet
  <2>5. \A h \in Handlers : ~Uploading(h)
    BY <2>2, <2>4 DEF RunsApart, Pending, Uploading
  <2>6. form'.manifest = listed /\ form'.direct = input BY <2>1 DEF SendForm
  <2>7. listed \subseteq Files /\ listed \cap input = {} BY <2>2, <2>4 DEF InputFits, Typed
  <2>8. ASSUME input # {}
        PROVE  \E h \in Handlers : handler[h].pc = "probe" /\ handler[h].files = input
    <3>1. PICK h \in Handlers : handler[h].pc # "idle" /\ handler[h].files = input
      BY <2>2, <2>8 DEF InputFits
    <3>2. handler[h].pc \in {"idle", "probe", "prepare", "put"}
      BY <2>2 DEF Typed, HandlerRecord
    <3>. QED BY <2>5, <3>1, <3>2 DEF Uploading
  <2>. QED BY <2>5, <2>6, <2>7, <2>8
<1>. QED BY <1>1, Inductive, PTL DEF Spec, FormIsComplete
=============================================================================
