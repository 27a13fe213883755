------------------------- MODULE GpuResidencyProofs -------------------------
(***************************************************************************)
(* Proofs about GpuResidency for any text models, any units that fail,     *)
(* hang, crash or are late, and any faults; that at most one heavy model   *)
(* stays, for any faults but the restart of the model manager; that the    *)
(* model that answers is the active one, if no manager restarts; and that  *)
(* units never overlap, where text models start when they are told.        *)
(***************************************************************************)
EXTENDS GpuResidency, SequenceTheorems, TLAPS

UnitStates == {"off", "loading", "ready", "stopping", "retrying"}
MgrRecord == [at : MgrSteps, op : {"none", "switch", "restore", "ocr", "boot"},
              plan : {"serve", "bootFallback", "rollback", "again"},
              target : Texts, default : Texts]

-----------------------------------------------------------------------------
(* The inductive invariant, whatever the faults.                           *)

(* Every unit but one is off or on its way out, and will not be started    *)
(* again by systemd.                                                       *)
AtMostOne == \A u, v \in Units : Stays(u) /\ Stays(v) => u = v

(* A restore or a boot of graphics that has not ended has something to try.*)
TriesLeft == gfx.at \in {"start", "wait"} => gfx.tries # <<>>

(* Which operation each step of the model manager belongs to.              *)
ManagerShape ==
  /\ mgr.at \in {"idle", "down"} => mgr.op = "none"
  /\ mgr.at \in {"ocrStop", "ocrStart", "ocrWait", "ocrRead"} =>
       mgr.op = "ocr" /\ mgr.plan = "serve"
  /\ mgr.at \in {"stop", "start", "wait"} => mgr.op # "none"

(* Operations hold the flock, except for a boot, and so does a graphics    *)
(* session until its release ends.                                         *)
LockHeld ==
  /\ mgr.op \in {"switch", "restore", "ocr"} => gpuLock = "manager"
  /\ gfx.at \in {"inference", "stop", "construct", "warm"} => gpuLock = "graphics"

(* OCR is up only from the step that starts it to the one that stops it,   *)
(* or after the manager died in between.                                   *)
OcrWhere ==
  unit[Ocr] # "off" =>
    \/ mgr.op = "ocr" /\ mgr.plan = "serve" /\ mgr.at \in {"ocrWait", "ocrRead", "stop"}
    \/ mgr.at = "down"

Core == AtMostOne /\ ManagerShape /\ LockHeld /\ OcrWhere

IInv == TypeOK /\ TriesLeft /\ Core

-----------------------------------------------------------------------------
(* What holds besides when the model manager is never restarted.           *)

NoRestart == "manager restart" \notin Faults

ManagerStaysUp == mgr.at # "down" /\ mgr.op # "boot"

(* From the stop of the text models to the release nothing else is there.  *)
GraphicsAlone ==
  /\ gfx.at \in {"construct", "warm"} => \A u \in Units : unit[u] = "off"
  /\ pipeline => gfx.at = "warm"

RInv == IInv /\ ManagerStaysUp /\ GraphicsAlone
-----------------------------------------------------------------------------
(* What starting and stopping units does.                                  *)

(* A unit that is started, well or badly, is the only one that stays, and  *)
(* starting it brings no other up.                                         *)
LEMMA Starting ==
  ASSUME TypeOK, NEW u \in Units, NEW outcome \in {"ok", "refused", "late"}
  PROVE  /\ AfterStart(u, outcome) \in [Units -> UnitStates]
         /\ AfterStart(u, outcome)[u] \notin {"off", "stopping"}
         /\ \A v \in Units \ {u} :
              /\ AfterStart(u, outcome)[v] \in {"off", "stopping"}
              /\ unit[v] = "off" => AfterStart(u, outcome)[v] = "off"
BY DEF AfterStart, Displaced, Up, TypeOK, UnitStates

(* How a start may end.                                                    *)
LEMMA OutcomeIsKnown ==
  ASSUME NEW u \in Units
  PROVE  Outcomes(u) \subseteq {"ok", "refused", "late"}
BY DEF Outcomes

(* Stopping turns some units off and leaves the others as they are.        *)
LEMMA Stopping ==
  ASSUME TypeOK, NEW us
  PROVE  /\ Stopped(us) \in [Units -> UnitStates]
         /\ \A u \in Units : Stopped(us)[u] = IF u \in us THEN "off" ELSE unit[u]
BY DEF Stopped, TypeOK, UnitStates

-----------------------------------------------------------------------------
(* Types, and the tries that are left.                                     *)

(* The idle manager has the type of a manager.                             *)
LEMMA IdleIsTyped == Idle \in MgrRecord /\ [Idle EXCEPT !.at = "down"] \in MgrRecord
BY UnitsAssumption DEF Idle, MgrRecord, MgrSteps

(* A graphics manager with nothing to try, and with tries.                 *)
LEMMA TriesAreTyped ==
  ASSUME NEW at \in GfxSteps, NEW tries \in Seq(Texts)
  PROVE  /\ [at |-> at, tries |-> tries] \in [at : GfxSteps, tries : Seq(Texts)]
         /\ [at |-> at, tries |-> <<>>] \in [at : GfxSteps, tries : Seq(Texts)]
<1>1. <<>> \in Seq(Texts)
  OBVIOUS
<1>2. QED
  BY <1>1

(* The steps of the units.                                                 *)
LEMMA UnitTypes ==
  ASSUME TypeOK, TriesLeft, NEW u \in Units, Loads(u) \/ Stops(u) \/ Retries(u) \/ Crashes(u)
  PROVE  TypeOK' /\ TriesLeft'
<1>1. unit' \in [Units -> UnitStates]
  <2>1. CASE Loads(u) BY <2>1 DEF Loads, TypeOK, UnitStates
  <2>2. CASE Retries(u) BY <2>2, Starting DEF Retries
  <2>3. CASE Crashes(u) BY <2>3 DEF Crashes, TypeOK, UnitStates
  <2>4. CASE Stops(u) BY <2>4 DEF Stops, TypeOK, UnitStates
  <2>5. QED BY <2>1, <2>2, <2>3, <2>4
<1>2. UNCHANGED <<pipeline, gpuLock, file, mgr, gfx, previous>>
  BY DEF Loads, Stops, Retries, Crashes
<1>3. QED
  BY <1>1, <1>2 DEF TypeOK, TriesLeft, UnitStates

(* The operations that the model manager begins.                           *)
LEMMA BeginTypes ==
  ASSUME TypeOK, TriesLeft,
         NEW at \in {"stop", "ocrStop"}, NEW op \in {"switch", "restore", "ocr"},
         NEW target \in Texts, NEW default \in Texts,
         Begin(at, op, target, default)
  PROVE  TypeOK' /\ TriesLeft'
<1>1. mgr' \in MgrRecord
  BY DEF Begin, MgrRecord, MgrSteps
<1>2. QED
  BY <1>1 DEF Begin, TypeOK, TriesLeft, MgrRecord

(* A switch, an administrator's or the portal's own.                       *)
LEMMA SwitchTypes ==
  ASSUME TypeOK, TriesLeft, NEW target \in Texts, NEW makeDefault \in BOOLEAN,
         Switches(target, makeDefault)
  PROVE  TypeOK' /\ TriesLeft'
<1>1. Chosen(target, makeDefault) \in Texts
  BY DEF Chosen, TypeOK
<1>2. CASE Begin("stop", "switch", target, Chosen(target, makeDefault))
  BY <1>1, <1>2, BeginTypes
<1>3. CASE /\ file' = [file EXCEPT !.default = Chosen(target, makeDefault)]
           /\ UNCHANGED <<unit, pipeline, gpuLock, mgr, gfx, previous>>
  BY <1>1, <1>3 DEF TypeOK, TriesLeft
<1>4. QED
  BY <1>2, <1>3 DEF Switches

(* The end of an operation of the model manager.                           *)
LEMMA EndsTypes ==
  ASSUME TypeOK, NEW served \in BOOLEAN, Ends(served)
  PROVE  mgr' \in MgrRecord /\ gpuLock' \in {"free", "manager", "graphics"}
BY IdleIsTyped DEF Ends, TypeOK

(* The roll-back of a switch, a restore or a boot.                         *)
LEMMA RollsBackTypes ==
  ASSUME TypeOK, NEW plan \in {"rollback", "again"}, RollsBack(plan)
  PROVE  mgr' \in MgrRecord /\ gpuLock' \in {"free", "manager", "graphics"}
BY UnitsAssumption DEF RollsBack, TypeOK, MgrRecord, MgrSteps

(* What the model manager does when its target is not served.              *)
LEMMA NotServedTypes ==
  ASSUME TypeOK, NotServedNext
  PROVE  mgr' \in MgrRecord /\ gpuLock' \in {"free", "manager", "graphics"}
<1>1. CASE RollsBack("rollback")
  BY <1>1, RollsBackTypes
<1>2. CASE mgr' = NextCandidate /\ UNCHANGED gpuLock
  BY <1>2, UnitsAssumption DEF NextCandidate, TypeOK, MgrRecord, MgrSteps
<1>3. CASE Ends(FALSE)
  BY <1>3, EndsTypes
<1>4. QED
  BY <1>1, <1>2, <1>3 DEF NotServedNext

(* The start of the target.                                                *)
LEMMA StartTargetTypes ==
  ASSUME TypeOK, StartTarget
  PROVE  TypeOK'
<1>1. mgr.target \in Units
  BY DEF TypeOK, Units
<1>2. PICK outcome \in Outcomes(mgr.target) :
        /\ unit' = AfterStart(mgr.target, outcome)
        /\ IF ~Raises(outcome)
           THEN mgr' = [mgr EXCEPT !.at = "wait"] /\ UNCHANGED gpuLock
           ELSE IF mgr.op = "switch" /\ mgr.plan # "again" THEN RollsBack("again")
                                                          ELSE Ends(FALSE)
  BY DEF StartTarget
<1>3. unit' \in [Units -> UnitStates]
  BY <1>1, <1>2, OutcomeIsKnown, Starting
<1>4. CASE mgr' = [mgr EXCEPT !.at = "wait"] /\ UNCHANGED gpuLock
  <2>1. mgr' \in MgrRecord
    BY <1>4 DEF TypeOK, MgrRecord, MgrSteps
  <2>2. QED
    BY <1>3, <1>4, <2>1 DEF StartTarget, TypeOK, MgrRecord, UnitStates
<1>5. CASE RollsBack("again") \/ Ends(FALSE)
  <2>1. mgr' \in MgrRecord /\ gpuLock' \in {"free", "manager", "graphics"}
    BY <1>5, RollsBackTypes, EndsTypes
  <2>2. QED
    BY <1>3, <2>1 DEF StartTarget, TypeOK, MgrRecord, UnitStates
<1>6. QED
  BY <1>2, <1>4, <1>5

(* The other steps of the model manager.                                   *)
LEMMA ManagerTypes ==
  ASSUME TypeOK, TriesLeft, MgrWork
  PROVE  TypeOK' /\ TriesLeft'
<1>1. TriesLeft'
  BY DEF TriesLeft, MgrWork, StopOthers, StartTarget, Served, NotServed, OcrStops,
         OcrStarts, OcrReady, OcrOver, ManagerBoots
<1>2. CASE StopOthers
  <2>1. mgr' \in MgrRecord
    BY <1>2 DEF StopOthers, MgrGoes, TypeOK, MgrRecord, MgrSteps
  <2>2. unit' \in [Units -> UnitStates]
    BY <1>2, Stopping DEF StopOthers
  <2>3. QED
    BY <1>2, <2>1, <2>2, <1>1 DEF StopOthers, TypeOK, MgrRecord, UnitStates
<1>3. CASE StartTarget
  BY <1>3, <1>1, StartTargetTypes
<1>4. CASE Served
  <2>1. mgr' \in MgrRecord /\ gpuLock' \in {"free", "manager", "graphics"}
    BY <1>4, EndsTypes DEF Served
  <2>2. file' \in [active : Texts, default : Texts]
    BY <1>4 DEF Served, TypeOK
  <2>3. QED
    BY <1>4, <2>1, <2>2, <1>1 DEF Served, TypeOK, MgrRecord
<1>5. CASE NotServed
  <2>1. mgr' \in MgrRecord /\ gpuLock' \in {"free", "manager", "graphics"}
    BY <1>5, NotServedTypes DEF NotServed
  <2>2. QED
    BY <1>5, <2>1, <1>1 DEF NotServed, TypeOK, MgrRecord
<1>6. CASE OcrStops
  <2>1. mgr' \in MgrRecord
    BY <1>6 DEF OcrStops, MgrGoes, TypeOK, MgrRecord, MgrSteps
  <2>2. unit' \in [Units -> UnitStates]
    BY <1>6, Stopping DEF OcrStops
  <2>3. QED
    BY <1>6, <2>1, <2>2, <1>1 DEF OcrStops, TypeOK, MgrRecord, UnitStates
<1>7. CASE OcrStarts
  <2>1. PICK outcome \in Outcomes(Ocr) :
          /\ unit' = AfterStart(Ocr, outcome)
          /\ mgr' = [mgr EXCEPT !.at = IF outcome = "ok" THEN "ocrWait" ELSE "stop",
                                !.target = file.default]
    BY <1>7 DEF OcrStarts
  <2>2. unit' \in [Units -> UnitStates]
    BY <2>1, OutcomeIsKnown, Starting DEF Units
  <2>3. mgr' \in MgrRecord
    BY <2>1 DEF TypeOK, MgrRecord, MgrSteps
  <2>4. QED
    BY <1>7, <2>2, <2>3, <1>1 DEF OcrStarts, TypeOK, MgrRecord, UnitStates
<1>8. CASE OcrReady
  <2>1. mgr' \in MgrRecord
    BY <1>8 DEF OcrReady, MgrGoes, TypeOK, MgrRecord, MgrSteps
  <2>2. QED
    BY <1>8, <2>1, <1>1 DEF OcrReady, TypeOK, MgrRecord
<1>9. CASE OcrOver
  <2>1. mgr' \in MgrRecord
    BY <1>9 DEF OcrOver, TypeOK, MgrRecord, MgrSteps
  <2>2. QED
    BY <1>9, <2>1, <1>1 DEF OcrOver, TypeOK, MgrRecord
<1>10. CASE ManagerBoots
  <2>1. mgr' \in MgrRecord
    BY <1>10 DEF ManagerBoots, TypeOK, MgrRecord, MgrSteps
  <2>2. unit' \in [Units -> UnitStates]
    BY <1>10, Stopping DEF ManagerBoots
  <2>3. QED
    BY <1>10, <2>1, <2>2, <1>1 DEF ManagerBoots, TypeOK, MgrRecord, UnitStates
<1>11. QED
  BY <1>2, <1>3, <1>4, <1>5, <1>6, <1>7, <1>8, <1>9, <1>10 DEF MgrWork

(* Of two tries or more one remains.                                       *)
LEMMA RestOfTries ==
  ASSUME NEW tries \in Seq(Texts), Len(tries) > 1
  PROVE  Tail(tries) \in Seq(Texts) /\ Tail(tries) # <<>>
<1>1. Tail(tries) \in Seq(Texts) /\ Len(Tail(tries)) = Len(tries) - 1
  BY EmptySeq, HeadTailProperties
<1> DEFINE n == Len(tries)
           k == Len(Tail(tries))
<1>2. n \in Nat /\ n > 1 /\ k = n - 1
  BY <1>1, LenProperties
<1> HIDE DEF n, k
<1>3. k # 0
  BY <1>2
<1>4. QED
  BY <1>1, <1>3, EmptySeq DEF k

(* What remains to be tried is shorter, and of text models.                *)
LEMMA TriesNextTypes ==
  ASSUME TypeOK, gfx.tries # <<>>, TriesNext
  PROVE  /\ gfx' \in [at : GfxSteps, tries : Seq(Texts)]
         /\ gpuLock' \in {"free", "manager", "graphics"}
         /\ TriesLeft'
<1>1. CASE Len(gfx.tries) > 1
  <2>1. gfx' = [at |-> "start", tries |-> Tail(gfx.tries)] /\ UNCHANGED gpuLock
    BY <1>1 DEF TriesNext
  <2>2. Tail(gfx.tries) \in Seq(Texts) /\ Tail(gfx.tries) # <<>>
    BY <1>1, RestOfTries DEF TypeOK
  <2>3. QED
    BY <2>1, <2>2, TriesAreTyped DEF TypeOK, TriesLeft, GfxSteps
<1>2. CASE ~(Len(gfx.tries) > 1)
  <2>1. GfxEnds
    BY <1>2 DEF TriesNext
  <2>2. gfx' \in [at : GfxSteps, tries : Seq(Texts)]
    BY <2>1, TriesAreTyped DEF GfxEnds, GfxSteps
  <2>3. QED
    BY <2>1, <2>2 DEF GfxEnds, TypeOK, TriesLeft
<1>3. QED
  BY <1>1, <1>2

(* The start of a text model by the graphics manager.                      *)
LEMMA StartsTextTypes ==
  ASSUME TypeOK, TriesLeft, StartsText
  PROVE  TypeOK' /\ TriesLeft'
<1>1. gfx.tries # <<>> /\ Head(gfx.tries) \in Units
  BY DEF StartsText, TriesLeft, TypeOK, Units
<1>2. PICK outcome \in Outcomes(Head(gfx.tries)) :
        /\ unit' = AfterStart(Head(gfx.tries), outcome)
        /\ IF outcome = "ok" THEN gfx' = [gfx EXCEPT !.at = "wait"] /\ UNCHANGED gpuLock
                             ELSE TriesNext
  BY DEF StartsText
<1>3. unit' \in [Units -> UnitStates]
  BY <1>1, <1>2, OutcomeIsKnown, Starting
<1>4. /\ gfx' \in [at : GfxSteps, tries : Seq(Texts)]
      /\ gpuLock' \in {"free", "manager", "graphics"}
      /\ TriesLeft'
  <2>1. CASE gfx' = [gfx EXCEPT !.at = "wait"] /\ UNCHANGED gpuLock
    BY <1>1, <2>1 DEF TypeOK, TriesLeft, GfxSteps
  <2>2. CASE TriesNext
    BY <1>1, <2>2, TriesNextTypes
  <2>3. QED
    BY <1>2, <2>1, <2>2
<1>5. QED
  BY <1>3, <1>4 DEF StartsText, TypeOK, UnitStates

(* The other steps of the graphics manager.                                *)
LEMMA GraphicsTypes ==
  ASSUME TypeOK, TriesLeft, GfxWork \/ LoadBegins \/ SwitchesEngine \/ Releases
  PROVE  TypeOK' /\ TriesLeft'
<1>1. CASE InferenceIdle
  BY <1>1 DEF InferenceIdle, GfxGoes, PreviousRead, TypeOK, TriesLeft, GfxSteps
<1>2. CASE StopTexts
  <2>1. unit' \in [Units -> UnitStates]
    BY <1>2, Stopping DEF StopTexts
  <2>2. QED
    BY <1>2, <2>1 DEF StopTexts, GfxGoes, TypeOK, TriesLeft, GfxSteps, UnitStates
<1>3. CASE Constructs
  BY <1>3 DEF Constructs, GfxGoes, TypeOK, TriesLeft, GfxSteps
<1>4. CASE StartsText
  BY <1>4, StartsTextTypes
<1>5. CASE TextStarted
  <2>1. gfx.tries # <<>> /\ Head(gfx.tries) \in Texts
    BY <1>5 DEF TextStarted, TriesLeft, TypeOK
  <2>2. file' \in [active : Texts, default : Texts]
    BY <1>5, <2>1 DEF TextStarted, TypeOK
  <2>3. /\ gfx' \in [at : GfxSteps, tries : Seq(Texts)]
        /\ gpuLock' \in {"free", "manager", "graphics"}
        /\ TriesLeft'
    BY <1>5 DEF TextStarted, GfxEnds, TypeOK, TriesLeft, GfxSteps
  <2>4. QED
    BY <1>5, <2>2, <2>3 DEF TextStarted, TypeOK
<1>6. CASE TextNotStarted
  <2>1. gfx.tries # <<>>
    BY <1>6 DEF TextNotStarted, TriesLeft
  <2>2. QED
    BY <1>6, <2>1, TriesNextTypes DEF TextNotStarted, TypeOK
<1>7. CASE GraphicsBoots
  <2>1. <<>> \in Seq(Texts) /\ <<file.active, Fallback>> \in Seq(Texts)
    BY UnitsAssumption DEF TypeOK
  <2>2. <<file.active, Fallback>> # <<>>
    OBVIOUS
  <2>3. gfx' \in [at : GfxSteps, tries : Seq(Texts)] /\ TriesLeft'
    <3>1. CASE gfx' = [at |-> "cold", tries |-> <<>>]
      BY <2>1, <3>1 DEF TriesLeft, GfxSteps
    <3>2. CASE gfx' = [at |-> "start", tries |-> <<file.active, Fallback>>]
      BY <2>1, <2>2, <3>2 DEF TriesLeft, GfxSteps
    <3>3. QED
      BY <1>7, <3>1, <3>2 DEF GraphicsBoots
  <2>4. QED
    BY <1>7, <2>3 DEF GraphicsBoots, TypeOK
<1>8. CASE LoadBegins
  BY <1>8 DEF LoadBegins, MayLoad, TypeOK, TriesLeft, GfxSteps
<1>9. CASE SwitchesEngine
  BY <1>9 DEF SwitchesEngine, GfxGoes, TypeOK, TriesLeft, GfxSteps
<1>10. CASE Releases
  <2>1. RestoreOrder \in Seq(Texts) /\ RestoreOrder # <<>>
    BY UnitsAssumption DEF RestoreOrder, TypeOK
  <2>2. QED
    BY <1>10, <2>1 DEF Releases, TypeOK, TriesLeft, GfxSteps
<1>11. QED
  BY <1>1, <1>2, <1>3, <1>4, <1>5, <1>6, <1>7, <1>8, <1>9, <1>10 DEF GfxWork

(* The two processes die.                                                  *)
LEMMA DeathTypes ==
  ASSUME TypeOK, TriesLeft, ManagerDies \/ GraphicsDies
  PROVE  TypeOK' /\ TriesLeft'
<1>1. CASE ManagerDies
  BY <1>1, IdleIsTyped DEF ManagerDies, TypeOK, TriesLeft, MgrRecord
<1>2. CASE GraphicsDies
  <2>1. gfx' \in [at : GfxSteps, tries : Seq(Texts)] /\ TriesLeft'
    <3>1. gfx' = [at |-> "boot", tries |-> <<>>] /\ "boot" \in GfxSteps
      BY <1>2 DEF GraphicsDies, GfxSteps
    <3>2. <<>> \in Seq(Texts)
      BY EmptySeq
    <3>3. QED
      BY <3>1, <3>2 DEF TriesLeft
  <2>2. QED
    BY <1>2, <2>1, UnitsAssumption DEF GraphicsDies, TypeOK
<1>3. QED
  BY <1>1, <1>2

(* Every step keeps the types and the tries.                               *)
LEMMA TypeStep ==
  ASSUME TypeOK, TriesLeft, [Next]_vars
  PROVE  TypeOK' /\ TriesLeft'
<1>1. CASE \E u \in Units : Loads(u) \/ Stops(u) \/ Retries(u) \/ Crashes(u)
  BY <1>1, UnitTypes
<1>2. CASE \E target \in Texts, choice \in BOOLEAN :
             AdminSwitches(target, choice) \/ Switches(target, choice)
  BY <1>2, SwitchTypes DEF AdminSwitches, Forwarded
<1>3. CASE RestoreBegins
  <2>1. file.default \in Texts
    BY DEF TypeOK
  <2>2. QED
    BY <1>3, <2>1, BeginTypes DEF RestoreBegins
<1>4. CASE OcrBegins
  <2>1. file.default \in Texts
    BY DEF TypeOK
  <2>2. QED
    BY <1>4, <2>1, BeginTypes DEF OcrBegins
<1>5. CASE MgrWork
  BY <1>5, ManagerTypes
<1>6. CASE GfxWork \/ LoadBegins \/ SwitchesEngine \/ Releases
  BY <1>6, GraphicsTypes
<1>7. CASE ManagerDies \/ GraphicsDies
  BY <1>7, DeathTypes
<1>8. CASE UNCHANGED vars
  BY <1>8 DEF vars, TypeOK, TriesLeft
<1>9. QED
  BY <1>1, <1>2, <1>3, <1>4, <1>5, <1>6, <1>7, <1>8 DEF Next

(* The initial state is typed.                                             *)
LEMMA InitTypes == Init => TypeOK /\ TriesLeft
<1> SUFFICES ASSUME Init PROVE TypeOK /\ TriesLeft
  OBVIOUS
<1>1. gfx \in [at : GfxSteps, tries : Seq(Texts)] /\ TriesLeft
  BY TriesAreTyped DEF Init, TriesLeft, GfxSteps
<1>2. unit \in [Units -> UnitStates] /\ mgr \in MgrRecord
  BY IdleIsTyped DEF Init, UnitStates
<1>3. QED
  BY <1>1, <1>2, UnitsAssumption DEF Init, TypeOK, MgrRecord, UnitStates

(* The managers, the units and the state file always have the types TypeOK *)
(* gives them: for one, a unit is never in a state the callers do not know.*)
THEOREM TypesHold == Spec => []TypeOK
<1>1. Init => TypeOK /\ TriesLeft
  BY InitTypes
<1>2. TypeOK /\ TriesLeft /\ [Next]_vars => (TypeOK /\ TriesLeft)'
  BY TypeStep
<1>3. QED
  BY <1>1, <1>2, PTL DEF Spec
-----------------------------------------------------------------------------
(* The rest of the invariant, whatever the faults.                         *)

(* A step that starts nothing leaves at most one unit that stays.          *)
NoneComes == \A u \in Units : unit'[u] # unit[u] =>
               unit'[u] = "off" \/ (Stays(u) /\ unit'[u] # "stopping")

LEMMA NoneStarted ==
  ASSUME AtMostOne, NoneComes
  PROVE  AtMostOne' /\ \A u \in Units : unit[u] = "off" => unit'[u] = "off"
BY DEF AtMostOne, NoneComes, Stays

(* So does a step that starts one: its Conflicts= send the others away.    *)
LEMMA OneStarted ==
  ASSUME TypeOK, NEW u \in Units, NEW outcome \in Outcomes(u),
         unit' = AfterStart(u, outcome)
  PROVE  AtMostOne'
<1>1. \A v \in Units \ {u} : unit'[v] \in {"off", "stopping"}
  BY OutcomeIsKnown, Starting
<1>2. QED
  BY <1>1 DEF AtMostOne, Stays

(* The units load, are tried again and crash.                              *)
LEMMA UnitCore ==
  ASSUME IInv, NEW u \in Units, Loads(u) \/ Stops(u) \/ Retries(u) \/ Crashes(u)
  PROVE  Core'
<1>1. UNCHANGED <<gpuLock, mgr, gfx>>
  BY DEF Loads, Stops, Retries, Crashes
<1>2. AtMostOne' /\ \A v \in Units : unit[v] = "off" => unit'[v] = "off"
  <2>1. CASE Loads(u) \/ Stops(u) \/ Crashes(u)
    <3>1. NoneComes
      BY <2>1 DEF Loads, Stops, Crashes, IInv, TypeOK, NoneComes, Stays
    <3>2. QED
      BY <3>1, NoneStarted DEF IInv, Core
  <2>2. CASE Retries(u)
    <3>1. unit[u] = "retrying" /\ unit' = AfterStart(u, "ok") /\ "ok" \in Outcomes(u)
      BY <2>2 DEF Retries, Outcomes
    <3>2. QED
      BY <3>1, OneStarted, Starting DEF IInv
  <2>3. QED
    BY <2>1, <2>2
<1>3. QED
  BY <1>1, <1>2 DEF IInv, Core, ManagerShape, LockHeld, OcrWhere, Units

(* An operation begins with both locks free.                               *)
LEMMA BeginCore ==
  ASSUME IInv, NEW op \in {"switch", "restore", "ocr"},
         NEW at, at = IF op = "ocr" THEN "ocrStop" ELSE "stop",
         NEW target, NEW default, Begin(at, op, target, default)
  PROVE  Core'
<1>1. /\ mgr.at = "idle" /\ gpuLock = "free" /\ gpuLock' = "manager"
      /\ mgr'.at = at /\ mgr'.op = op /\ mgr'.plan = "serve"
      /\ UNCHANGED <<unit, gfx>>
  BY DEF Begin
<1>2. unit[Ocr] = "off"
  BY <1>1 DEF IInv, Core, ManagerShape, OcrWhere
<1>3. QED
  BY <1>1, <1>2 DEF IInv, Core, AtMostOne, Stays, ManagerShape, LockHeld, OcrWhere

(* A switch begins, or only changes the default.                           *)
LEMMA SwitchCore ==
  ASSUME IInv, NEW target, NEW makeDefault,
         Switches(target, makeDefault)
  PROVE  Core'
<1>1. CASE Begin("stop", "switch", target, Chosen(target, makeDefault))
  BY <1>1, BeginCore
<1>2. CASE UNCHANGED <<unit, pipeline, gpuLock, mgr, gfx, previous>>
  BY <1>2 DEF IInv, Core, AtMostOne, Stays, ManagerShape, LockHeld, OcrWhere
<1>3. QED
  BY <1>1, <1>2 DEF Switches

(* An operation of the manager ends while OCR is off.                      *)
LEMMA EndsCore ==
  ASSUME IInv, NEW served, Ends(served), AtMostOne', unit'[Ocr] = "off",
         mgr.at \notin {"idle", "down"}, UNCHANGED gfx
  PROVE  Core'
<1>1. mgr'.op = "none" /\ mgr'.at \in {"idle", "down"}
  BY DEF Ends, Idle
<1>2. mgr.op # "none"
  BY DEF IInv, TypeOK, MgrSteps, Core, ManagerShape
<1>3. gfx.at \in {"inference", "stop", "construct", "warm"} => mgr.op = "boot"
  BY <1>2 DEF IInv, TypeOK, Core, LockHeld
<1>4. QED
  BY <1>1, <1>3 DEF Ends, IInv, Core, ManagerShape, LockHeld, OcrWhere

(* It goes on to a next step while OCR is off.                             *)
LEMMA GoesOnCore ==
  ASSUME IInv, AtMostOne', unit'[Ocr] = "off",
         mgr.at \notin {"idle", "down"}, UNCHANGED <<gfx, gpuLock>>,
         mgr'.op = mgr.op, mgr'.at \in {"stop", "start", "wait"}
  PROVE  Core'
BY DEF IInv, TypeOK, MgrSteps, Core, ManagerShape, LockHeld, OcrWhere

(* OCR is off once an operation has stopped the units in its way.          *)
LEMMA OcrOffAtStart ==
  ASSUME IInv, mgr.at \in {"start", "wait", "ocrStart", "idle"}
  PROVE  unit[Ocr] = "off"
BY DEF IInv, Core, OcrWhere

(* The start of the target, which is a text model.                         *)
LEMMA StartTargetCore ==
  ASSUME IInv, StartTarget
  PROVE  Core'
<1>1. mgr.target \in Units /\ mgr.target # Ocr /\ mgr.at = "start"
  BY UnitsAssumption DEF IInv, TypeOK, Units, StartTarget
<1>2. PICK outcome \in Outcomes(mgr.target) :
        /\ unit' = AfterStart(mgr.target, outcome)
        /\ IF ~Raises(outcome)
           THEN mgr' = [mgr EXCEPT !.at = "wait"] /\ UNCHANGED gpuLock
           ELSE IF mgr.op = "switch" /\ mgr.plan # "again" THEN RollsBack("again")
                                                          ELSE Ends(FALSE)
  BY DEF StartTarget
<1>3. AtMostOne'
  BY <1>1, <1>2, OneStarted DEF IInv
<1>4. unit'[Ocr] = "off"
  BY <1>1, <1>2, OcrOffAtStart, OutcomeIsKnown, Starting DEF IInv, Units
<1>5. UNCHANGED gfx
  BY DEF StartTarget
<1>6. CASE mgr' = [mgr EXCEPT !.at = "wait"] /\ UNCHANGED gpuLock
  <2>1. mgr'.op = mgr.op /\ mgr'.at = "wait"
    BY <1>6 DEF IInv, TypeOK
  <2>2. QED
    BY <1>1, <1>3, <1>4, <1>5, <1>6, <2>1, GoesOnCore
<1>7. CASE RollsBack("again")
  <2>1. mgr'.op = mgr.op /\ mgr'.at = "stop" /\ UNCHANGED gpuLock
    BY <1>7 DEF RollsBack, IInv, TypeOK
  <2>2. QED
    BY <1>1, <1>3, <1>4, <1>5, <2>1, GoesOnCore
<1>8. CASE Ends(FALSE)
  BY <1>1, <1>3, <1>4, <1>5, <1>8, EndsCore
<1>9. QED
  BY <1>2, <1>6, <1>7, <1>8

(* A target is not served, and the next thing is tried.                    *)
LEMMA NotServedCore ==
  ASSUME IInv, NotServed
  PROVE  Core'
<1>1. mgr.at = "wait" /\ UNCHANGED <<unit, gfx>> /\ NotServedNext
  BY DEF NotServed
<1>2. AtMostOne' /\ unit'[Ocr] = "off"
  BY <1>1, OcrOffAtStart DEF IInv, Core, AtMostOne, Stays
<1>3. CASE RollsBack("rollback")
  <2>1. mgr'.op = mgr.op /\ mgr'.at = "stop" /\ UNCHANGED gpuLock
    BY <1>3 DEF RollsBack, IInv, TypeOK
  <2>2. QED
    BY <1>1, <1>2, <2>1, GoesOnCore
<1>4. CASE mgr' = NextCandidate /\ UNCHANGED gpuLock
  <2>1. mgr'.op = mgr.op /\ mgr'.at \in {"start", "stop"}
    BY <1>4 DEF NextCandidate, IInv, TypeOK
  <2>2. QED
    BY <1>1, <1>2, <1>4, <2>1, GoesOnCore
<1>5. CASE Ends(FALSE)
  BY <1>1, <1>2, <1>5, EndsCore
<1>6. QED
  BY <1>1, <1>3, <1>4, <1>5 DEF NotServedNext

(* Before an operation starts its target, it stops OCR if that may be up.  *)
LEMMA StopOthersCore ==
  ASSUME IInv, StopOthers
  PROVE  Core'
<1>1. /\ mgr.at = "stop" /\ mgr'.at = "start" /\ mgr'.op = mgr.op
      /\ UNCHANGED <<gfx, gpuLock>>
  BY DEF StopOthers, MgrGoes, IInv, TypeOK
<1>2. unit' = Stopped(StoppedFirst)
  BY DEF StopOthers
<1>3. NoneComes
  BY <1>2, Stopping DEF IInv, NoneComes
<1>4. unit'[Ocr] = "off"
  <2>1. CASE unit[Ocr] = "off"
    BY <1>3, <2>1, NoneStarted DEF IInv, Core, Units
  <2>2. CASE unit[Ocr] # "off"
    <3>1. mgr.op = "ocr" /\ mgr.plan = "serve"
      BY <1>1, <2>2 DEF IInv, Core, OcrWhere
    <3>2. StoppedFirst = Units \ {mgr.target} /\ mgr.target \in Texts
      BY <3>1 DEF StoppedFirst, IInv, TypeOK
    <3>3. Ocr \in StoppedFirst
      BY <3>2, UnitsAssumption DEF Units
    <3>4. QED
      BY <1>2, <3>3, Stopping DEF IInv, Units
  <2>3. QED
    BY <2>1, <2>2
<1>5. AtMostOne'
  BY <1>3, NoneStarted DEF IInv, Core
<1>6. QED
  BY <1>1, <1>4, <1>5, GoesOnCore

(* The steps of an OCR transaction before its restore.                     *)
LEMMA OcrCore ==
  ASSUME IInv, OcrStops \/ OcrStarts \/ OcrReady \/ OcrOver
  PROVE  Core'
<1>1. CASE OcrStops
  <2>1. NoneComes
    BY <1>1, Stopping DEF OcrStops, IInv, NoneComes
  <2>2. mgr.at = "ocrStop" /\ mgr'.at = "ocrStart" /\ mgr'.op = mgr.op /\ mgr'.plan = mgr.plan
    BY <1>1 DEF OcrStops, MgrGoes, IInv, TypeOK
  <2>3. unit'[Ocr] = "off"
    BY <2>1, <2>2, NoneStarted DEF Units, IInv, Core, OcrWhere
  <2>4. QED
    BY <1>1, <2>1, <2>2, <2>3, NoneStarted
       DEF OcrStops, IInv, Core, ManagerShape, LockHeld, OcrWhere
<1>2. CASE OcrStarts
  <2>1. PICK outcome \in Outcomes(Ocr) :
          /\ unit' = AfterStart(Ocr, outcome)
          /\ mgr' = [mgr EXCEPT !.at = IF outcome = "ok" THEN "ocrWait" ELSE "stop",
                                !.target = file.default]
    BY <1>2 DEF OcrStarts
  <2>2. AtMostOne'
    BY <2>1, OneStarted DEF IInv, Units
  <2>3. mgr'.at \in {"ocrWait", "stop"} /\ mgr'.op = mgr.op /\ mgr'.plan = mgr.plan
    BY <2>1 DEF IInv, TypeOK
  <2>4. mgr.at = "ocrStart" /\ UNCHANGED <<gfx, gpuLock>>
    BY <1>2 DEF OcrStarts
  <2>5. QED
    BY <2>2, <2>3, <2>4 DEF IInv, Core, ManagerShape, LockHeld, OcrWhere
<1>3. CASE OcrReady \/ OcrOver
  <2>1. /\ mgr.at \in {"ocrWait", "ocrRead"}
        /\ mgr'.at \in {"ocrRead", "stop"} /\ mgr'.op = mgr.op /\ mgr'.plan = mgr.plan
        /\ UNCHANGED <<unit, gfx, gpuLock>>
    BY <1>3 DEF OcrReady, OcrOver, MgrGoes, IInv, TypeOK
  <2>2. QED
    BY <2>1 DEF IInv, Core, AtMostOne, Stays, ManagerShape, LockHeld, OcrWhere
<1>4. QED
  BY <1>1, <1>2, <1>3

(* The boot of the manager stops OCR.                                      *)
LEMMA BootCore ==
  ASSUME IInv, ManagerBoots
  PROVE  Core'
<1>1. NoneComes
  BY Stopping DEF ManagerBoots, IInv, NoneComes
<1>2. unit'[Ocr] = "off"
  BY Stopping DEF ManagerBoots, IInv, Units
<1>3. mgr'.at = "start" /\ mgr'.op = "boot" /\ UNCHANGED <<gfx, gpuLock>>
  BY DEF ManagerBoots
<1>4. QED
  BY <1>1, <1>2, <1>3, NoneStarted DEF IInv, Core, ManagerShape, LockHeld, OcrWhere

(* Every step of the model manager.                                        *)
LEMMA ManagerCore ==
  ASSUME IInv, MgrWork
  PROVE  Core'
<1>1. CASE Served
  <2>1. mgr.at = "wait" /\ UNCHANGED <<unit, gfx>> /\ Ends(TRUE)
    BY <1>1 DEF Served
  <2>2. AtMostOne' /\ unit'[Ocr] = "off"
    BY <2>1, OcrOffAtStart DEF IInv, Core, AtMostOne, Stays
  <2>3. QED
    BY <2>1, <2>2, EndsCore
<1>2. QED
  BY <1>1, StopOthersCore, StartTargetCore, NotServedCore, OcrCore, BootCore DEF MgrWork

-----------------------------------------------------------------------------
(* The steps of the graphics manager.                                      *)

(* A step that starts nothing and does not touch the model manager.        *)
LEMMA GraphicsOnly ==
  ASSUME IInv, NoneComes, UNCHANGED mgr
  PROVE  AtMostOne' /\ ManagerShape' /\ OcrWhere'
BY NoneStarted DEF IInv, Core, ManagerShape, OcrWhere, Units

(* The end of a restore gives the flock back, that of a boot leaves it.    *)
LEMMA NextTryLock ==
  ASSUME IInv, gfx.at \in {"start", "wait"}, TriesNext \/ GfxEnds, UNCHANGED mgr
  PROVE  LockHeld'
<1>1. gfx'.at \in {"start", "cold"}
  BY DEF TriesNext, GfxEnds
<1>2. gpuLock' = gpuLock \/ (gpuLock = "graphics" /\ gpuLock' = "free")
  BY DEF TriesNext, GfxEnds
<1>3. QED
  BY <1>1, <1>2 DEF IInv, Core, LockHeld

(* Every step of the graphics manager.                                     *)
LEMMA GraphicsCore ==
  ASSUME IInv, GfxWork \/ LoadBegins \/ SwitchesEngine \/ Releases
  PROVE  Core'
<1>1. CASE InferenceIdle \/ Constructs \/ SwitchesEngine
  <2>1. /\ gfx.at \in {"inference", "construct", "warm"}
        /\ UNCHANGED <<unit, mgr, gpuLock>>
    BY <1>1 DEF InferenceIdle, Constructs, SwitchesEngine, GfxGoes
  <2>2. QED
    BY <2>1, GraphicsOnly DEF IInv, Core, LockHeld, NoneComes
<1>2. CASE StopTexts
  <2>1. NoneComes
    BY <1>2, Stopping DEF StopTexts, IInv, NoneComes
  <2>2. QED
    BY <1>2, <2>1, GraphicsOnly DEF StopTexts, GfxGoes, IInv, Core, LockHeld
<1>3. CASE StartsText
  <2>1. gfx.at = "start" /\ Head(gfx.tries) \in Units /\ Head(gfx.tries) # Ocr
    BY <1>3, UnitsAssumption DEF StartsText, IInv, TypeOK, TriesLeft, Units
  <2>2. PICK outcome \in Outcomes(Head(gfx.tries)) :
          /\ unit' = AfterStart(Head(gfx.tries), outcome)
          /\ IF outcome = "ok" THEN gfx' = [gfx EXCEPT !.at = "wait"] /\ UNCHANGED gpuLock
                               ELSE TriesNext
    BY <1>3 DEF StartsText
  <2>3. AtMostOne'
    BY <2>1, <2>2, OneStarted DEF IInv
  <2>4. unit[Ocr] = "off" => unit'[Ocr] = "off"
    BY <2>1, <2>2, OutcomeIsKnown, Starting DEF IInv, Units
  <2>5. UNCHANGED mgr
    BY <1>3 DEF StartsText
  <2>6. LockHeld'
    <3>1. CASE gfx' = [gfx EXCEPT !.at = "wait"] /\ UNCHANGED gpuLock
      BY <2>5, <3>1 DEF IInv, TypeOK, Core, LockHeld
    <3>2. CASE TriesNext
      BY <2>1, <2>5, <3>2, NextTryLock
    <3>3. QED
      BY <2>2, <3>1, <3>2
  <2>7. QED
    BY <2>3, <2>4, <2>5, <2>6 DEF IInv, Core, ManagerShape, OcrWhere
<1>4. CASE TextStarted \/ TextNotStarted
  <2>1. gfx.at = "wait" /\ UNCHANGED <<unit, mgr>> /\ (TriesNext \/ GfxEnds)
    BY <1>4 DEF TextStarted, TextNotStarted
  <2>2. QED
    BY <2>1, GraphicsOnly, NextTryLock DEF Core, NoneComes
<1>5. CASE GraphicsBoots
  <2>1. gfx'.at \in {"cold", "start"} /\ UNCHANGED <<unit, mgr, gpuLock>>
    BY <1>5 DEF GraphicsBoots
  <2>2. QED
    BY <2>1, GraphicsOnly DEF IInv, Core, LockHeld, NoneComes
<1>6. CASE LoadBegins
  <2>1. gpuLock = "free" /\ gpuLock' = "graphics" /\ UNCHANGED <<unit, mgr>>
    BY <1>6 DEF LoadBegins, MayLoad
  <2>2. QED
    BY <2>1, GraphicsOnly DEF IInv, Core, LockHeld, NoneComes
<1>7. CASE Releases
  <2>1. gfx'.at = "start" /\ UNCHANGED <<unit, mgr, gpuLock>>
    BY <1>7 DEF Releases
  <2>2. QED
    BY <2>1, GraphicsOnly DEF IInv, Core, LockHeld, NoneComes
<1>8. QED
  BY <1>1, <1>2, <1>3, <1>4, <1>5, <1>6, <1>7 DEF GfxWork

(* A process dies and the kernel frees its flock.                          *)
LEMMA DeathCore ==
  ASSUME IInv, ManagerDies \/ GraphicsDies
  PROVE  Core'
<1>1. CASE ManagerDies
  <2>1. mgr'.at = "down" /\ mgr'.op = "none" /\ UNCHANGED <<unit, gfx>>
    BY <1>1 DEF ManagerDies, Idle
  <2>2. QED
    BY <1>1, <2>1 DEF ManagerDies, IInv, Core, AtMostOne, Stays, ManagerShape, LockHeld, OcrWhere
<1>2. CASE GraphicsDies
  <2>1. gfx'.at = "boot" /\ UNCHANGED <<unit, mgr>>
    BY <1>2 DEF GraphicsDies
  <2>2. QED
    BY <1>2, <2>1, GraphicsOnly DEF GraphicsDies, IInv, Core, LockHeld, NoneComes
<1>3. QED
  BY <1>1, <1>2

-----------------------------------------------------------------------------
(* The invariant and its theorems.                                         *)

(* The invariant holds when the host has booted.                           *)
LEMMA InvariantInit == Init => IInv
<1> SUFFICES ASSUME Init PROVE IInv
  OBVIOUS
<1>1. Core
  <2>1. unit[Ocr] = "off" /\ \A u \in Units \ {Shipped} : unit[u] = "off"
    BY UnitsAssumption DEF Init, Units
  <2>2. AtMostOne
    BY <2>1 DEF AtMostOne, Stays
  <2>3. ManagerShape /\ LockHeld /\ OcrWhere
    BY <2>1 DEF Init, Idle, ManagerShape, LockHeld, OcrWhere
  <2>4. QED
    BY <2>2, <2>3 DEF Core
<1>2. QED
  BY <1>1, InitTypes DEF IInv

(* Every step of either manager, of a unit or of a fault keeps it.         *)
LEMMA InvariantStep == IInv /\ [Next]_vars => IInv'
<1> SUFFICES ASSUME IInv, [Next]_vars PROVE Core'
  BY TypeStep DEF IInv
<1>1. CASE \E u \in Units : Loads(u) \/ Stops(u) \/ Retries(u) \/ Crashes(u)
  BY <1>1, UnitCore
<1>2. CASE \E target \in Texts, choice \in BOOLEAN :
             AdminSwitches(target, choice) \/ Switches(target, choice)
  BY <1>2, SwitchCore DEF AdminSwitches
<1>3. CASE RestoreBegins \/ OcrBegins
  BY <1>3, BeginCore DEF RestoreBegins, OcrBegins
<1>4. CASE UNCHANGED vars
  BY <1>4 DEF vars, IInv, Core, AtMostOne, Stays, ManagerShape, LockHeld, OcrWhere
<1>5. QED
  BY <1>1, <1>2, <1>3, <1>4, ManagerCore, GraphicsCore, DeathCore DEF Next

(* The inductive invariant holds throughout, whatever fails or restarts.   *)
THEOREM ResidencyInvariant == Spec => []IInv
BY InvariantInit, InvariantStep, PTL DEF Spec

(* The private OCR helper is up only in the manager's own transaction or   *)
(* between the manager's death and its boot, whatever fails or restarts.   *)
THEOREM OcrConfinedHolds == Spec => []OcrConfined
<1>1. IInv => OcrConfined
  BY DEF IInv, Core, OcrWhere, OcrConfined, Resident, Units
<1>2. QED
  BY <1>1, ResidencyInvariant, PTL

-----------------------------------------------------------------------------
(* One heavy model, when the model manager is not restarted.               *)

(* The manager does not go down, so it does not boot.                      *)
LEMMA ManagerStaysUpStep ==
  ASSUME NoRestart, RInv, [Next]_vars
  PROVE  ManagerStaysUp'
<1>1. CASE UNCHANGED mgr
  BY <1>1 DEF RInv, ManagerStaysUp
<1>2. CASE MgrWork
  <2>1. \A served \in BOOLEAN : Ends(served) => mgr'.at # "down" /\ mgr'.op # "boot"
    BY DEF Ends, Idle, RInv, ManagerStaysUp
  <2>2. \A plan : RollsBack(plan) => mgr'.at # "down" /\ mgr'.op # "boot"
    BY DEF RollsBack, RInv, ManagerStaysUp, IInv, TypeOK
  <2>3. CASE StartTarget
    <3>1. \/ mgr' = [mgr EXCEPT !.at = "wait"]
          \/ RollsBack("again")
          \/ Ends(FALSE)
      BY <2>3 DEF StartTarget
    <3>2. QED
      BY <3>1, <2>1, <2>2 DEF RInv, ManagerStaysUp, IInv, TypeOK
  <2>4. CASE Served
    BY <2>4, <2>1 DEF Served, ManagerStaysUp
  <2>5. CASE NotServed
    <3>1. RollsBack("rollback") \/ Ends(FALSE)
      BY <2>5 DEF NotServed, NotServedNext, RInv, ManagerStaysUp
    <3>2. QED
      BY <3>1, <2>1, <2>2 DEF ManagerStaysUp
  <2>6. CASE StopOthers \/ OcrStops \/ OcrStarts \/ OcrReady \/ OcrOver
    <3>1. mgr'.op = mgr.op /\ mgr'.at # "down"
      BY <2>6 DEF StopOthers, OcrStops, OcrStarts, OcrReady, OcrOver, MgrGoes,
                  RInv, IInv, TypeOK
    <3>2. QED
      BY <3>1 DEF RInv, ManagerStaysUp
  <2>7. ~ManagerBoots
    BY DEF ManagerBoots, RInv, ManagerStaysUp
  <2>8. QED
    BY <1>2, <2>3, <2>4, <2>5, <2>6, <2>7 DEF MgrWork
<1>3. CASE RestoreBegins \/ OcrBegins
           \/ \E target \in Texts, choice \in BOOLEAN :
                AdminSwitches(target, choice) \/ Switches(target, choice)
  BY <1>3, <1>1 DEF RestoreBegins, OcrBegins, AdminSwitches, Switches, Begin, ManagerStaysUp
<1>4. ~ManagerDies
  BY DEF ManagerDies, NoRestart
<1>5. CASE GfxWork \/ LoadBegins \/ SwitchesEngine \/ Releases \/ GraphicsDies
  BY <1>1, <1>5 DEF GfxWork, InferenceIdle, StopTexts, Constructs, StartsText, TextStarted,
     TextNotStarted, GraphicsBoots, LoadBegins, SwitchesEngine, Releases, GraphicsDies
<1>6. CASE \E u \in Units : Loads(u) \/ Stops(u) \/ Retries(u) \/ Crashes(u)
  BY <1>1, <1>6 DEF Loads, Stops, Retries, Crashes
<1>7. QED
  BY <1>1, <1>2, <1>3, <1>4, <1>5, <1>6 DEF Next, vars

(* Nothing starts a unit while graphics has the GPU.                       *)
LEMMA GraphicsAloneStep ==
  ASSUME NoRestart, RInv, [Next]_vars
  PROVE  GraphicsAlone'
<1> DEFINE InGpu == gfx.at \in {"construct", "warm"}
<1>1. InGpu => (\A u \in Units : unit[u] = "off") /\ mgr.op = "none" /\ mgr.at = "idle"
  BY DEF RInv, GraphicsAlone, ManagerStaysUp, IInv, TypeOK, MgrSteps, Core, ManagerShape, LockHeld
<1>2. pipeline => InGpu
  BY DEF RInv, GraphicsAlone
<1>3. CASE UNCHANGED <<unit, pipeline, gfx>>
  BY <1>3 DEF RInv, GraphicsAlone
<1>4. CASE MgrWork
  <2>1. mgr.at # "idle" /\ UNCHANGED <<pipeline, gfx>>
    BY <1>4 DEF MgrWork, StopOthers, StartTarget, Served, NotServed, OcrStops, OcrStarts,
                OcrReady, OcrOver, ManagerBoots, MgrGoes
  <2>2. QED
    BY <2>1, <1>1, <1>2 DEF GraphicsAlone
<1>5. CASE \E u \in Units : Loads(u) \/ Stops(u) \/ Retries(u) \/ Crashes(u)
  <2>1. ~InGpu /\ UNCHANGED <<pipeline, gfx>>
    BY <1>5, <1>1 DEF Loads, Stops, Retries, Crashes
  <2>2. QED
    BY <2>1, <1>2 DEF GraphicsAlone
<1>6. CASE StopTexts
  <2>1. gfx.at = "stop" /\ gfx'.at = "construct" /\ ~pipeline' /\ unit' = Stopped(Texts)
    BY <1>6, <1>2 DEF StopTexts, GfxGoes, RInv, IInv, TypeOK
  <2>2. unit[Ocr] = "off"
    BY <2>1 DEF RInv, ManagerStaysUp, IInv, Core, LockHeld, OcrWhere
  <2>3. \A u \in Units : unit'[u] = "off"
    BY <2>1, <2>2, Stopping DEF Units, RInv, IInv
  <2>4. QED
    BY <2>1, <2>3 DEF GraphicsAlone
<1>7. CASE Constructs
  BY <1>7, <1>1 DEF Constructs, GfxGoes, GraphicsAlone, RInv, IInv, TypeOK
<1>8. CASE SwitchesEngine
  BY <1>8, <1>1 DEF SwitchesEngine, GfxGoes, GraphicsAlone, RInv, IInv, TypeOK
<1>9. CASE InferenceIdle \/ LoadBegins
  <2>1. gfx'.at \in {"inference", "stop"} /\ gfx.at \in {"inference", "cold"} /\ UNCHANGED pipeline
    BY <1>9 DEF InferenceIdle, LoadBegins, MayLoad, GfxGoes, RInv, IInv, TypeOK
  <2>2. QED
    BY <2>1, <1>2 DEF GraphicsAlone
<1>10. CASE StartsText \/ TextStarted \/ TextNotStarted \/ GraphicsBoots
  <2>1. /\ gfx'.at \in {"start", "wait", "cold"} /\ gfx.at \in {"start", "wait", "boot"}
        /\ UNCHANGED pipeline
    BY <1>10 DEF StartsText, TextStarted, TextNotStarted, GraphicsBoots, TriesNext, GfxEnds,
                 RInv, IInv, TypeOK
  <2>2. QED
    BY <2>1, <1>2 DEF GraphicsAlone
<1>11. CASE Releases \/ GraphicsDies
  <2>1. gfx'.at \in {"start", "boot"}
    <3>1. CASE Releases
      BY <3>1 DEF Releases
    <3>2. CASE GraphicsDies
      <4>1. gfx' = [at |-> "boot", tries |-> <<>>]
        BY <3>2 DEF GraphicsDies
      <4>2. QED
        BY <4>1
    <3>3. QED
      BY <1>11, <3>1, <3>2
  <2>2. pipeline' = FALSE
    BY <1>11 DEF Releases, GraphicsDies
  <2>3. QED
    BY <2>1, <2>2 DEF GraphicsAlone
<1>12. CASE RestoreBegins \/ OcrBegins \/ ManagerDies
            \/ \E target \in Texts, choice \in BOOLEAN :
                 AdminSwitches(target, choice) \/ Switches(target, choice)
  BY <1>12, <1>3 DEF RestoreBegins, OcrBegins, AdminSwitches, Switches, Begin, ManagerDies
<1>13. QED
  BY <1>3, <1>4, <1>5, <1>6, <1>7, <1>8, <1>9, <1>10, <1>11, <1>12 DEF Next, GfxWork, vars

(* What holds besides is kept, too.                                        *)
LEMMA RestartFreeStep ==
  ASSUME NoRestart, RInv, [Next]_vars
  PROVE  RInv'
BY InvariantStep, ManagerStaysUpStep, GraphicsAloneStep DEF RInv

(* At most one heavy model is in the GPU, pipeline included, whatever      *)
(* fails, hangs, crashes or is late and however often graphics restarts,   *)
(* as long as the model manager does not.                                  *)
THEOREM OneHeavyHolds == NoRestart => (Spec => []OneHeavy)
<1> SUFFICES ASSUME NoRestart PROVE Spec => []OneHeavy
  OBVIOUS
<1>1. Init => RInv
  <2>1. Init => ManagerStaysUp /\ GraphicsAlone
    BY DEF Init, Idle, ManagerStaysUp, GraphicsAlone
  <2>2. QED
    BY <2>1, InvariantInit DEF RInv
<1>2. RInv /\ [Next]_vars => RInv'
  BY RestartFreeStep
<1>3. RInv => OneHeavy
  <2> SUFFICES ASSUME RInv PROVE OneHeavy
    OBVIOUS
  <2>1. \A u, v \in Units : Stays(u) /\ Stays(v) => u = v
    BY DEF RInv, IInv, Core, AtMostOne
  <2>2. pipeline \/ gfx.at \in {"construct", "warm"} => Resident = {}
    BY DEF RInv, GraphicsAlone, Resident
  <2>3. QED
    BY <2>1, <2>2 DEF OneHeavy
<1>4. QED
  BY <1>1, <1>2, <1>3, PTL DEF Spec
-----------------------------------------------------------------------------
(* The active model, when nothing restarts, the fallback can be relied on  *)
(* and no text model outlasts the timeout of its start.                    *)

Dependable == Faults = {} /\ Slow \cap Texts = {} /\ Fallback \notin Flaky

(* Whoever holds the flock is at work, and no one else is.                 *)
OneAtWork ==
  /\ gpuLock = "manager" <=> mgr.at # "idle"
  /\ gpuLock = "graphics" <=> gfx.at # "cold"
  /\ gfx.at # "boot"

(* A rollback brings up the fallback; what is waited for is not off.       *)
FallbackLast ==
  /\ mgr.plan # "bootFallback"
  /\ mgr.plan \in {"rollback", "again"} => mgr.target = Fallback
  /\ mgr.at = "wait" => Stays(mgr.target)

(* Graphics restore the model that was active, and is still named so, or   *)
(* in the end the fallback.                                                *)
RestoresActive ==
  /\ gfx.at \in {"stop", "construct", "warm", "start", "wait"} => previous = file.active
  /\ gfx.at \in {"start", "wait"} =>
       gfx.tries \in {<<previous, Shipped, Fallback>>, <<Shipped, Fallback>>, <<Fallback>>}
  /\ gfx.at = "wait" => Stays(Head(gfx.tries))

(* Between operations no text model but the active one is there, or will   *)
(* be started again.                                                       *)
ActiveOnly == Quiet => \A t \in Texts : Stays(t) => file.active = t

Roles == OneAtWork /\ FallbackLast /\ RestoresActive /\ ActiveOnly

AInv == RInv /\ Roles

(* A start of a text model is not late, and that of the fallback succeeds. *)
LEMMA TextsStart ==
  ASSUME Dependable
  PROVE  /\ \A t \in Texts : Outcomes(t) \subseteq {"ok", "refused"}
         /\ Outcomes(Fallback) \subseteq {"ok"}
BY UnitsAssumption DEF Dependable, Outcomes

(* The fallback, once it is started, becomes healthy.                      *)
LEMMA FallbackIsHealthy ==
  ASSUME Dependable, Stays(Fallback)
  PROVE  ~NeverHealthy(Fallback)
BY DEF Dependable, NeverHealthy, Stays

(* No unit comes up, and none that stays goes, by itself.                  *)
LEMMA UnitRoles ==
  ASSUME AInv, NEW u \in Units, Loads(u) \/ Stops(u) \/ Retries(u) \/ Crashes(u)
  PROVE  Roles'
<1>1. UNCHANGED <<pipeline, gpuLock, file, mgr, gfx, previous>>
  BY DEF Loads, Stops, Retries, Crashes
<1>2. \A v \in Units : unit'[v] \notin {"off", "stopping"} <=> unit[v] \notin {"off", "stopping"}
  <2>1. CASE Loads(u) \/ Stops(u) \/ Crashes(u)
    BY <2>1 DEF Loads, Stops, Crashes, AInv, RInv, IInv, TypeOK
  <2>2. CASE Retries(u)
    <3>1. unit[u] = "retrying" /\ unit' = AfterStart(u, "ok")
      BY <2>2 DEF Retries
    <3>2. \A v \in Units \ {u} : unit[v] \in {"off", "stopping"}
      BY <3>1 DEF AInv, RInv, IInv, Core, AtMostOne, Stays
    <3>3. QED
      BY <3>1, <3>2, Starting DEF AInv, RInv, IInv
  <2>3. QED
    BY <2>1, <2>2
<1>3. mgr.target \in Units /\ (gfx.at = "wait" => Head(gfx.tries) \in Units)
  BY DEF AInv, RInv, IInv, TypeOK, TriesLeft, Units
<1>4. QED
  BY <1>1, <1>2, <1>3
     DEF AInv, Roles, OneAtWork, FallbackLast, RestoresActive, ActiveOnly, Quiet, Units, Stays

(* An operation of the manager begins.                                     *)
LEMMA BeginRoles ==
  ASSUME AInv, NEW at \in {"stop", "ocrStop"}, NEW op, NEW target, NEW default, Begin(at, op, target, default)
  PROVE  Roles'
<1>1. /\ gpuLock = "free" /\ gpuLock' = "manager" /\ mgr'.at = at /\ mgr'.plan = "serve"
      /\ UNCHANGED <<unit, file, gfx, previous>>
  BY DEF Begin
<1>2. gfx.at = "cold"
  BY <1>1 DEF AInv, Roles, OneAtWork
<1>3. QED
  BY <1>1, <1>2 DEF AInv, Roles, OneAtWork, FallbackLast, RestoresActive, ActiveOnly, Quiet, Stays

(* A switch begins, or only changes the default.                           *)
LEMMA SwitchRoles ==
  ASSUME AInv, NEW target, NEW makeDefault, Switches(target, makeDefault)
  PROVE  Roles'
<1>1. CASE Begin("stop", "switch", target, Chosen(target, makeDefault))
  BY <1>1, BeginRoles
<1>2. CASE /\ file' = [file EXCEPT !.default = Chosen(target, makeDefault)]
           /\ UNCHANGED <<unit, pipeline, gpuLock, mgr, gfx, previous>>
  <2>1. file'.active = file.active
    BY <1>2 DEF AInv, RInv, IInv, TypeOK
  <2>2. QED
    BY <1>2, <2>1 DEF AInv, Roles, OneAtWork, FallbackLast, RestoresActive, ActiveOnly, Quiet, Stays
<1>3. QED
  BY <1>1, <1>2 DEF Switches

(* The manager goes on with its operation.                                 *)
LEMMA GoesOnRoles ==
  ASSUME AInv, mgr.at # "idle", mgr'.at # "idle", UNCHANGED <<gpuLock, file, gfx, previous>>,
         FallbackLast'
  PROVE  Roles'
<1>1. gfx.at = "cold"
  BY DEF AInv, Roles, OneAtWork
<1>2. QED
  BY <1>1 DEF AInv, Roles, OneAtWork, RestoresActive, ActiveOnly, Quiet, Stays

(* The manager starts its target.                                          *)
LEMMA StartTargetRoles ==
  ASSUME Dependable, AInv, StartTarget
  PROVE  Roles'
<1>1. /\ mgr.at = "start" /\ mgr.target \in Texts /\ mgr.target \in Units
      /\ UNCHANGED <<pipeline, file, gfx, previous>>
  BY DEF StartTarget, AInv, RInv, IInv, TypeOK, Units
<1>2. PICK outcome \in Outcomes(mgr.target) :
        /\ unit' = AfterStart(mgr.target, outcome)
        /\ IF ~Raises(outcome)
           THEN mgr' = [mgr EXCEPT !.at = "wait"] /\ UNCHANGED gpuLock
           ELSE IF mgr.op = "switch" /\ mgr.plan # "again" THEN RollsBack("again")
                                                          ELSE Ends(FALSE)
  BY DEF StartTarget
<1>3. unit'[mgr.target] \notin {"off", "stopping"}
  BY <1>1, <1>2, OutcomeIsKnown, Starting DEF AInv, RInv, IInv
<1>4. CASE ~Raises(outcome)
  <2>1. mgr' = [mgr EXCEPT !.at = "wait"] /\ UNCHANGED gpuLock
    BY <1>2, <1>4
  <2>2. mgr'.at = "wait" /\ mgr'.plan = mgr.plan /\ mgr'.target = mgr.target
    BY <2>1 DEF AInv, RInv, IInv, TypeOK
  <2>3. FallbackLast'
    BY <1>3, <2>2 DEF FallbackLast, Stays, AInv, Roles
  <2>4. QED
    BY <1>1, <2>1, <2>2, <2>3, GoesOnRoles
<1>5. CASE Raises(outcome)
  <2>1. outcome = "refused" /\ mgr.target # Fallback
    BY <1>1, <1>2, <1>5, TextsStart DEF Raises
  <2>2. mgr.op = "switch" /\ mgr.plan # "again"
    BY <1>5, <2>1 DEF Raises, AInv, Roles, FallbackLast
  <2>3. RollsBack("again")
    BY <1>2, <1>5, <2>2
  <2>4. mgr'.at = "stop" /\ mgr'.plan = "again" /\ mgr'.target = Fallback /\ UNCHANGED gpuLock
    BY <2>3 DEF RollsBack, AInv, RInv, IInv, TypeOK
  <2>5. FallbackLast'
    BY <2>4 DEF FallbackLast
  <2>6. QED
    BY <1>1, <2>4, <2>5, GoesOnRoles
<1>6. QED
  BY <1>4, <1>5

(* What the manager waited for is served, or it rolls back: to the         *)
(* fallback, which is served.                                              *)
LEMMA WaitRoles ==
  ASSUME Dependable, AInv, Served \/ NotServed
  PROVE  Roles'
<1>1. mgr.at = "wait" /\ gfx.at = "cold" /\ mgr.op # "boot" /\ mgr.target \in Texts
  BY DEF Served, NotServed, AInv, Roles, OneAtWork, RInv, ManagerStaysUp, IInv, TypeOK
<1>2. CASE Served
  <2>1. /\ unit[mgr.target] = "ready" /\ file'.active = mgr.target /\ Ends(TRUE)
        /\ UNCHANGED <<unit, gfx, previous>>
    BY <1>2 DEF Served
  <2>2. mgr' = Idle /\ gpuLock' = "free"
    BY <1>1, <2>1 DEF Ends
  <2>3. \A t \in Texts : Stays(t) => t = mgr.target
    BY <1>1, <2>1 DEF AInv, RInv, IInv, Core, AtMostOne, Stays, Units
  <2>4. QED
    BY <1>1, <2>1, <2>2, <2>3 DEF Idle, Roles, OneAtWork, FallbackLast, RestoresActive, ActiveOnly, Stays
<1>3. CASE NotServed
  <2>1. mgr.target # Fallback
    BY <1>1, <1>3, FallbackIsHealthy DEF NotServed, AInv, Roles, FallbackLast
  <2>2. mgr.plan = "serve"
    BY <2>1 DEF AInv, Roles, FallbackLast, RInv, IInv, TypeOK
  <2>3. RollsBack("rollback") /\ UNCHANGED <<file, gfx, previous>>
    BY <1>1, <1>3, <2>2 DEF NotServed, NotServedNext
  <2>4. mgr'.at = "stop" /\ mgr'.plan = "rollback" /\ mgr'.target = Fallback /\ UNCHANGED gpuLock
    BY <2>3 DEF RollsBack, AInv, RInv, IInv, TypeOK
  <2>5. FallbackLast'
    BY <2>4 DEF FallbackLast
  <2>6. QED
    BY <1>1, <2>3, <2>4, <2>5, GoesOnRoles
<1>4. QED
  BY <1>2, <1>3

(* The other steps of the manager.                                         *)
LEMMA ManagerRoles ==
  ASSUME Dependable, AInv, MgrWork
  PROVE  Roles'
<1>1. CASE StopOthers \/ OcrStops \/ OcrStarts \/ OcrReady \/ OcrOver
  <2>1. mgr.at \notin {"idle", "wait"} /\ UNCHANGED <<gpuLock, file, gfx, previous>>
    BY <1>1 DEF StopOthers, OcrStops, OcrStarts, OcrReady, OcrOver, MgrGoes
  <2>2. mgr'.at \notin {"idle", "wait"}
    BY <1>1 DEF StopOthers, OcrStops, OcrStarts, OcrReady, OcrOver, MgrGoes, AInv, RInv, IInv, TypeOK
  <2>3. mgr'.plan = mgr.plan /\ (mgr.plan # "serve" => mgr'.target = mgr.target)
    BY <1>1 DEF StopOthers, OcrStops, OcrStarts, OcrReady, OcrOver, MgrGoes,
                AInv, RInv, IInv, TypeOK, Core, ManagerShape
  <2>4. FallbackLast'
    BY <2>2, <2>3 DEF FallbackLast, Stays, AInv, Roles
  <2>5. QED
    BY <2>1, <2>2, <2>4, GoesOnRoles
<1>2. ~ManagerBoots
  BY DEF ManagerBoots, AInv, RInv, ManagerStaysUp
<1>3. QED
  BY <1>1, <1>2, StartTargetRoles, WaitRoles DEF MgrWork

(* The manager is idle while graphics are at work.                         *)
LEMMA ManagerIdle ==
  ASSUME AInv, gfx.at # "cold" \/ gpuLock = "free"
  PROVE  /\ mgr.at = "idle" /\ (gfx.at # "cold" => gpuLock = "graphics")
         /\ UNCHANGED mgr => FallbackLast'
BY DEF AInv, Roles, OneAtWork, FallbackLast, Stays

(* The steps of graphics up to the release.                                *)
LEMMA SessionRoles ==
  ASSUME Dependable, AInv,
         LoadBegins \/ InferenceIdle \/ StopTexts \/ Constructs \/ SwitchesEngine \/ Releases
  PROVE  Roles'
<1>1. UNCHANGED <<file, mgr>>
  BY DEF LoadBegins, InferenceIdle, StopTexts, Constructs, SwitchesEngine, Releases
<1>2. gfx.at # "cold" \/ gpuLock = "free"
  BY DEF LoadBegins, MayLoad, InferenceIdle, StopTexts, Constructs, SwitchesEngine, Releases, GfxGoes
<1>3. mgr.at = "idle" /\ FallbackLast' /\ (gfx.at # "cold" => gpuLock = "graphics")
  BY <1>1, <1>2, ManagerIdle
<1>4. CASE LoadBegins
  <2>1. gfx'.at = "inference" /\ gpuLock' = "graphics"
    BY <1>4 DEF LoadBegins, AInv, RInv, IInv, TypeOK
  <2>2. QED
    BY <1>1, <1>3, <2>1 DEF Roles, OneAtWork, RestoresActive, ActiveOnly, Quiet, Stays
<1>5. CASE InferenceIdle
  <2>1. gfx.at = "inference" /\ gfx'.at = "stop" /\ UNCHANGED gpuLock /\ previous' = file.active
    BY <1>5 DEF InferenceIdle, PreviousRead, GfxGoes, AInv, RInv, IInv, TypeOK
  <2>2. QED
    BY <1>1, <1>3, <2>1 DEF Roles, OneAtWork, RestoresActive, ActiveOnly, Quiet, Stays
<1>6. CASE StopTexts \/ Constructs \/ SwitchesEngine
  <2>1. gfx.at \in {"stop", "construct", "warm"} /\ gfx'.at \in {"construct", "warm"} /\ UNCHANGED <<gpuLock, previous>>
    BY <1>6 DEF StopTexts, Constructs, SwitchesEngine, GfxGoes, AInv, RInv, IInv, TypeOK
  <2>2. QED
    BY <1>1, <1>3, <2>1 DEF AInv, Roles, OneAtWork, RestoresActive, ActiveOnly, Quiet, Stays
<1>7. CASE Releases
  <2>1. gfx.at \in {"construct", "warm"} /\ UNCHANGED <<gpuLock, previous>>
    BY <1>7 DEF Releases, Dependable
  <2>2. gfx'.at = "start" /\ gfx'.tries = <<previous, Shipped, Fallback>>
    BY <1>7 DEF Releases, RestoreOrder
  <2>3. QED
    BY <1>1, <1>3, <2>1, <2>2 DEF AInv, Roles, OneAtWork, RestoresActive, ActiveOnly, Quiet, Stays
<1>8. QED
  BY <1>4, <1>5, <1>6, <1>7

(* What graphics try next is the next of the restores, of which the        *)
(* fallback is the last.                                                   *)
LEMMA NextTry ==
  ASSUME AInv, gfx.at \in {"start", "wait"}, TriesNext, Head(gfx.tries) # Fallback,
         UNCHANGED <<file, mgr, previous>>
  PROVE  Roles'
<1>1. mgr.at = "idle" /\ FallbackLast' /\ gpuLock = "graphics"
  BY ManagerIdle
<1>2. previous = file.active /\ previous \in Texts /\ {Shipped, Fallback} \subseteq Texts
  BY UnitsAssumption DEF AInv, Roles, RestoresActive, RInv, IInv, TypeOK
<1>3. /\ Len(gfx.tries) > 1
      /\ Tail(gfx.tries) \in {<<Shipped, Fallback>>, <<Fallback>>}
  <2>1. CASE gfx.tries = <<previous, Shipped, Fallback>>
    BY <2>1
  <2>2. CASE gfx.tries = <<Shipped, Fallback>>
    BY <2>2
  <2>3. QED
    BY <2>1, <2>2 DEF AInv, Roles, RestoresActive
<1>4. gfx'.at = "start" /\ gfx'.tries = Tail(gfx.tries) /\ UNCHANGED gpuLock
  <2>1. gfx' = [at |-> "start", tries |-> Tail(gfx.tries)] /\ UNCHANGED gpuLock
    BY <1>3 DEF TriesNext
  <2>2. QED
    BY <2>1
<1>5. QED
  BY <1>1, <1>2, <1>3, <1>4 DEF AInv, Roles, OneAtWork, RestoresActive, ActiveOnly, Quiet, Stays

(* Graphics start a text model and wait for it: it is up in the end, and   *)
(* is the one that the state file names.                                   *)
LEMMA RestoreRoles ==
  ASSUME Dependable, AInv, StartsText \/ TextStarted \/ TextNotStarted
  PROVE  Roles'
<1>1. gfx.at \in {"start", "wait"} /\ UNCHANGED <<mgr, previous>>
  BY DEF StartsText, TextStarted, TextNotStarted
<1>2. mgr.at = "idle" /\ FallbackLast' /\ gpuLock = "graphics"
  BY <1>1, ManagerIdle
<1>3. /\ previous = file.active
      /\ gfx.tries \in {<<previous, Shipped, Fallback>>, <<Shipped, Fallback>>, <<Fallback>>}
      /\ Head(gfx.tries) \in Texts /\ Head(gfx.tries) \in Units
  BY <1>1 DEF AInv, Roles, RestoresActive, RInv, IInv, TypeOK, TriesLeft, Units
<1>4. CASE StartsText
  <2>1. PICK outcome \in Outcomes(Head(gfx.tries)) :
          /\ unit' = AfterStart(Head(gfx.tries), outcome)
          /\ IF outcome = "ok" THEN gfx' = [gfx EXCEPT !.at = "wait"] /\ UNCHANGED gpuLock
                               ELSE TriesNext
    BY <1>4 DEF StartsText
  <2>2. unit'[Head(gfx.tries)] \notin {"off", "stopping"} /\ UNCHANGED file
    BY <1>3, <1>4, <2>1, OutcomeIsKnown, Starting DEF StartsText, AInv, RInv, IInv
  <2>3. CASE outcome = "ok"
    <3>1. gfx'.at = "wait" /\ gfx'.tries = gfx.tries /\ UNCHANGED gpuLock
      BY <2>1, <2>3 DEF AInv, RInv, IInv, TypeOK
    <3>2. QED
      BY <1>1, <1>2, <1>3, <2>2, <3>1 DEF Roles, OneAtWork, RestoresActive, ActiveOnly, Quiet, Stays
  <2>4. CASE outcome # "ok"
    <3>1. Head(gfx.tries) # Fallback
      BY <2>1, <2>4, TextsStart
    <3>2. QED
      BY <1>1, <2>1, <2>2, <2>4, <3>1, NextTry
  <2>5. QED
    BY <2>3, <2>4
<1>5. CASE TextStarted
  <2>1. /\ unit[Head(gfx.tries)] = "ready" /\ UNCHANGED unit
        /\ gfx'.at = "cold" /\ gpuLock' = "free"
    BY <1>2, <1>5 DEF TextStarted, GfxEnds
  <2>2. file'.active = Head(gfx.tries)
    <3>1. CASE gfx.tries = <<previous, Shipped, Fallback>>
      <4>1. Len(gfx.tries) = 3 /\ Len(RestoreOrder) = 3 /\ Head(gfx.tries) = previous
        BY <3>1 DEF RestoreOrder
      <4>2. UNCHANGED file
        BY <1>5, <4>1 DEF TextStarted
      <4>3. QED
        BY <1>3, <4>1, <4>2
    <3>2. CASE gfx.tries # <<previous, Shipped, Fallback>>
      <4>1. Len(gfx.tries) < Len(RestoreOrder)
        <5> DEFINE n == Len(gfx.tries)
                   k == Len(RestoreOrder)
        <5>1. n \in {1, 2}
          BY <1>3, <3>2
        <5>2. k = 3
          BY DEF RestoreOrder
        <5> HIDE DEF n, k
        <5>3. n < k
          BY <5>1, <5>2
        <5>4. QED
          BY <5>3 DEF n, k
      <4>2. file' = [file EXCEPT !.active = Head(gfx.tries)]
        BY <1>2, <1>5, <4>1 DEF TextStarted
      <4>3. QED
        BY <4>2 DEF AInv, RInv, IInv, TypeOK
    <3>3. QED
      BY <3>1, <3>2
  <2>3. \A t \in Texts : Stays(t) => t = Head(gfx.tries)
    BY <1>3, <2>1 DEF AInv, RInv, IInv, Core, AtMostOne, Stays, Units
  <2>4. QED
    BY <1>1, <1>2, <2>1, <2>2, <2>3 DEF Roles, OneAtWork, RestoresActive, ActiveOnly, Stays
<1>6. CASE TextNotStarted
  <2>1. gfx.at = "wait" /\ NeverHealthy(Head(gfx.tries)) /\ TriesNext /\ UNCHANGED file
    BY <1>6 DEF TextNotStarted
  <2>2. Stays(Head(gfx.tries))
    BY <2>1 DEF AInv, Roles, RestoresActive
  <2>3. Head(gfx.tries) # Fallback
    BY <2>1, <2>2, FallbackIsHealthy
  <2>4. QED
    BY <1>1, <2>1, <2>3, NextTry
<1>7. QED
  BY <1>4, <1>5, <1>6

(* Every step keeps the roles.                                             *)
LEMMA RolesStep ==
  ASSUME Dependable, AInv, [Next]_vars
  PROVE  Roles'
<1>1. CASE \E u \in Units : Loads(u) \/ Stops(u) \/ Retries(u) \/ Crashes(u)
  BY <1>1, UnitRoles
<1>2. CASE \E target \in Texts, choice \in BOOLEAN :
             AdminSwitches(target, choice) \/ Switches(target, choice)
  BY <1>2, SwitchRoles DEF AdminSwitches
<1>3. CASE RestoreBegins \/ OcrBegins
  BY <1>3, BeginRoles DEF RestoreBegins, OcrBegins
<1>4. CASE LoadBegins \/ SwitchesEngine \/ Releases
  BY <1>4, SessionRoles
<1>5. CASE MgrWork
  BY <1>5, ManagerRoles
<1>6. CASE GfxWork
  <2>1. ~GraphicsBoots
    BY DEF GraphicsBoots, AInv, Roles, OneAtWork
  <2>2. QED
    BY <1>6, <2>1, SessionRoles, RestoreRoles DEF GfxWork
<1>7. ~ManagerDies /\ ~GraphicsDies
  BY DEF ManagerDies, GraphicsDies, Dependable
<1>8. CASE UNCHANGED vars
  BY <1>8 DEF vars, AInv, Roles, OneAtWork, FallbackLast, RestoresActive, ActiveOnly, Quiet, Stays
<1>9. QED
  BY <1>1, <1>2, <1>3, <1>4, <1>5, <1>6, <1>7, <1>8 DEF Next

(* The strengthened invariant holds at first, and every step keeps it.     *)
LEMMA ActiveInit == Init => AInv
<1> SUFFICES ASSUME Init PROVE AInv
  OBVIOUS
<1>1. ManagerStaysUp /\ GraphicsAlone
  BY DEF Init, Idle, ManagerStaysUp, GraphicsAlone
<1>2. OneAtWork /\ FallbackLast /\ RestoresActive
  BY DEF Init, Idle, OneAtWork, FallbackLast, RestoresActive
<1>3. ActiveOnly
  BY DEF Init, ActiveOnly, Units, Stays
<1>4. QED
  BY <1>1, <1>2, <1>3, InvariantInit DEF AInv, RInv, Roles

LEMMA ActiveStep ==
  ASSUME Dependable, AInv, [Next]_vars
  PROVE  AInv'
<1>1. NoRestart
  BY DEF Dependable, NoRestart
<1>2. QED
  BY <1>1, RestartFreeStep, RolesStep DEF AInv

(* Between operations a text model that answers is the one that            *)
(* model_state.json names, whichever models fail, hang or crash but the    *)
(* fallback, as long as no manager is restarted and no start of a text     *)
(* model outlasts its caller's timeout.                                    *)
THEOREM ActiveIsResidentHolds == Dependable => (Spec => []ActiveIsResident)
<1> SUFFICES ASSUME Dependable PROVE Spec => []ActiveIsResident
  OBVIOUS
<1>1. AInv /\ [Next]_vars => AInv'
  BY ActiveStep
<1>2. AInv => ActiveIsResident
  BY DEF AInv, Roles, ActiveOnly, ActiveIsResident, Stays
<1>3. QED
  BY ActiveInit, <1>1, <1>2, PTL DEF Spec

-----------------------------------------------------------------------------
(* No two units at all, not even for a moment, when text models start as   *)
(* they are told; OCR may fail, hang or be late, and any unit may crash.   *)

TextsAreSound == Faults = {} /\ Texts \cap (Flaky \cup Slow) = {}

(* Whoever starts a unit has stopped the others, and waited for them.      *)
OneByOne ==
  /\ \A u \in Units : unit[u] # "stopping"
  /\ mgr.at = "start" => \A u \in Units \ {mgr.target} : unit[u] = "off"
  /\ mgr.at = "ocrStart" => \A u \in Units : unit[u] = "off"
  /\ gfx.at = "start" => \A u \in Units : unit[u] = "off"

(* A start that displaces nothing leaves nothing that stops.               *)
LEMMA StartingAlone ==
  ASSUME TypeOK, NEW u \in Units, NEW outcome \in {"ok", "refused", "late"},
         unit[u] # "stopping", \A v \in Units \ {u} : unit[v] = "off"
  PROVE  /\ \A v \in Units : AfterStart(u, outcome)[v] # "stopping"
         /\ \A v \in Units \ {u} : AfterStart(u, outcome)[v] = "off"
BY Starting

(* A text model starts, and becomes healthy.                               *)
LEMMA SoundTexts ==
  ASSUME TextsAreSound, NEW t \in Texts
  PROVE  Outcomes(t) = {"ok"} /\ (Stays(t) => ~NeverHealthy(t))
BY DEF TextsAreSound, Outcomes, NeverHealthy, Stays

(* Units that load, crash or are started again by systemd.                 *)
LEMMA UnitAlone ==
  ASSUME AInv, OneByOne, NEW u \in Units, Loads(u) \/ Stops(u) \/ Retries(u) \/ Crashes(u)
  PROVE  OneByOne'
<1> USE DEF OneByOne
<1>1. UNCHANGED <<mgr, gfx>> /\ unit[u] \notin {"off", "stopping"}
  BY DEF Loads, Stops, Retries, Crashes
<1>2. CASE Loads(u) \/ Crashes(u)
  BY <1>1, <1>2 DEF Loads, Crashes, AInv, RInv, IInv, TypeOK
<1>3. CASE Retries(u)
  <2>1. \A v \in Units \ {u} : unit[v] = "off"
    BY <1>1 DEF AInv, RInv, IInv, Core, AtMostOne, Stays
  <2>2. unit' = AfterStart(u, "ok")
    BY <1>3 DEF Retries
  <2>3. /\ \A v \in Units : unit'[v] # "stopping"
        /\ \A v \in Units \ {u} : unit'[v] = "off"
    BY <2>1, <2>2, StartingAlone DEF AInv, RInv, IInv
  <2>4. QED
    BY <1>1, <2>3
<1>4. ~Stops(u)
  BY DEF Stops
<1>5. QED
  BY <1>2, <1>3, <1>4

(* The manager stops all other units before it starts one.                 *)
LEMMA ManagerAlone ==
  ASSUME TextsAreSound, AInv, OneByOne, MgrWork
  PROVE  OneByOne'
<1> USE DEF OneByOne
<1>1. TypeOK /\ mgr.target \in Texts /\ mgr.target \in Units /\ mgr.at # "idle" /\ gfx.at = "cold"
  BY DEF MgrWork, StopOthers, StartTarget, Served, NotServed, OcrStops, OcrStarts, OcrReady, OcrOver,
     ManagerBoots, MgrGoes, AInv, RInv, IInv, TypeOK, Units, Roles, OneAtWork
<1>2. CASE StopOthers
  <2>1. mgr.at = "stop" /\ mgr'.at = "start" /\ mgr'.target = mgr.target /\ UNCHANGED gfx
    BY <1>1, <1>2 DEF StopOthers, MgrGoes, TypeOK
  <2>2. \A u \in Units : unit'[u] = IF u \in StoppedFirst THEN "off" ELSE unit[u]
    BY <1>1, <1>2, Stopping DEF StopOthers
  <2>3. \A u \in Units \ {mgr.target} : unit'[u] = "off"
    BY <2>1, <2>2 DEF StoppedFirst, Units, AInv, RInv, IInv, Core, OcrWhere
  <2>4. QED
    BY <1>1, <2>1, <2>2, <2>3
<1>3. CASE StartTarget
  <2>1. mgr.at = "start" /\ unit' = AfterStart(mgr.target, "ok") /\ UNCHANGED gfx
    BY <1>1, <1>3, SoundTexts DEF StartTarget
  <2>2. mgr'.at = "wait"
    BY <1>1, <1>3, SoundTexts DEF StartTarget, Raises, TypeOK
  <2>3. QED
    BY <1>1, <2>1, <2>2, StartingAlone
<1>4. CASE Served
  BY <1>1, <1>4 DEF Served, Ends, Idle
<1>5. ~NotServed
  BY <1>1, SoundTexts DEF NotServed, AInv, Roles, FallbackLast
<1>6. CASE OcrStops
  <2>1. mgr.at = "ocrStop" /\ mgr'.at = "ocrStart" /\ UNCHANGED gfx
    BY <1>1, <1>6 DEF OcrStops, MgrGoes, TypeOK
  <2>2. \A u \in Units : unit'[u] = "off"
    BY <1>1, <1>6, <2>1, Stopping DEF OcrStops, Units, AInv, RInv, IInv, Core, OcrWhere
  <2>3. QED
    BY <1>1, <2>1, <2>2
<1>7. CASE OcrStarts
  <2>1. PICK outcome \in {"ok", "refused", "late"} : unit' = AfterStart(Ocr, outcome)
    BY <1>7, OutcomeIsKnown DEF OcrStarts, Units
  <2>2. mgr.at = "ocrStart" /\ mgr'.at \in {"ocrWait", "stop"} /\ UNCHANGED gfx
    BY <1>1, <1>7 DEF OcrStarts, TypeOK
  <2>3. \A u \in Units : unit'[u] # "stopping"
    BY <1>1, <2>1, <2>2, StartingAlone DEF Units
  <2>4. QED
    BY <1>1, <2>2, <2>3
<1>8. CASE OcrReady \/ OcrOver
  BY <1>1, <1>8 DEF OcrReady, OcrOver, MgrGoes, TypeOK
<1>9. ~ManagerBoots
  BY DEF ManagerBoots, AInv, RInv, ManagerStaysUp
<1>10. QED
  BY <1>2, <1>3, <1>4, <1>5, <1>6, <1>7, <1>8, <1>9 DEF MgrWork

(* Graphics have stopped the text models before they start one.            *)
LEMMA GraphicsOneByOne ==
  ASSUME TextsAreSound, AInv, OneByOne, LoadBegins \/ SwitchesEngine \/ Releases \/ GfxWork
  PROVE  OneByOne'
<1> USE DEF OneByOne
<1>1. TypeOK /\ mgr.at = "idle" /\ UNCHANGED mgr
  BY ManagerIdle DEF LoadBegins, MayLoad, SwitchesEngine, Releases, GfxWork, InferenceIdle, StopTexts,
     Constructs, StartsText, TextStarted, TextNotStarted, GraphicsBoots, GfxGoes, AInv, RInv, IInv
<1>2. CASE LoadBegins \/ SwitchesEngine \/ InferenceIdle \/ Constructs
  BY <1>1, <1>2 DEF LoadBegins, SwitchesEngine, InferenceIdle, Constructs, GfxGoes, TypeOK
<1>3. CASE StopTexts
  <2>1. gfx'.at = "construct" /\ \A u \in Units : unit'[u] # "stopping"
    BY <1>1, <1>3, Stopping DEF StopTexts, GfxGoes, TypeOK
  <2>2. QED
    BY <1>1, <2>1
<1>4. CASE Releases
  <2>1. \A u \in Units : unit[u] = "off"
    BY <1>4 DEF Releases, TextsAreSound, AInv, RInv, GraphicsAlone
  <2>2. QED
    BY <1>1, <1>4, <2>1 DEF Releases
<1>5. CASE StartsText \/ TextStarted \/ TextNotStarted
  <2>1. Head(gfx.tries) \in Texts /\ Head(gfx.tries) \in Units
    BY <1>5 DEF StartsText, TextStarted, TextNotStarted, AInv, RInv, IInv, TypeOK, TriesLeft, Units
  <2>2. CASE StartsText
    <3>1. gfx.at = "start" /\ unit' = AfterStart(Head(gfx.tries), "ok") /\ gfx'.at = "wait"
      BY <1>1, <2>1, <2>2, SoundTexts DEF StartsText, TypeOK
    <3>2. QED
      BY <1>1, <2>1, <3>1, StartingAlone
  <2>3. CASE TextStarted
    BY <1>1, <2>3 DEF TextStarted, GfxEnds
  <2>4. ~TextNotStarted
    BY <2>1, SoundTexts DEF TextNotStarted, AInv, Roles, RestoresActive
  <2>5. QED
    BY <1>5, <2>2, <2>3, <2>4
<1>6. ~GraphicsBoots
  BY DEF GraphicsBoots, AInv, Roles, OneAtWork
<1>7. QED
  BY <1>2, <1>3, <1>4, <1>5, <1>6 DEF GfxWork

(* Every step keeps units apart.                                           *)
LEMMA OneByOneStep ==
  ASSUME TextsAreSound, AInv, OneByOne, [Next]_vars
  PROVE  OneByOne'
<1>1. CASE \E u \in Units : Loads(u) \/ Stops(u) \/ Retries(u) \/ Crashes(u)
  BY <1>1, UnitAlone
<1>2. ASSUME NEW at \in {"stop", "ocrStop"}, NEW op, NEW target, NEW default, Begin(at, op, target, default)
      PROVE  OneByOne'
  BY <1>2 DEF Begin, OneByOne
<1>3. CASE RestoreBegins \/ OcrBegins \/ \E target \in Texts, choice \in BOOLEAN :
             AdminSwitches(target, choice) \/ Switches(target, choice)
  BY <1>2, <1>3 DEF RestoreBegins, OcrBegins, AdminSwitches, Switches, OneByOne
<1>4. ~ManagerDies /\ ~GraphicsDies
  BY DEF ManagerDies, GraphicsDies, TextsAreSound
<1>5. CASE UNCHANGED vars
  BY <1>5 DEF vars, OneByOne
<1>6. QED
  BY <1>1, <1>3, <1>4, <1>5, ManagerAlone, GraphicsOneByOne DEF Next

(* "One heavy GPU model at a time", strictly, Conflicts= without an order  *)
(* or not: where no process restarts and the text models start when they   *)
(* are told, no unit is started while another is there or still stopping,  *)
(* whichever units crash and whatever OCR does.                            *)
THEOREM OverlapTakesAFailure == TextsAreSound => (Spec => []NoOverlap)
<1> SUFFICES ASSUME TextsAreSound PROVE Spec => []NoOverlap
  OBVIOUS
<1>1. Dependable
  BY UnitsAssumption DEF TextsAreSound, Dependable
<1>2. Init => AInv
  BY ActiveInit
<1>3. Init => OneByOne
  BY DEF Init, OneByOne, Idle
<1>4. AInv /\ OneByOne /\ [Next]_vars => AInv' /\ OneByOne'
  BY <1>1, ActiveStep, OneByOneStep
<1>5. AInv /\ OneByOne => NoOverlap
  BY DEF AInv, RInv, IInv, Core, AtMostOne, OneByOne, NoOverlap, Resident, Stays
<1>6. QED
  BY <1>2, <1>3, <1>4, <1>5, PTL DEF Spec
=============================================================================
