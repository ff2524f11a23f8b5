------------------------- MODULE PrefixGuard_proofs -------------------------
(***************************************************************************)
(* Proofs about PrefixGuard, for every catalog, every bound, and (except   *)
(* where a hypothesis says otherwise) with or without an advisor,          *)
(* onboarding, failing appends and overlapping compactions.                *)
(***************************************************************************)
EXTENDS PrefixGuard, TLAPS

\* Labels at which the task holds a request it has built.
Building == {"windowed", "drift", "check", "chat", "usage", "save"}

\* An event about to be recorded has a cause, and remembers a model to roll
\* back to.
DebtOK(debt) == /\ debt.cause = "none" => debt.seq = 0
                /\ debt.cause # "none" => debt.undo \in Models

\* What TypeOK needs to be inductive: a built request exists where it is used,
\* a maintenance pass is counted only below the latch, and debts are well formed.
ControlInv ==
    /\ taskPc \in Building => built \in Prefixes
    /\ taskPc \in {"maintaining", "reclaiming"} => passes < 2
    /\ \A p \in Processes : DebtOK(owed[p])

TypeInv == TypeOK /\ ControlInv

USE DEF Go, GoManual

LEMMA InitTypeInv == ASSUME Init PROVE TypeInv
<1> USE DEF Init
<1>1. wire \in Prefixes
  BY DEF Prefixes
<1>2. owed \in [Processes -> Debts] /\ \A p \in Processes : owed[p] = NoDebt
  BY DEF Debts, NoDebt
<1>3. warm \in [Models -> Nat \cup {Cold}]
  OBVIOUS
<1>4. events \in Seq([cause : Causes, seq : Nat]) /\ changed \in SUBSET Regions
  OBVIOUS
<1>5. TypeOK
  <2>1. taskPc \in TaskPcs /\ manualPc \in ManualPcs
    BY DEF TaskPcs, ManualPcs
  <2>2. passes \in 0 .. 2
    OBVIOUS
  <2>3. sent \subseteq [seq : Nat, wire : Prefixes, changed : SUBSET Regions,
                       flip : BOOLEAN, life : Nat]
    OBVIOUS
  <2> QED BY <1>1, <1>2, <1>3, <1>4, <2>1, <2>2, <2>3 DEF TypeOK
<1>6. ControlInv
  BY <1>2 DEF ControlInv, DebtOK, Building, NoDebt
<1> QED BY <1>5, <1>6 DEF TypeInv

-----------------------------------------------------------------------------
(* How the helpers that touch the ledger and the debts keep their types.   *)

LEMMA IncurType ==
    ASSUME TypeInv, NEW p \in Processes, NEW cause \in Causes, Incur(p, cause)
    PROVE  /\ owed' \in [Processes -> Debts]
           /\ \A q \in Processes : DebtOK(owed'[q])
<1> DEFINE debt == [cause |-> cause, seq |-> 0, undo |-> wire.model]
<1>1. debt \in Debts /\ DebtOK(debt)
  BY DEF TypeInv, TypeOK, Prefixes, Debts, DebtOK, Causes, HistoryCauses
<1>2. owed' = [owed EXCEPT ![p] = debt]
  BY DEF Incur
<1> HIDE DEF debt
<1> QED BY <1>1, <1>2 DEF TypeInv, TypeOK, ControlInv

LEMMA ClearType ==
    ASSUME TypeInv, NEW p \in Processes, owed' = [owed EXCEPT ![p] = NoDebt]
    PROVE  /\ owed' \in [Processes -> Debts]
           /\ \A q \in Processes : DebtOK(owed'[q])
<1>1. NoDebt \in Debts /\ DebtOK(NoDebt)
  BY DEF NoDebt, Debts, DebtOK
<1> QED BY <1>1 DEF TypeInv, TypeOK, ControlInv

LEMMA RecordedType ==
    ASSUME TypeInv, NEW p \in Processes, Recorded(p)
    PROVE  /\ owed' \in [Processes -> Debts]
           /\ \A q \in Processes : DebtOK(owed'[q])
           /\ events' \in Seq([cause : Causes, seq : Nat])
<1>1. owed[p] \in Debts /\ owed[p].cause \in Causes
  BY DEF TypeInv, TypeOK, ControlInv, DebtOK, Debts, Recorded
<1>2. [cause |-> owed[p].cause, seq |-> owed[p].seq] \in [cause : Causes, seq : Nat]
  BY <1>1 DEF Debts
<1>3. events' \in Seq([cause : Causes, seq : Nat])
  BY <1>2 DEF TypeInv, TypeOK, Recorded
<1> QED BY <1>3, ClearType DEF Recorded

LEMMA RefusedType ==
    ASSUME TypeInv, NEW p \in Processes, Refused(p)
    PROVE  /\ owed' \in [Processes -> Debts]
           /\ \A q \in Processes : DebtOK(owed'[q])
           /\ events' = events
  BY ClearType DEF Refused

LEMMA RewriteType ==
    ASSUME TypeInv, RewriteHistory
    PROVE  wire' \in Prefixes
  BY DEF TypeInv, TypeOK, RewriteHistory, Prefixes

LEMMA SettleTaskType ==
    ASSUME TypeInv, NEW from, NEW ok \in TaskPcs, NEW failed \in TaskPcs,
           SettleTask(from, ok, failed)
    PROVE  /\ taskPc = from /\ taskPc' \in {ok, failed}
           /\ owed' \in [Processes -> Debts]
           /\ \A q \in Processes : DebtOK(owed'[q])
           /\ events' \in Seq([cause : Causes, seq : Nat])
           /\ owed["task"].undo \in Models
<1>1. CASE Recorded("task") /\ taskPc' = ok
  <2>1. owed["task"].undo \in Models
    BY <1>1 DEF Recorded, TypeInv, ControlInv, DebtOK, Processes
  <2> QED BY <1>1, <2>1, RecordedType DEF SettleTask, Processes
<1>2. CASE Refused("task") /\ taskPc' = failed
  <2>1. owed["task"].undo \in Models
    BY <1>2 DEF Refused, TypeInv, ControlInv, DebtOK, Processes
  <2> QED BY <1>2, <2>1, RefusedType DEF SettleTask, Processes, TypeInv, TypeOK
<1> QED BY <1>1, <1>2 DEF SettleTask

LEMMA SwitchModelType ==
    ASSUME TypeInv, NEW from, NEW to \in {"substituting", "switching"},
           SwitchModel(from, to)
    PROVE  TypeInv'
<1>1. wire' \in Prefixes
  BY DEF SwitchModel, TypeInv, TypeOK, Prefixes
<1>2. owed' \in [Processes -> Debts] /\ \A q \in Processes : DebtOK(owed'[q])
  BY IncurType DEF SwitchModel, Processes, Causes
<1> QED
  BY <1>1, <1>2 DEF SwitchModel, TypeInv, TypeOK, ControlInv, TaskPcs, Building,
                    ledgerVars, shapeVars, cacheVars, lifeVars

LEMMA SettleSwitchType ==
    ASSUME TypeInv, NEW from, NEW to \in {"advisor", "onboarding"},
           SettleSwitch(from, to)
    PROVE  TypeInv'
<1>1. SettleTask(from, to, to) /\ to \in TaskPcs
  BY DEF SettleSwitch, TaskPcs
<1>2. /\ taskPc' = to /\ owed' \in [Processes -> Debts]
      /\ \A q \in Processes : DebtOK(owed'[q])
      /\ events' \in Seq([cause : Causes, seq : Nat])
      /\ owed["task"].undo \in Models
  BY <1>1, SettleTaskType
<1>3. wire' \in Prefixes /\ saved' \in BOOLEAN
  BY <1>2 DEF SettleSwitch, TypeInv, TypeOK, Prefixes
<1> QED
  BY <1>1, <1>2, <1>3 DEF SettleSwitch, SettleTask, TypeInv, TypeOK, ControlInv, TaskPcs,
                          Building, ledgerVars, shapeVars, cacheVars, lifeVars

LEMMA MaintainType ==
    ASSUME TypeInv, NEW from, NEW to \in {"maintaining", "reclaiming"}, Maintain(from, to)
    PROVE  TypeInv'
<1>1. wire' \in Prefixes
  BY RewriteType DEF Maintain
<1>2. owed' \in [Processes -> Debts] /\ \A q \in Processes : DebtOK(owed'[q])
  BY IncurType DEF Maintain, Processes, Causes, HistoryCauses
<1> QED
  BY <1>1, <1>2 DEF Maintain, TypeInv, TypeOK, ControlInv, TaskPcs, Building,
                    ledgerVars, shapeVars, cacheVars, lifeVars

LEMMA SettleMaintenanceType ==
    ASSUME TypeInv, NEW from \in {"maintaining", "reclaiming"},
           NEW to \in {"turn", "reclaimed"}, SettleMaintenance(from, to)
    PROVE  TypeInv'
<1>1. SettleTask(from, to, "idle") /\ to \in TaskPcs /\ "idle" \in TaskPcs
  BY DEF SettleMaintenance, TaskPcs
<1>2. /\ taskPc = from /\ taskPc' \in {to, "idle"} /\ owed' \in [Processes -> Debts]
      /\ \A q \in Processes : DebtOK(owed'[q])
      /\ events' \in Seq([cause : Causes, seq : Nat])
  BY <1>1, SettleTaskType
<1>3. passes' \in 0 .. 2
  BY <1>2 DEF SettleMaintenance, TypeInv, TypeOK, ControlInv
<1> QED
  BY <1>1, <1>2, <1>3 DEF SettleMaintenance, SettleTask, TypeInv, TypeOK, ControlInv,
                          TaskPcs, Building, ledgerVars, shapeVars, cacheVars, lifeVars

-----------------------------------------------------------------------------
(* Every action preserves the type invariant.                              *)

LEMMA StepTypeInv == ASSUME TypeInv, [Next]_vars PROVE TypeInv'
<1>1. CASE StartTask
  BY <1>1 DEF StartTask, TypeInv, TypeOK, ControlInv, TaskPcs, ManualPcs, Building,
         ledgerVars, shapeVars, cacheVars, lifeVars
<1>2. CASE ReconcileCatalog
  <2>1. CASE SwitchModel("reconcile", "substituting")
    BY <2>1, SwitchModelType
  <2>2. CASE SettleSwitch("substituting", "advisor")
    BY <2>2, SettleSwitchType
  <2> QED BY <1>2, <2>1, <2>2 DEF ReconcileCatalog, TypeInv, TypeOK, ControlInv, TaskPcs, ManualPcs, Building,
         ledgerVars, shapeVars, cacheVars, lifeVars
<1>3. CASE AdvisorCall
  BY <1>3 DEF AdvisorCall, AuxUsage, TypeInv, TypeOK, ControlInv, TaskPcs, ManualPcs, Building,
         ledgerVars, shapeVars, cacheVars, lifeVars
<1>4. CASE AdvisorDecision
  <2>1. CASE SwitchModel("decide", "switching")
    BY <2>1, SwitchModelType
  <2>2. CASE SettleSwitch("switching", "onboarding")
    BY <2>2, SettleSwitchType
  <2> QED BY <1>4, <2>1, <2>2 DEF AdvisorDecision, TypeInv, TypeOK, ControlInv, TaskPcs, ManualPcs, Building,
         ledgerVars, shapeVars, cacheVars, lifeVars
<1>5. CASE OnboardingCall
  BY <1>5 DEF OnboardingCall, AuxUsage, TypeInv, TypeOK, ControlInv, TaskPcs, ManualPcs, Building,
         ledgerVars, shapeVars, cacheVars, lifeVars
<1>6. CASE BoundaryToolChange
  <2>1. CASE Incur("task", "toolset_change")
    <3>1. owed' \in [Processes -> Debts] /\ \A q \in Processes : DebtOK(owed'[q])
      BY <2>1, IncurType DEF Processes, Causes
    <3> QED BY <1>6, <2>1, <3>1 DEF BoundaryToolChange, TypeInv, TypeOK, ControlInv, TaskPcs, ManualPcs, Building,
         ledgerVars, shapeVars, cacheVars, lifeVars
  <2> QED BY <1>6, <2>1 DEF BoundaryToolChange, TypeInv, TypeOK, ControlInv, TaskPcs, ManualPcs, Building,
         ledgerVars, shapeVars, cacheVars, lifeVars
<1>7. CASE Retool
  <2>1. SettleTask("retooling", "prologue", "idle") /\ "prologue" \in TaskPcs /\ "idle" \in TaskPcs
    BY <1>7 DEF Retool, TaskPcs
  <2>2. /\ taskPc' \in {"prologue", "idle"} /\ owed' \in [Processes -> Debts]
        /\ \A q \in Processes : DebtOK(owed'[q])
        /\ events' \in Seq([cause : Causes, seq : Nat])
    BY <2>1, SettleTaskType
  <2>3. wire' \in Prefixes
    BY <1>7 DEF Retool, TypeInv, TypeOK, Prefixes
  <2> QED BY <1>7, <2>1, <2>2, <2>3 DEF Retool, SettleTask, TypeInv, TypeOK, ControlInv, TaskPcs, ManualPcs, Building,
         ledgerVars, shapeVars, cacheVars, lifeVars
<1>8. CASE StaleResumePrune
  <2>1. CASE RewriteHistory /\ Incur("task", "fold")
    <3>1. owed' \in [Processes -> Debts] /\ \A q \in Processes : DebtOK(owed'[q])
      BY <2>1, IncurType DEF Processes, Causes, HistoryCauses
    <3>2. wire' \in Prefixes
      BY <2>1, RewriteType
    <3> QED BY <1>8, <3>1, <3>2, ZenonT(30) DEF StaleResumePrune, TypeInv, TypeOK, ControlInv, TaskPcs, ManualPcs, Building,
         ledgerVars, shapeVars, cacheVars, lifeVars
  <2> QED BY <1>8, <2>1 DEF StaleResumePrune, TypeInv, TypeOK, ControlInv, TaskPcs, ManualPcs, Building,
         ledgerVars, shapeVars, cacheVars, lifeVars
<1>9. CASE SettlePrune
  <2>1. SettleTask("pruning", "boundary", "idle") /\ "boundary" \in TaskPcs /\ "idle" \in TaskPcs
    BY <1>9 DEF SettlePrune, TaskPcs
  <2>2. /\ taskPc' \in {"boundary", "idle"} /\ owed' \in [Processes -> Debts]
        /\ \A q \in Processes : DebtOK(owed'[q])
        /\ events' \in Seq([cause : Causes, seq : Nat])
    BY <2>1, SettleTaskType
  <2> QED BY <1>9, <2>1, <2>2 DEF SettlePrune, SettleTask, TypeInv, TypeOK, ControlInv, TaskPcs, ManualPcs, Building,
         ledgerVars, shapeVars, cacheVars, lifeVars
<1>10. CASE TaskBoundary
  <2>1. CASE Maintain("boundary", "maintaining")
    BY <2>1, MaintainType
  <2>2. CASE SettleMaintenance("maintaining", "turn")
    BY <2>2, SettleMaintenanceType
  <2> QED BY <1>10, <2>1, <2>2 DEF TaskBoundary, TypeInv, TypeOK, ControlInv, TaskPcs, ManualPcs, Building,
         ledgerVars, shapeVars, cacheVars, lifeVars
<1>11. CASE Turn
  <2>1. CASE Maintain("turn", "reclaiming")
    BY <2>1, MaintainType
  <2>2. CASE SettleMaintenance("reclaiming", "reclaimed")
    BY <2>2, SettleMaintenanceType
  <2> QED BY <1>11, <2>1, <2>2 DEF Turn, TypeInv, TypeOK, ControlInv, TaskPcs, ManualPcs, Building,
         ledgerVars, shapeVars, cacheVars, lifeVars
<1>12. CASE AutoCompact
  <2>1. CASE RewriteHistory /\ Incur("task", "compact") /\ taskPc' = "compacted"
    <3>1. owed' \in [Processes -> Debts] /\ \A q \in Processes : DebtOK(owed'[q])
      BY <2>1, IncurType DEF Processes, Causes, HistoryCauses
    <3>2. wire' \in Prefixes
      BY <2>1, RewriteType
    <3> QED BY <1>12, <2>1, <3>1, <3>2 DEF AutoCompact, SettleTask, TypeInv, TypeOK, ControlInv, TaskPcs, ManualPcs, Building,
         ledgerVars, shapeVars, cacheVars, lifeVars
  <2>2. CASE SettleTask("compacted", "build", "idle")
    <3>1. "build" \in TaskPcs /\ "idle" \in TaskPcs
      BY DEF TaskPcs
    <3>2. /\ taskPc = "compacted" /\ taskPc' \in {"build", "idle"}
          /\ owed' \in [Processes -> Debts]
          /\ \A q \in Processes : DebtOK(owed'[q])
          /\ events' \in Seq([cause : Causes, seq : Nat])
      BY <2>2, <3>1, SettleTaskType
    <3> QED BY <1>12, <2>2, <3>2 DEF AutoCompact, SettleTask, TypeInv, TypeOK, ControlInv, TaskPcs, ManualPcs, Building,
         ledgerVars, shapeVars, cacheVars, lifeVars
  <2> QED BY <1>12, <2>1, <2>2 DEF AutoCompact, AuxUsage, TypeInv, TypeOK, ControlInv, TaskPcs, ManualPcs, Building,
         ledgerVars, shapeVars, cacheVars, lifeVars
<1>13. CASE Build
  <2>1. CASE RewriteHistory /\ Incur("task", "window_drop")
    <3>1. owed' \in [Processes -> Debts] /\ \A q \in Processes : DebtOK(owed'[q])
      BY <2>1, IncurType DEF Processes, Causes, HistoryCauses
    <3>2. wire' \in Prefixes
      BY <2>1, RewriteType
    <3> QED BY <1>13, <3>1, <3>2 DEF Build, TypeInv, TypeOK, ControlInv, TaskPcs, ManualPcs, Building,
         ledgerVars, shapeVars, cacheVars, lifeVars
  <2> QED BY <1>13, <2>1 DEF Build, TypeInv, TypeOK, ControlInv, TaskPcs, ManualPcs, Building,
         ledgerVars, shapeVars, cacheVars, lifeVars
<1>14. CASE SettleWindowDrop
  <2>1. SettleTask("windowed", "drift", "idle") /\ "drift" \in TaskPcs /\ "idle" \in TaskPcs
    BY <1>14 DEF SettleWindowDrop, TaskPcs
  <2>2. /\ taskPc = "windowed" /\ taskPc' \in {"drift", "idle"}
        /\ owed' \in [Processes -> Debts]
        /\ \A q \in Processes : DebtOK(owed'[q])
        /\ events' \in Seq([cause : Causes, seq : Nat])
    BY <2>1, SettleTaskType
  <2> QED BY <1>14, <2>1, <2>2 DEF SettleWindowDrop, SettleTask, TypeInv, TypeOK, ControlInv, TaskPcs, ManualPcs, Building,
         ledgerVars, shapeVars, cacheVars, lifeVars
<1>15. CASE ResumeDrift
  <2>1. ASSUME NEW drifted, NEW cause \in Causes, NEW ok
        PROVE  DriftEntry(drifted, cause, ok) \in Seq([cause : Causes, seq : Nat])
    <3> DEFINE entry == [cause |-> cause, seq |-> NextRequestSeq]
               Entry == [cause : Causes, seq : Nat]
    <3>1. entry \in Entry
      BY DEF NextRequestSeq, TypeInv, TypeOK
    <3>2. DriftEntry(drifted, cause, ok) = <<>> \/ DriftEntry(drifted, cause, ok) = <<entry>>
      BY Zenon DEF DriftEntry
    <3> HIDE DEF entry, Entry
    <3>3. <<>> \in Seq(Entry) /\ <<entry>> \in Seq(Entry)
      BY <3>1
    <3>4. DriftEntry(drifted, cause, ok) \in Seq(Entry)
      BY <3>2, <3>3
    <3> QED BY <3>4 DEF Entry
  <2>2. "prompt_rebuild" \in Causes /\ "toolset_change" \in Causes
    BY DEF Causes
  <2>3. events' \in Seq([cause : Causes, seq : Nat])
    <3> DEFINE Entries == Seq([cause : Causes, seq : Nat])
    <3>1. PICK okModel, okTools \in PersistOutcomes :
            events' = events
              \o DriftEntry(prior # NoShape /\ prior.model # built.model, "prompt_rebuild", okModel)
              \o DriftEntry(prior # NoShape /\ prior.tools # built.tools, "toolset_change", okTools)
      BY <1>15 DEF ResumeDrift
    <3>2. /\ DriftEntry(prior # NoShape /\ prior.model # built.model, "prompt_rebuild", okModel) \in Entries
          /\ DriftEntry(prior # NoShape /\ prior.tools # built.tools, "toolset_change", okTools) \in Entries
      BY <2>1, <2>2
    <3>3. events \in Entries
      BY DEF TypeInv, TypeOK
    <3> QED BY <3>1, <3>2, <3>3
  <2> QED BY <1>15, <2>3 DEF ResumeDrift, TypeInv, TypeOK, ControlInv, TaskPcs, ManualPcs, Building,
         ledgerVars, shapeVars, cacheVars, lifeVars
<1>16. CASE Guard
  <2>1. Reasons \in SUBSET Regions
    BY DEF Reasons, CompareShape
  <2> QED BY <1>16, <2>1 DEF Guard, TypeInv, TypeOK, ControlInv, TaskPcs, ManualPcs, Building,
         ledgerVars, shapeVars, cacheVars, lifeVars
<1>17. CASE Chat
  BY <1>17 DEF Chat, TypeInv, TypeOK, ControlInv, TaskPcs, ManualPcs, Building,
         ledgerVars, shapeVars, cacheVars, lifeVars
<1>18. CASE RecordMainUsage
  <2>1. CASE taskPc = "usage" /\ taskPc' = "save"
    <3>1. built \in Prefixes
      BY <2>1 DEF TypeInv, ControlInv, Building
    <3>2. requestSeq' \in Nat
      BY <1>18, <2>1 DEF RecordMainUsage, TypeInv, TypeOK
    <3>3. /\ sent' \subseteq [seq : Nat, wire : Prefixes, changed : SUBSET Regions,
                             flip : BOOLEAN, life : Nat]
          /\ warm' \in [Models -> Nat \cup {Cold}]
          /\ saved' \in BOOLEAN
      <4>1. PICK flip \in Flips :
              /\ sent' = sent \cup {[seq |-> requestSeq', wire |-> built, changed |-> changed,
                                     flip |-> flip, life |-> life]}
              /\ warm' = IF flip THEN [m \in Models |-> Cold]
                         ELSE [warm EXCEPT ![built.model] = built.hist]
              /\ saved' = (saved /\ ~flip)
        BY <1>18, <2>1 DEF RecordMainUsage
      <4>2. flip \in BOOLEAN
        BY DEF Flips
      <4>3. sent' \subseteq [seq : Nat, wire : Prefixes, changed : SUBSET Regions,
                            flip : BOOLEAN, life : Nat]
        BY <3>1, <3>2, <4>1, <4>2 DEF TypeInv, TypeOK
      <4>4. warm' \in [Models -> Nat \cup {Cold}]
        BY <3>1, <4>1, <4>2 DEF TypeInv, TypeOK, Prefixes
      <4>5. saved' \in BOOLEAN
        BY <4>1
      <4> QED BY <4>3, <4>4, <4>5
    <3> QED BY <1>18, <2>1, <3>1, <3>2, <3>3 DEF RecordMainUsage, TypeInv, TypeOK, ControlInv, TaskPcs, ManualPcs, Building,
         ledgerVars, shapeVars, cacheVars, lifeVars
  <2> QED BY <1>18, <2>1 DEF RecordMainUsage, TypeInv, TypeOK, ControlInv, TaskPcs, ManualPcs, Building,
         ledgerVars, shapeVars, cacheVars, lifeVars
<1>19. CASE PersistPrefixShapeOnce
  <2>1. sidecar' \in SidecarShapes \cup {NoShape}
    BY <1>19 DEF PersistPrefixShapeOnce, TypeInv, TypeOK, ControlInv, Building, Prefixes,
                SidecarShapes
  <2> QED BY <1>19, <2>1 DEF PersistPrefixShapeOnce, TypeInv, TypeOK, ControlInv, TaskPcs, ManualPcs, Building,
         ledgerVars, shapeVars, cacheVars, lifeVars
<1>20. ASSUME NEW p \in Processes, Stamp(p) PROVE TypeInv'
  <2>1. owed' \in [Processes -> Debts] /\ \A q \in Processes : DebtOK(owed'[q])
    <3> DEFINE debt == [owed[p] EXCEPT !.seq = NextRequestSeq]
    <3>1. owed[p] \in Debts /\ DebtOK(owed[p]) /\ owed[p].cause # "none"
      BY <1>20 DEF TypeInv, TypeOK, ControlInv, Stamp
    <3>2. NextRequestSeq \in Nat
      BY DEF NextRequestSeq, TypeInv, TypeOK
    <3>3. debt \in Debts /\ DebtOK(debt)
      BY <3>1, <3>2 DEF Debts, DebtOK
    <3>4. owed' = [owed EXCEPT ![p] = debt]
      BY <1>20 DEF Stamp
    <3> HIDE DEF debt
    <3> QED BY <3>3, <3>4 DEF TypeInv, TypeOK, ControlInv
  <2>2. UNCHANGED <<taskPc, manualPc, wire, ledgerVars, shapeVars, cacheVars, lifeVars>>
    BY <1>20 DEF Stamp
  <2> QED
    BY <2>1, <2>2
    DEF TypeInv, TypeOK, ControlInv, ledgerVars, shapeVars, cacheVars, lifeVars
<1>21. CASE StartCompact
  BY <1>21 DEF StartCompact, TypeInv, TypeOK, ControlInv, TaskPcs, ManualPcs, Building,
         ledgerVars, shapeVars, cacheVars, lifeVars
<1>22. CASE SummarizeManual
  BY <1>22 DEF SummarizeManual, AuxUsage, TypeInv, TypeOK, ControlInv, TaskPcs, ManualPcs, Building,
         ledgerVars, shapeVars, cacheVars, lifeVars
<1>23. CASE CompactManual
  <2>1. owed' \in [Processes -> Debts] /\ \A q \in Processes : DebtOK(owed'[q])
    BY <1>23, IncurType DEF CompactManual, Processes, Causes, HistoryCauses
  <2>2. wire' \in Prefixes
    BY <1>23, RewriteType DEF CompactManual
  <2> QED BY <1>23, <2>1, <2>2 DEF CompactManual, TypeInv, TypeOK, ControlInv, TaskPcs, ManualPcs, Building,
         ledgerVars, shapeVars, cacheVars, lifeVars
<1>24. CASE SettleManual
  <2>1. /\ owed' \in [Processes -> Debts]
        /\ \A q \in Processes : DebtOK(owed'[q])
        /\ events' \in Seq([cause : Causes, seq : Nat])
    BY <1>24, RecordedType, RefusedType DEF SettleManual, Processes, TypeInv, TypeOK
  <2> QED BY <1>24, <2>1 DEF SettleManual, TypeInv, TypeOK, ControlInv, TaskPcs, ManualPcs, Building,
         ledgerVars, shapeVars, cacheVars, lifeVars
<1>25. CASE Restart
  <2>1. wire' \in Prefixes
    <3>1. PICK m \in Models, t \in wire.tools .. MaxTools :
            wire' = [wire EXCEPT !.model = m, !.tools = t]
      BY <1>25 DEF Restart
    <3>2. wire \in Prefixes /\ MaxTools \in Nat
      BY ConstantsAssumption DEF TypeInv, TypeOK
    <3>3. t \in Nat
      BY <3>2 DEF Prefixes
    <3> QED BY <3>1, <3>2, <3>3 DEF Prefixes
  <2>2. owed' \in [Processes -> Debts] /\ \A q \in Processes : DebtOK(owed'[q])
    BY <1>25 DEF Restart, NoDebt, Debts, DebtOK
  <2>3. warm' \in [Models -> Nat \cup {Cold}]
    BY <1>25 DEF Restart
  <2>4. idleLong' \in BOOLEAN /\ life' \in Nat /\ lifeStart' \in Nat /\ prior' = sidecar
    BY <1>25 DEF Restart, TypeInv, TypeOK
  <2>5. /\ taskPc' = "idle" /\ manualPc' = "idle" /\ built' = NoShape /\ changed' = {}
        /\ lastShape' = NoShape /\ passes' = 0 /\ saved' = FALSE /\ pruneDone' = FALSE
        /\ UNCHANGED <<ledgerVars, sidecar>>
    BY <1>25 DEF Restart
  <2>6. "idle" \in TaskPcs /\ "idle" \in ManualPcs /\ "idle" \notin Building
    BY DEF TaskPcs, ManualPcs, Building
  <2>7. TypeOK'
    <3>1. passes' \in 0 .. 2 /\ changed' \in SUBSET Regions
      BY <2>5
    <3>2. prior' \in SidecarShapes \cup {NoShape} /\ sidecar' = sidecar
      BY <2>4, <2>5 DEF TypeInv, TypeOK
    <3>3. requestSeq' = requestSeq /\ sent' = sent /\ events' = events
      BY <2>5 DEF ledgerVars
    <3> QED
      BY <2>1, <2>2, <2>3, <2>4, <2>5, <2>6, <3>1, <3>2, <3>3 DEF TypeInv, TypeOK
  <2>8. ControlInv'
    BY <2>2, <2>5, <2>6 DEF ControlInv
  <2> QED BY <2>7, <2>8 DEF TypeInv
<1>26. CASE AtBound
  BY <1>26 DEF AtBound, vars, TypeInv, TypeOK, ControlInv, TaskPcs, ManualPcs, Building,
         ledgerVars, shapeVars, cacheVars, lifeVars
<1>27. CASE UNCHANGED vars
  BY <1>27 DEF vars, TypeInv, TypeOK, ControlInv, TaskPcs, ManualPcs, Building,
         ledgerVars, shapeVars, cacheVars, lifeVars
<1> QED
  BY <1>1, <1>2, <1>3, <1>4, <1>5, <1>6, <1>7, <1>8, <1>9, <1>10, <1>11, <1>12, <1>13,
     <1>14, <1>15, <1>16, <1>17, <1>18, <1>19, <1>20, <1>21, <1>22, <1>23, <1>24, <1>25,
     <1>26, <1>27 DEF Next

\* Every reachable state is well typed: no request is compared, recorded or
\* saved before it is built, and the maintenance latch closes at two passes.
THEOREM TypeCorrect == Spec => []TypeOK
<1>1. Init => TypeInv
  BY InitTypeInv
<1>2. TypeInv /\ [Next]_vars => TypeInv'
  BY StepTypeInv
<1>3. TypeInv => TypeOK
  BY DEF TypeInv
<1> QED BY <1>1, <1>2, <1>3, PTL DEF Spec

-----------------------------------------------------------------------------
(* How a step may change the ledger: entries are only appended, and each   *)
(* new one carries the next request's number or a stamp taken before.      *)

LedgerGrows ==
    /\ requestSeq' \in {requestSeq, requestSeq + 1}
    /\ \A i \in DOMAIN events : i \in DOMAIN events' /\ events'[i] = events[i]
    /\ \A i \in DOMAIN events' : i \in DOMAIN events
                                 \/ events'[i].seq = NextRequestSeq
                                 \/ \E p \in Processes : events'[i].seq = owed[p].seq
    /\ \A p \in Processes : owed'[p].seq \in {0, NextRequestSeq, owed[p].seq}

LEMMA RecordedGrows ==
    ASSUME TypeInv, NEW p \in Processes, Recorded(p) \/ Refused(p),
           requestSeq' = requestSeq
    PROVE  LedgerGrows
<1>1. \A q \in Processes : owed'[q].seq \in {0, owed[q].seq}
  BY DEF Recorded, Refused, TypeInv, TypeOK, NoDebt
<1>2. CASE Recorded(p)
  <2> DEFINE entry == [cause |-> owed[p].cause, seq |-> owed[p].seq]
             Entry == [cause : Causes, seq : Nat]
  <2>1. events' = Append(events, entry) /\ entry.seq = owed[p].seq
    BY <1>2 DEF Recorded
  <2>2. entry \in Entry /\ events \in Seq(Entry)
    BY <1>2 DEF TypeInv, TypeOK, ControlInv, DebtOK, Debts, Recorded
  <2> HIDE DEF entry, Entry
  <2>3. /\ \A i \in DOMAIN events : i \in DOMAIN events' /\ events'[i] = events[i]
        /\ \A i \in DOMAIN events' : i \in DOMAIN events \/ events'[i] = entry
    BY <2>1, <2>2
  <2> QED BY <1>1, <2>1, <2>3 DEF LedgerGrows
<1>3. CASE Refused(p)
  BY <1>1, <1>3 DEF LedgerGrows, Refused
<1> QED BY <1>2, <1>3

LEMMA IncurGrows ==
    ASSUME TypeInv, NEW p \in Processes, NEW cause, Incur(p, cause),
           requestSeq' = requestSeq, events' = events
    PROVE  LedgerGrows
  BY DEF Incur, TypeInv, TypeOK, LedgerGrows

LEMMA QuietGrows ==
    ASSUME TypeInv, requestSeq' \in {requestSeq, requestSeq + 1},
           events' = events, owed' = owed
    PROVE  LedgerGrows
  BY DEF LedgerGrows

LEMMA SettleGrows ==
    ASSUME TypeInv, NEW from, NEW ok, NEW failed, SettleTask(from, ok, failed)
    PROVE  LedgerGrows
  BY RecordedGrows DEF SettleTask, Processes

LEMMA DriftGrows == ASSUME TypeInv, ResumeDrift PROVE LedgerGrows
<1> DEFINE seq == NextRequestSeq
           Entry == [cause : Causes, seq : Nat]
           model == [cause |-> "prompt_rebuild", seq |-> seq]
           tools == [cause |-> "toolset_change", seq |-> seq]
<1>1. model \in Entry /\ tools \in Entry /\ events \in Seq(Entry)
  BY DEF NextRequestSeq, TypeInv, TypeOK, Causes
<1>2. model.seq = seq /\ tools.seq = seq
  OBVIOUS
<1>3. PICK a, b : /\ events' = events \o a \o b
                  /\ a = <<>> \/ a = <<model>>
                  /\ b = <<>> \/ b = <<tools>>
  BY Zenon DEF ResumeDrift, DriftEntry
<1> HIDE DEF model, tools, Entry, seq
<1>4. \A s \in Seq(Entry) : /\ s \o <<>> = s
                            /\ s \o <<model>> = Append(s, model)
                            /\ s \o <<tools>> = Append(s, tools)
  BY <1>1
<1>5. /\ \A i \in DOMAIN events : i \in DOMAIN events' /\ events'[i] = events[i]
      /\ \A i \in DOMAIN events' : i \in DOMAIN events \/ events'[i] \in {model, tools}
  <2>1. \/ events' = events \/ events' = Append(events, model) \/ events' = Append(events, tools)
        \/ events' = Append(Append(events, model), tools)
    <3>1. events \o a = events \/ events \o a = Append(events, model)
      BY <1>1, <1>3, <1>4
    <3>2. events \o a \in Seq(Entry)
      <4>1. Append(events, model) \in Seq(Entry)
        BY <1>1
      <4> QED BY Zenon, <1>1, <3>1, <4>1
    <3>3. events' = events \o a \/ events' = Append(events \o a, tools)
      <4> DEFINE s == events \o a
      <4>1. events' = s \o b
        BY <1>3
      <4> HIDE DEF s
      <4> QED BY <1>3, <1>4, <3>2, <4>1 DEF s
    <3> QED BY <3>1, <3>3
  <2> QED BY <1>1, <2>1
<1>6. requestSeq' = requestSeq /\ owed' = owed
  BY DEF ResumeDrift
<1> QED BY <1>2, <1>5, <1>6 DEF LedgerGrows, seq

LEMMA LedgerStep == ASSUME TypeInv, [Next]_vars PROVE LedgerGrows
<1>1. CASE AdvisorCall \/ OnboardingCall \/ SummarizeManual
  BY <1>1, QuietGrows DEF AdvisorCall, OnboardingCall, SummarizeManual, AuxUsage
<1>2. CASE StartTask \/ Guard \/ Chat \/ StartCompact \/ PersistPrefixShapeOnce
  BY <1>2, QuietGrows DEF StartTask, Guard, Chat, StartCompact, PersistPrefixShapeOnce, ledgerVars
<1>3. CASE RecordMainUsage
  BY <1>3, QuietGrows DEF RecordMainUsage
<1>4. CASE ReconcileCatalog \/ AdvisorDecision
  <2>1. ASSUME NEW from, NEW to, SwitchModel(from, to) PROVE LedgerGrows
    BY <2>1, IncurGrows DEF SwitchModel, ledgerVars, Processes
  <2>2. ASSUME NEW from, NEW to, SettleSwitch(from, to) PROVE LedgerGrows
    BY <2>2, SettleGrows DEF SettleSwitch
  <2> QED BY <1>4, <2>1, <2>2, QuietGrows DEF ReconcileCatalog, AdvisorDecision, ledgerVars
<1>5. CASE BoundaryToolChange \/ StaleResumePrune \/ Build
  BY <1>5, IncurGrows, QuietGrows
  DEF BoundaryToolChange, StaleResumePrune, Build, ledgerVars, Processes
<1>6. CASE Retool \/ SettlePrune \/ SettleWindowDrop
  BY <1>6, SettleGrows DEF Retool, SettlePrune, SettleWindowDrop
<1>7. CASE TaskBoundary \/ Turn
  <2>1. ASSUME NEW from, NEW to, Maintain(from, to) PROVE LedgerGrows
    BY <2>1, IncurGrows DEF Maintain, ledgerVars, Processes
  <2>2. ASSUME NEW from, NEW to, SettleMaintenance(from, to) PROVE LedgerGrows
    BY <2>2, SettleGrows DEF SettleMaintenance
  <2> QED BY <1>7, <2>1, <2>2, QuietGrows DEF TaskBoundary, Turn, ledgerVars
<1>8. CASE AutoCompact
  <2>1. CASE SettleTask("compacted", "build", "idle")
    BY <2>1, SettleGrows
  <2> QED BY <1>8, <2>1, IncurGrows, QuietGrows DEF AutoCompact, AuxUsage, ledgerVars, Processes
<1>9. CASE ResumeDrift
  BY <1>9, DriftGrows
<1>10. ASSUME NEW p \in Processes, Stamp(p) PROVE LedgerGrows
  <2>1. \A q \in Processes : owed'[q].seq \in {NextRequestSeq, owed[q].seq}
    BY <1>10 DEF Stamp, TypeInv, TypeOK, Debts
  <2>2. UNCHANGED ledgerVars
    BY <1>10 DEF Stamp
  <2> QED BY <2>1, <2>2 DEF LedgerGrows, ledgerVars
<1>11. CASE CompactManual
  BY <1>11, IncurGrows DEF CompactManual, ledgerVars, Processes
<1>12. CASE SettleManual
  BY <1>12, RecordedGrows DEF SettleManual, Processes
<1>13. CASE Restart
  BY <1>13 DEF Restart, LedgerGrows, ledgerVars, NoDebt
<1>14. CASE AtBound \/ UNCHANGED vars
  BY <1>14, QuietGrows DEF AtBound, vars, ledgerVars
<1> QED
  BY <1>1, <1>2, <1>3, <1>4, <1>5, <1>6, <1>7, <1>8, <1>9, <1>10, <1>11, <1>12, <1>13,
     <1>14 DEF Next

\* No event is ever stamped past the next request, even when /compact runs
\* beside a task: stamps are read from a counter that only grows.
THEOREM LedgerNeverAhead == Spec => []EventsNeverAhead
<1>1. Init => EventsNeverAhead
  BY DEF Init, EventsNeverAhead, NextRequestSeq, NoDebt
<1>2. ASSUME TypeInv, EventsNeverAhead, [Next]_vars PROVE EventsNeverAhead'
  <2>1. LedgerGrows /\ TypeInv'
    BY <1>2, LedgerStep, StepTypeInv
  <2>2. requestSeq \in Nat /\ requestSeq' \in Nat /\ requestSeq <= requestSeq'
    BY <1>2, <2>1 DEF TypeInv, TypeOK, LedgerGrows
  <2>3. \A p \in Processes : owed[p].seq \in Nat /\ owed'[p].seq \in Nat
    BY <1>2, <2>1 DEF TypeInv, TypeOK, Debts
  <2>4. \A p \in Processes : owed'[p].seq <= requestSeq' + 1
    BY <1>2, <2>1, <2>2, <2>3 DEF LedgerGrows, EventsNeverAhead, NextRequestSeq
  <2>5. ASSUME NEW i \in DOMAIN events' PROVE events'[i].seq <= requestSeq' + 1
    <3>1. events'[i].seq \in Nat
      <4> DEFINE Entry == [cause : Causes, seq : Nat]
      <4>1. events' \in Seq(Entry)
        BY <2>1 DEF TypeInv, TypeOK
      <4>2. \A entry \in Entry : entry.seq \in Nat
        OBVIOUS
      <4> HIDE DEF Entry
      <4>3. events'[i] \in Entry
        BY <4>1
      <4> QED BY <4>2, <4>3
    <3>2. events'[i].seq <= requestSeq + 1
      <4>1. CASE i \in DOMAIN events
        BY <1>2, <2>1, <4>1 DEF LedgerGrows, EventsNeverAhead, NextRequestSeq
      <4>2. CASE events'[i].seq = NextRequestSeq
        BY <2>2, <4>2 DEF NextRequestSeq
      <4>3. CASE \E p \in Processes : events'[i].seq = owed[p].seq
        BY <1>2, <4>3 DEF EventsNeverAhead, NextRequestSeq
      <4> QED BY <2>1, <4>1, <4>2, <4>3 DEF LedgerGrows
    <3> QED BY <2>2, <3>1, <3>2
  <2> QED BY <2>4, <2>5 DEF EventsNeverAhead, NextRequestSeq
<1>3. TypeInv /\ [Next]_vars => TypeInv'
  BY StepTypeInv
<1>4. Init => TypeInv
  BY InitTypeInv
<1> QED BY <1>1, <1>2, <1>3, <1>4, PTL DEF Spec

-----------------------------------------------------------------------------
(* Attribution.  What the guard found stays true until the request is      *)
(* recorded: no auxiliary call and no compaction takes a number between.   *)

SentExplained(s) == s.changed # {} => \E i \in DOMAIN events : events[i].seq = s.seq

AttributionInv ==
    /\ \A s \in sent : SentExplained(s)
    /\ (taskPc \in {"chat", "usage"} /\ changed # {}) =>
           \E i \in DOMAIN events : events[i].seq = NextRequestSeq
    /\ taskPc # "idle" => manualPc = "idle"

\* A step that records nothing and is not on its way to a response.
Elsewhere == sent' = sent /\ taskPc' \notin {"chat", "usage"}

LEMMA AlternationStep ==
    ASSUME TypeInv, AttributionInv, ~Overlap, [Next]_vars
    PROVE  (taskPc # "idle" => manualPc = "idle")'
<1> USE DEF AttributionInv
<1>1. CASE taskPc = "idle"
  <2>1. CASE StartTask
    BY <1>1, <2>1 DEF StartTask
  <2>2. CASE taskPc' = "idle"
    BY <2>2
  <2>3. StartTask \/ taskPc' = "idle"
    BY <1>1
    DEF Next, vars, StartTask, ReconcileCatalog, SwitchModel, SettleSwitch, SettleTask,
        AdvisorCall, AdvisorDecision, OnboardingCall, BoundaryToolChange, Retool,
        StaleResumePrune, SettlePrune, TaskBoundary, Maintain, SettleMaintenance, Turn,
        AutoCompact, Build, SettleWindowDrop, ResumeDrift, Guard, Chat, RecordMainUsage,
        PersistPrefixShapeOnce, Stamp, StartCompact, SummarizeManual, CompactManual,
        SettleManual, Restart, AtBound
  <2> QED BY <2>1, <2>2, <2>3
<1>2. CASE taskPc # "idle"
  BY <1>2
  DEF Next, vars, StartTask, ReconcileCatalog, SwitchModel, SettleSwitch, SettleTask,
      AdvisorCall, AdvisorDecision, OnboardingCall, BoundaryToolChange, Retool,
      StaleResumePrune, SettlePrune, TaskBoundary, Maintain, SettleMaintenance, Turn,
      AutoCompact, Build, SettleWindowDrop, ResumeDrift, Guard, Chat, RecordMainUsage,
      PersistPrefixShapeOnce, Stamp, StartCompact, SummarizeManual, CompactManual,
      SettleManual, Restart, AtBound
<1> QED BY <1>1, <1>2

LEMMA AttributionStep ==
    ASSUME TypeInv, AttributionInv, ~Overlap, [Next]_vars
    PROVE  AttributionInv'
<1>1. LedgerGrows
  BY LedgerStep
<1>2. \A seq : (\E i \in DOMAIN events : events[i].seq = seq)
                  => (\E i \in DOMAIN events' : events'[i].seq = seq)
  BY <1>1 DEF LedgerGrows
<1>3. (taskPc # "idle" => manualPc = "idle")'
  BY AlternationStep
<1>4. CASE Elsewhere
  BY <1>2, <1>3, <1>4 DEF AttributionInv, SentExplained, Elsewhere
<1>5. CASE Guard
  <2>1. sent' = sent /\ events' = events /\ requestSeq' = requestSeq
    BY <1>5 DEF Guard, ledgerVars
  <2>2. taskPc' = "chat" /\ changed' # {} => \E i \in DOMAIN events : events[i].seq = NextRequestSeq
    BY <1>5 DEF Guard, Explained, EventsForRequest
  <2>3. taskPc' # "usage"
    BY <1>5 DEF Guard
  <2> QED
    BY <1>3, <2>1, <2>2, <2>3 DEF AttributionInv, SentExplained, NextRequestSeq
<1>6. CASE Chat
  BY <1>3, <1>6 DEF Chat, AttributionInv, SentExplained, NextRequestSeq, ledgerVars, shapeVars
<1>7. CASE RecordMainUsage
  <2>1. taskPc = "usage" /\ taskPc' \in {"save", "idle"} /\ events' = events
    BY <1>7 DEF RecordMainUsage
  <2>2. ASSUME NEW s \in sent', s \notin sent
        PROVE  s.changed = changed /\ s.seq = NextRequestSeq
    BY <1>7, <2>2 DEF RecordMainUsage, NextRequestSeq
  <2>3. \A s \in sent' : SentExplained(s)
    BY <2>1, <2>2 DEF AttributionInv, SentExplained
  <2> QED BY <1>3, <2>1, <2>3 DEF AttributionInv, SentExplained
<1>8. ASSUME NEW p \in Processes, Stamp(p) PROVE AttributionInv'
  BY <1>3, <1>8
  DEF Stamp, AttributionInv, SentExplained, NextRequestSeq, ledgerVars, shapeVars
<1>9. CASE StartCompact \/ SummarizeManual \/ CompactManual \/ SettleManual
  <2>1. CASE taskPc = "idle"
    <3>1. Elsewhere
      BY <1>9, <2>1
      DEF StartCompact, SummarizeManual, CompactManual, SettleManual, Elsewhere, ledgerVars
    <3> QED BY <1>4, <3>1
  <2>2. CASE taskPc # "idle"
    BY <1>9, <2>2
    DEF AttributionInv, StartCompact, SummarizeManual, CompactManual, SettleManual, GoManual
  <2> QED BY <2>1, <2>2
<1>10. CASE AtBound \/ UNCHANGED vars
  BY <1>3, <1>10
  DEF AtBound, vars, AttributionInv, SentExplained, NextRequestSeq, ledgerVars, shapeVars
<1>11. CASE StartTask \/ ReconcileCatalog \/ AdvisorCall \/ AdvisorDecision \/ OnboardingCall
            \/ BoundaryToolChange \/ Retool \/ StaleResumePrune \/ SettlePrune \/ TaskBoundary
  <2>1. Elsewhere
    BY <1>11
    DEF StartTask, ReconcileCatalog, SwitchModel, SettleSwitch, SettleTask, AdvisorCall,
        AdvisorDecision, OnboardingCall, BoundaryToolChange, Retool, StaleResumePrune,
        SettlePrune, TaskBoundary, Maintain, SettleMaintenance, Elsewhere, ledgerVars
  <2> QED BY <1>4, <2>1
<1>12. CASE Turn \/ AutoCompact \/ Build \/ SettleWindowDrop \/ ResumeDrift
            \/ PersistPrefixShapeOnce \/ Restart
  <2>1. Elsewhere
    BY <1>12
    DEF Turn, Maintain, SettleMaintenance, SettleTask, AutoCompact, Build, SettleWindowDrop,
        ResumeDrift, PersistPrefixShapeOnce, Restart, Elsewhere, ledgerVars
  <2> QED BY <1>4, <2>1
<1> QED
  BY <1>5, <1>6, <1>7, <1>8, <1>9, <1>10, <1>11, <1>12 DEF Next

\* Where compactions and tasks take turns (line mode), every main request that
\* reports a changed prefix is explained by an event of its own number, with any
\* advisor, onboarding, failing append, retry or restart.
THEOREM ChangesAttributed == ~Overlap => (Spec => []PrefixChangeAttributed)
<1> SUFFICES ASSUME ~Overlap PROVE Spec => []PrefixChangeAttributed
  OBVIOUS
<1>1. Init => TypeInv /\ AttributionInv
  BY InitTypeInv DEF Init, AttributionInv
<1>2. TypeInv /\ AttributionInv /\ [Next]_vars => (TypeInv /\ AttributionInv)'
  BY StepTypeInv, AttributionStep
<1>3. TypeInv /\ AttributionInv => PrefixChangeAttributed
  BY DEF AttributionInv, SentExplained, PrefixChangeAttributed, EventsForRequest
<1> QED BY <1>1, <1>2, <1>3, PTL DEF Spec

-----------------------------------------------------------------------------
(* Warmth.  Only a recorded main request and a restart touch what the      *)
(* engine remembers of the requests it made.                               *)

Quiet == UNCHANGED <<sent, lastShape, warm, life>>

LEMMA QuietStep == ASSUME [Next]_vars PROVE RecordMainUsage \/ Restart \/ Quiet
<1> USE DEF Quiet, ledgerVars, shapeVars, cacheVars, lifeVars
<1>1. CASE StartTask \/ ReconcileCatalog \/ AdvisorCall \/ AdvisorDecision \/ OnboardingCall
  BY <1>1 DEF StartTask, ReconcileCatalog, SwitchModel, SettleSwitch, SettleTask, AdvisorCall,
              AdvisorDecision, OnboardingCall
<1>2. CASE BoundaryToolChange \/ Retool \/ StaleResumePrune \/ SettlePrune \/ TaskBoundary
  BY <1>2 DEF BoundaryToolChange, Retool, SettleTask, StaleResumePrune, SettlePrune,
              TaskBoundary, Maintain, SettleMaintenance
<1>3. CASE Turn \/ AutoCompact \/ Build \/ SettleWindowDrop \/ ResumeDrift \/ Guard \/ Chat
  BY <1>3 DEF Turn, Maintain, SettleMaintenance, SettleTask, AutoCompact, Build,
              SettleWindowDrop, ResumeDrift, Guard, Chat
<1>4. CASE PersistPrefixShapeOnce \/ StartCompact \/ SummarizeManual \/ CompactManual \/ SettleManual
  BY <1>4 DEF PersistPrefixShapeOnce, StartCompact, SummarizeManual, CompactManual, SettleManual
<1>5. ASSUME NEW p \in Processes, Stamp(p) PROVE Quiet
  BY <1>5 DEF Stamp
<1>6. CASE AtBound \/ UNCHANGED vars
  BY <1>6 DEF AtBound, vars
<1> QED BY <1>1, <1>2, <1>3, <1>4, <1>5, <1>6 DEF Next

Records == [seq : Nat, wire : Prefixes, changed : SUBSET Regions, flip : BOOLEAN, life : Nat]

NumbersBehind == \A r \in sent : r.seq <= requestSeq

WarmInv == NumbersBehind /\ WarmMeansConversationSent

\* The record of a main request, and what goes with it.
LEMMA RecordedUsage ==
    ASSUME TypeInv, RecordMainUsage, sent' # sent
    PROVE  \E r \in Records :
             /\ r.seq = NextRequestSeq /\ r.wire = built /\ r.life = life
             /\ sent' = sent \cup {r}
             /\ warm' = IF r.flip THEN [m \in Models |-> Cold]
                        ELSE [warm EXCEPT ![built.model] = built.hist]
             /\ saved' = (saved /\ ~r.flip)
             /\ taskPc = "usage" /\ taskPc' = "save" /\ lastShape' = built
             /\ requestSeq' = requestSeq + 1 /\ built \in Prefixes
<1>1. taskPc = "usage" /\ taskPc' = "save" /\ lastShape' = built /\ requestSeq' = requestSeq + 1
  BY DEF RecordMainUsage
<1>2. PICK flip \in Flips :
        /\ sent' = sent \cup {[seq |-> requestSeq', wire |-> built, changed |-> changed,
                               flip |-> flip, life |-> life]}
        /\ warm' = IF flip THEN [m \in Models |-> Cold]
                   ELSE [warm EXCEPT ![built.model] = built.hist]
        /\ saved' = (saved /\ ~flip)
  BY DEF RecordMainUsage
<1> DEFINE r == [seq |-> requestSeq', wire |-> built, changed |-> changed, flip |-> flip,
                 life |-> life]
<1>3. built \in Prefixes /\ flip \in BOOLEAN
  BY <1>1 DEF TypeInv, ControlInv, Building, Flips
<1>4. r \in Records
  BY <1>1, <1>3 DEF TypeInv, TypeOK, Records
<1>5. r.seq = NextRequestSeq /\ r.wire = built /\ r.flip = flip /\ r.life = life
  BY <1>1 DEF NextRequestSeq
<1> HIDE DEF r
<1>6. sent' = sent \cup {r}
  BY <1>2 DEF r
<1>7. /\ warm' = IF r.flip THEN [m \in Models |-> Cold]
                ELSE [warm EXCEPT ![built.model] = built.hist]
      /\ saved' = (saved /\ ~r.flip)
  BY Zenon, <1>2, <1>5
<1> QED BY Zenon, <1>1, <1>3, <1>4, <1>5, <1>6, <1>7

\* A usage record that could not be written leaves everything behind it alone.
LEMMA UnrecordedUsage ==
    ASSUME TypeInv, RecordMainUsage, sent' = sent, NumbersBehind
    PROVE  /\ UNCHANGED <<requestSeq, sent, warm, saved, lastShape, life>>
           /\ taskPc' = "idle" /\ PersistFails
<1>1. CASE UNCHANGED <<requestSeq, sent, warm, saved, lastShape>> /\ taskPc' = "idle" /\ PersistFails
  BY <1>1 DEF RecordMainUsage, lifeVars
<1>2. CASE taskPc' = "save" /\ requestSeq' = requestSeq + 1
  <2>1. \E r \in sent' : r.seq = requestSeq + 1
    <3>1. PICK flip \in Flips :
            sent' = sent \cup {[seq |-> requestSeq', wire |-> built, changed |-> changed,
                                flip |-> flip, life |-> life]}
      BY <1>2 DEF RecordMainUsage
    <3> DEFINE r == [seq |-> requestSeq', wire |-> built, changed |-> changed, flip |-> flip,
                     life |-> life]
    <3>2. r.seq = requestSeq + 1
      BY <1>2
    <3> HIDE DEF r
    <3>3. sent' = sent \cup {r}
      BY <3>1 DEF r
    <3> QED BY <3>2, <3>3
  <2> QED BY <2>1 DEF NumbersBehind, TypeInv, TypeOK
<1> QED BY <1>1, <1>2 DEF RecordMainUsage

LEMMA WarmStep == ASSUME TypeInv, WarmInv, [Next]_vars PROVE WarmInv'
<1>1. requestSeq' \in {requestSeq, requestSeq + 1} /\ requestSeq \in Nat
  BY LedgerStep DEF LedgerGrows, TypeInv, TypeOK
<1>2. \A r \in sent : r.seq \in Nat
  BY DEF TypeInv, TypeOK
<1>3. CASE Quiet
  BY <1>1, <1>2, <1>3 DEF Quiet, WarmInv, NumbersBehind, WarmMeansConversationSent
<1>4. CASE Restart
  BY <1>1, <1>2, <1>4 DEF Restart, WarmInv, NumbersBehind, WarmMeansConversationSent, ledgerVars
<1>5. CASE RecordMainUsage /\ sent' = sent
  BY <1>5, UnrecordedUsage DEF WarmInv, NumbersBehind, WarmMeansConversationSent
<1>6. CASE RecordMainUsage /\ sent' # sent
  <2>1. PICK r \in Records :
             /\ r.seq = NextRequestSeq /\ r.wire = built /\ r.life = life
             /\ sent' = sent \cup {r}
             /\ warm' = IF r.flip THEN [m \in Models |-> Cold]
                        ELSE [warm EXCEPT ![built.model] = built.hist]
             /\ requestSeq' = requestSeq + 1 /\ built \in Prefixes
    BY <1>6, RecordedUsage
  <2>2. life' = life
    BY <1>6 DEF RecordMainUsage, lifeVars
  <2>3. NumbersBehind'
    BY <1>1, <1>2, <2>1 DEF WarmInv, NumbersBehind, NextRequestSeq
  <2>4. \A q \in sent : ~(q.seq >= r.seq)
    BY <1>1, <1>2, <2>1 DEF WarmInv, NumbersBehind, NextRequestSeq
  <2>5. ASSUME NEW m \in Models, warm'[m] # Cold
        PROVE  \E s \in sent' : /\ s.life = life /\ s.wire.model = m /\ s.wire.hist = warm'[m]
                                /\ \A q \in sent' : q.life = life /\ q.seq >= s.seq => ~q.flip
    <3>1. ~r.flip
      BY <2>1, <2>5
    <3>2. CASE m = built.model
      <4>1. warm'[m] = built.hist
        BY <2>1, <3>1, <3>2 DEF TypeInv, TypeOK
      <4> QED BY <2>1, <2>4, <3>1, <3>2, <4>1
    <3>3. CASE m # built.model
      <4>1. warm'[m] = warm[m]
        BY <2>1, <3>1, <3>3 DEF TypeInv, TypeOK
      <4>2. PICK s \in sent : /\ s.life = life /\ s.wire.model = m /\ s.wire.hist = warm[m]
                              /\ \A q \in sent : q.life = life /\ q.seq >= s.seq => ~q.flip
        BY <2>5, <4>1 DEF WarmInv, WarmMeansConversationSent
      <4> QED BY <2>1, <3>1, <4>1, <4>2
    <3> QED BY <3>2, <3>3
  <2> QED BY <2>2, <2>3, <2>5 DEF WarmInv, WarmMeansConversationSent
<1> QED BY <1>3, <1>4, <1>5, <1>6, QuietStep

\* A model taken for warm was really sent that revision of the history, by this
\* process and on the upstream in use, whatever fails, dies or overlaps.
THEOREM WarmthIsEarned == Spec => []WarmMeansConversationSent
<1>1. Init => TypeInv /\ WarmInv
  BY InitTypeInv DEF Init, WarmInv, NumbersBehind, WarmMeansConversationSent
<1>2. TypeInv /\ WarmInv /\ [Next]_vars => (TypeInv /\ WarmInv)'
  BY StepTypeInv, WarmStep
<1>3. WarmInv => WarmMeansConversationSent
  BY DEF WarmInv
<1> QED BY <1>1, <1>2, <1>3, PTL DEF Spec

-----------------------------------------------------------------------------
(* Debts.  While tasks and compactions take turns, an event is owed only   *)
(* between the change it explains and the end of its settling, and no      *)
(* number is taken in between: the stamp it carries is never outdated.     *)

Settling == {"substituting", "switching", "retooling", "pruning", "maintaining",
             "reclaiming", "compacted", "windowed"}

OwedWhileSettling ==
    /\ owed["task"].cause # "none" => taskPc \in Settling
    /\ owed["manual"].cause # "none" => manualPc = "compacted"

StampsAreNext == \A p \in Processes : owed[p].seq \in {0, NextRequestSeq}

OwedInv == OwedWhileSettling /\ StampsAreNext

\* What each helper does to the two debts.
LEMMA SettledDebt ==
    ASSUME TypeInv, NEW p \in Processes, Recorded(p) \/ Refused(p)
    PROVE  /\ owed'[p].cause = "none"
           /\ \A q \in Processes : q # p => owed'[q] = owed[q]
  BY DEF Recorded, Refused, NoDebt, TypeInv, TypeOK

LEMMA IncurredDebt ==
    ASSUME TypeInv, NEW p \in Processes, NEW cause, Incur(p, cause)
    PROVE  /\ owed'[p] = [cause |-> cause, seq |-> 0, undo |-> wire.model]
           /\ \A q \in Processes : q # p => owed'[q] = owed[q]
  BY DEF Incur, TypeInv, TypeOK

LEMMA TaskSettles ==
    ASSUME TypeInv, OwedWhileSettling, NEW from, NEW ok, NEW failed,
           SettleTask(from, ok, failed)
    PROVE  OwedWhileSettling'
<1>1. owed'["task"].cause = "none" /\ owed'["manual"] = owed["manual"]
  BY SettledDebt DEF SettleTask, Processes
<1> QED BY <1>1 DEF SettleTask, OwedWhileSettling

LEMMA TaskIncurs ==
    ASSUME TypeInv, OwedWhileSettling, NEW cause, Incur("task", cause), taskPc' \in Settling,
           UNCHANGED manualPc
    PROVE  OwedWhileSettling'
  BY IncurredDebt DEF Processes, OwedWhileSettling

LEMMA TaskOwesNothing ==
    ASSUME OwedWhileSettling, taskPc \notin Settling, UNCHANGED <<owed, manualPc>>
    PROVE  OwedWhileSettling'
  BY DEF OwedWhileSettling

LEMMA DebtsStep ==
    ASSUME TypeInv, OwedWhileSettling, [Next]_vars
    PROVE  OwedWhileSettling'
<1>1. CASE StartTask \/ AdvisorCall \/ OnboardingCall \/ ResumeDrift \/ Guard \/ Chat
           \/ RecordMainUsage \/ PersistPrefixShapeOnce
  <2>1. taskPc \notin Settling
    BY <1>1 DEF StartTask, AdvisorCall, OnboardingCall, ResumeDrift, Guard, Chat,
                RecordMainUsage, PersistPrefixShapeOnce, Settling
  <2>2. UNCHANGED <<owed, manualPc>>
    BY <1>1 DEF StartTask, AdvisorCall, OnboardingCall, ResumeDrift, Guard, Chat,
                RecordMainUsage, PersistPrefixShapeOnce
  <2> QED BY <2>1, <2>2, TaskOwesNothing
<1>2. CASE ReconcileCatalog \/ AdvisorDecision
  <2>1. ASSUME NEW from, NEW to \in {"substituting", "switching"}, SwitchModel(from, to)
        PROVE  OwedWhileSettling'
    BY <2>1, TaskIncurs DEF SwitchModel, Settling
  <2>2. ASSUME NEW from, NEW to, SettleSwitch(from, to) PROVE OwedWhileSettling'
    BY <2>2, TaskSettles DEF SettleSwitch
  <2> QED BY <1>2, <2>1, <2>2, TaskOwesNothing DEF ReconcileCatalog, AdvisorDecision, Settling
<1>3. CASE BoundaryToolChange \/ StaleResumePrune \/ Build
  <2>1. UNCHANGED manualPc /\ taskPc \notin Settling
    BY <1>3 DEF BoundaryToolChange, StaleResumePrune, Build, Settling
  <2>2. CASE UNCHANGED owed
    BY <2>1, <2>2, TaskOwesNothing
  <2>3. CASE owed' # owed
    <3>1. \E cause \in Causes : Incur("task", cause)
      BY <1>3, <2>3 DEF BoundaryToolChange, StaleResumePrune, Build, Causes, HistoryCauses
    <3>2. taskPc' \in Settling
      BY <1>3, <2>3 DEF BoundaryToolChange, StaleResumePrune, Build, Settling
    <3> QED BY <2>1, <3>1, <3>2, TaskIncurs
  <2> QED BY <2>2, <2>3
<1>4. CASE Retool \/ SettlePrune \/ SettleWindowDrop
  BY <1>4, TaskSettles DEF Retool, SettlePrune, SettleWindowDrop
<1>5. CASE TaskBoundary \/ Turn
  <2>1. ASSUME NEW from, NEW to \in {"maintaining", "reclaiming"}, Maintain(from, to)
        PROVE  OwedWhileSettling'
    BY <2>1, TaskIncurs DEF Maintain, Settling
  <2>2. ASSUME NEW from, NEW to, SettleMaintenance(from, to) PROVE OwedWhileSettling'
    BY <2>2, TaskSettles DEF SettleMaintenance
  <2> QED BY <1>5, <2>1, <2>2, TaskOwesNothing DEF TaskBoundary, Turn, Settling
<1>6. CASE AutoCompact
  <2>1. CASE SettleTask("compacted", "build", "idle")
    BY <2>1, TaskSettles
  <2>2. CASE Go("rewrite", "compacted") /\ Incur("task", "compact") /\ UNCHANGED manualPc
    BY <2>2, TaskIncurs DEF Settling
  <2> QED BY <1>6, <2>1, <2>2, TaskOwesNothing DEF AutoCompact, Settling
<1>7. ASSUME NEW p \in Processes, Stamp(p) PROVE OwedWhileSettling'
  <2>1. \A q \in Processes : owed'[q].cause = owed[q].cause
    BY <1>7 DEF Stamp, TypeInv, TypeOK, Debts
  <2> QED BY <1>7, <2>1 DEF Stamp, OwedWhileSettling, Processes
<1>8. CASE StartCompact \/ SummarizeManual
  BY <1>8 DEF StartCompact, SummarizeManual, OwedWhileSettling
<1>9. CASE CompactManual
  BY <1>9, IncurredDebt DEF CompactManual, OwedWhileSettling, Processes
<1>10. CASE SettleManual
  BY <1>10, SettledDebt DEF SettleManual, OwedWhileSettling, Processes
<1>11. CASE Restart
  BY <1>11 DEF Restart, OwedWhileSettling, NoDebt, Processes
<1>12. CASE AtBound \/ UNCHANGED vars
  BY <1>12 DEF AtBound, vars, OwedWhileSettling
<1> QED
  BY <1>1, <1>2, <1>3, <1>4, <1>5, <1>6, <1>7, <1>8, <1>9, <1>10, <1>11, <1>12 DEF Next

\* The steps that take a request number are not taken while an event is owed.
LEMMA NumbersTaken ==
    ASSUME TypeInv, AttributionInv, OwedInv, [Next]_vars, requestSeq' # requestSeq
    PROVE  owed' = owed /\ \A p \in Processes : owed[p].cause = "none"
<1>1. \/ AdvisorCall \/ OnboardingCall \/ AutoCompact \/ RecordMainUsage \/ SummarizeManual
  <2>1. ASSUME NEW p \in Processes, Stamp(p) PROVE FALSE
    BY <2>1 DEF Stamp, ledgerVars
  <2> QED
    BY <2>1
    DEF Next, vars, StartTask, ReconcileCatalog, SwitchModel, SettleSwitch, SettleTask,
        AdvisorDecision, BoundaryToolChange, Retool, StaleResumePrune, SettlePrune,
        TaskBoundary, Maintain, SettleMaintenance, Turn, Build, SettleWindowDrop, ResumeDrift,
        Guard, Chat, PersistPrefixShapeOnce, StartCompact, CompactManual, SettleManual,
        Restart, AtBound, ledgerVars
<1>2. CASE SummarizeManual
  <2>1. manualPc = "summarize" /\ owed' = owed
    BY <1>2 DEF SummarizeManual
  <2>2. taskPc = "idle"
    BY <2>1 DEF AttributionInv
  <2> QED BY <2>1, <2>2 DEF OwedInv, OwedWhileSettling, Settling, Processes
<1>3. CASE AdvisorCall \/ OnboardingCall \/ AutoCompact \/ RecordMainUsage
  <2>1. taskPc \in {"advisor", "onboarding", "summarize", "usage"} /\ owed' = owed
    BY <1>3 DEF AdvisorCall, OnboardingCall, AutoCompact, RecordMainUsage, SettleTask, ledgerVars
  <2>2. manualPc = "idle"
    BY <2>1 DEF AttributionInv
  <2> QED BY <2>1, <2>2 DEF OwedInv, OwedWhileSettling, Settling, Processes
<1> QED BY <1>1, <1>2, <1>3

LEMMA OwedStep ==
    ASSUME TypeInv, AttributionInv, OwedInv, [Next]_vars
    PROVE  OwedInv'
<1>1. OwedWhileSettling'
  BY DebtsStep DEF OwedInv
<1>2. CASE requestSeq' = requestSeq
  <2>1. \A p \in Processes : owed'[p].seq \in {0, NextRequestSeq, owed[p].seq}
    BY LedgerStep DEF LedgerGrows
  <2> QED BY <1>1, <1>2, <2>1 DEF OwedInv, StampsAreNext, NextRequestSeq
<1>3. CASE requestSeq' # requestSeq
  <2>1. \A p \in Processes : owed'[p].seq = 0
    BY <1>3, NumbersTaken DEF TypeInv, ControlInv, DebtOK
  <2> QED BY <1>1, <2>1 DEF OwedInv, StampsAreNext
<1> QED BY <1>2, <1>3

\* A stamp that is the next number is accepted.
LEMMA NextStampAccepted ==
    ASSUME TypeInv, EventsNeverAhead
    PROVE  Accepts(NextRequestSeq, TRUE)
<1>1. events # <<>> => Len(events) \in DOMAIN events
  BY DEF TypeInv, TypeOK
<1>2. CASE events = <<>>
  BY <1>2 DEF Accepts
<1>3. CASE events # <<>>
  <2> DEFINE Entry == [cause : Causes, seq : Nat]
  <2>1. events \in Seq(Entry) /\ \A entry \in Entry : entry.seq \in Nat
    BY DEF TypeInv, TypeOK
  <2> HIDE DEF Entry
  <2>2. events[Len(events)] \in Entry
    BY <1>1, <1>3, <2>1
  <2>3. events[Len(events)].seq <= NextRequestSeq /\ events[Len(events)].seq \in Nat
    BY <1>1, <1>3, <2>1, <2>2 DEF EventsNeverAhead
  <2> QED BY <2>3 DEF Accepts, NextRequestSeq, TypeInv, TypeOK
<1> QED BY <1>2, <1>3

LEMMA OwedIsAccepted ==
    ASSUME TypeInv, EventsNeverAhead, OwedInv
    PROVE  StampsNeverRefused
  BY NextStampAccepted DEF OwedInv, StampsAreNext, StampsNeverRefused

\* As long as no task starts during a manual compaction, the ledger's order check
\* never refuses an event: each is recorded before another number is taken.
THEOREM StampsAlwaysAccepted == ~Overlap => (Spec => []StampsNeverRefused)
<1> SUFFICES ASSUME ~Overlap PROVE Spec => []StampsNeverRefused
  OBVIOUS
<1>1. Init => TypeInv /\ AttributionInv /\ OwedInv
  <2>1. ASSUME Init PROVE AttributionInv /\ OwedInv
    <3>1. \A p \in Processes : owed[p].cause = "none" /\ owed[p].seq = 0
      BY <2>1 DEF Init, NoDebt
    <3>2. AttributionInv
      BY <2>1 DEF Init, AttributionInv
    <3> QED BY <3>1, <3>2 DEF OwedInv, OwedWhileSettling, StampsAreNext, Processes
  <2> QED BY <2>1, InitTypeInv
<1>2. TypeInv /\ AttributionInv /\ OwedInv /\ [Next]_vars
        => (TypeInv /\ AttributionInv /\ OwedInv)'
  BY StepTypeInv, AttributionStep, OwedStep
<1>3. Spec => []EventsNeverAhead
  BY LedgerNeverAhead
<1>4. TypeInv /\ OwedInv /\ EventsNeverAhead => StampsNeverRefused
  BY OwedIsAccepted
<1> QED BY <1>1, <1>2, <1>3, <1>4, PTL DEF Spec

-----------------------------------------------------------------------------
(* The sidecar.  Between a switch and its record the model it named is     *)
(* the one the switch would go back to.                                    *)

Switching == {"substituting", "switching"}

\* From the moment it is built, a request keeps its prefix: only a manual
\* compaction could change the history under it.
BuiltKept ==
    taskPc' \in Building =>
        \/ built' = wire'
        \/ /\ taskPc \in Building /\ built' = built
           /\ wire' = wire \/ (RewriteHistory /\ manualPc = "rewrite")

LEMMA BuiltStep == ASSUME [Next]_vars PROVE BuiltKept
<1> USE DEF BuiltKept, Building, shapeVars
<1>1. CASE StartTask \/ ReconcileCatalog \/ AdvisorCall \/ AdvisorDecision \/ OnboardingCall
  BY <1>1 DEF StartTask, ReconcileCatalog, SwitchModel, SettleSwitch, SettleTask, AdvisorCall,
              AdvisorDecision, OnboardingCall
<1>2. CASE BoundaryToolChange \/ Retool \/ StaleResumePrune \/ SettlePrune \/ TaskBoundary
  BY <1>2 DEF BoundaryToolChange, Retool, SettleTask, StaleResumePrune, SettlePrune,
              TaskBoundary, Maintain, SettleMaintenance
<1>3. CASE Turn \/ AutoCompact \/ Build \/ SettleWindowDrop \/ ResumeDrift \/ Guard \/ Chat
  BY <1>3 DEF Turn, Maintain, SettleMaintenance, SettleTask, AutoCompact, Build,
              SettleWindowDrop, ResumeDrift, Guard, Chat
<1>4. CASE RecordMainUsage \/ PersistPrefixShapeOnce \/ StartCompact \/ SummarizeManual
           \/ CompactManual \/ SettleManual \/ Restart
  BY <1>4 DEF RecordMainUsage, PersistPrefixShapeOnce, StartCompact, SummarizeManual,
              CompactManual, SettleManual, Restart
<1>5. ASSUME NEW p \in Processes, Stamp(p) PROVE BuiltKept
  BY <1>5 DEF Stamp
<1>6. CASE AtBound \/ UNCHANGED vars
  BY <1>6 DEF AtBound, vars
<1> QED BY <1>1, <1>2, <1>3, <1>4, <1>5, <1>6 DEF Next

\* A step that neither switches the model nor records what was sent.
ModelAlone ==
    /\ UNCHANGED <<saved, sidecar, lastShape>>
    /\ wire'.model = wire.model
    /\ taskPc' \in Switching <=> taskPc \in Switching
    /\ taskPc \in Switching => owed'["task"].undo = owed["task"].undo
    /\ taskPc' = "save" => taskPc = "save" /\ built' = built

LEMMA ModelStep ==
    ASSUME TypeInv, [Next]_vars
    PROVE  \/ ModelAlone
           \/ SwitchModel("reconcile", "substituting") \/ SwitchModel("decide", "switching")
           \/ SettleSwitch("substituting", "advisor") \/ SettleSwitch("switching", "onboarding")
           \/ RecordMainUsage \/ PersistPrefixShapeOnce \/ Restart
<1> USE DEF ModelAlone, Switching, ledgerVars, shapeVars, cacheVars, lifeVars
<1>1. RewriteHistory => wire'.model = wire.model
  BY DEF RewriteHistory, TypeInv, TypeOK, Prefixes
<1>2. CASE StartTask \/ ReconcileCatalog \/ AdvisorCall \/ AdvisorDecision \/ OnboardingCall
  BY <1>2 DEF StartTask, ReconcileCatalog, AdvisorCall, AdvisorDecision, OnboardingCall
<1>3. CASE Retool
  <2>1. wire'.model = wire.model
    BY <1>3 DEF Retool, TypeInv, TypeOK, Prefixes
  <2> QED BY <1>3, <2>1 DEF Retool, SettleTask
<1>4. CASE BoundaryToolChange \/ StaleResumePrune \/ SettlePrune \/ TaskBoundary
  BY <1>1, <1>4 DEF BoundaryToolChange, SettleTask, StaleResumePrune, SettlePrune,
              TaskBoundary, Maintain, SettleMaintenance
<1>5. CASE Turn \/ AutoCompact \/ Build \/ SettleWindowDrop \/ ResumeDrift \/ Guard \/ Chat
  BY <1>1, <1>5 DEF Turn, Maintain, SettleMaintenance, SettleTask, AutoCompact, Build,
              SettleWindowDrop, ResumeDrift, Guard, Chat
<1>6. CASE StartCompact \/ SummarizeManual
  BY <1>6 DEF StartCompact, SummarizeManual
<1>7. CASE CompactManual
  BY <1>1, <1>7, IncurredDebt DEF CompactManual, Processes
<1>8. CASE SettleManual
  BY <1>8, SettledDebt DEF SettleManual, Processes
<1>9. ASSUME NEW p \in Processes, Stamp(p) PROVE ModelAlone
  <2>1. owed'["task"].undo = owed["task"].undo
    BY <1>9 DEF Stamp, TypeInv, TypeOK, Debts, Processes
  <2> QED BY <1>9, <2>1 DEF Stamp
<1>10. CASE AtBound \/ UNCHANGED vars
  BY <1>10 DEF AtBound, vars
<1> QED BY <1>2, <1>3, <1>4, <1>5, <1>6, <1>7, <1>8, <1>9, <1>10 DEF Next

SidecarInv ==
    /\ saved => /\ sidecar # NoShape /\ lastShape # NoShape
                /\ sidecar.model = lastShape.model
                /\ sidecar.model = IF taskPc \in Switching THEN owed["task"].undo ELSE wire.model
    /\ taskPc \in Building => built.model = wire.model
    /\ taskPc = "save" => lastShape = built

LEMMA SidecarStep ==
    ASSUME TypeInv, NumbersBehind, SidecarInv, ~PersistFails, [Next]_vars
    PROVE  SidecarInv'
<1>1. (taskPc \in Building => built.model = wire.model)'
  <2>1. RewriteHistory => wire'.model = wire.model
    BY DEF RewriteHistory, TypeInv, TypeOK, Prefixes
  <2> QED BY <2>1, BuiltStep DEF BuiltKept, SidecarInv
<1>2. CASE ModelAlone
  BY <1>1, <1>2 DEF ModelAlone, SidecarInv
<1>3. ASSUME NEW from, NEW to \in Switching, from \notin Switching, SwitchModel(from, to)
      PROVE  SidecarInv'
  <2>1. owed'["task"].undo = wire.model /\ taskPc' = to /\ taskPc \notin Switching
    <3>1. Incur("task", "model_switch") /\ taskPc' = to /\ taskPc \notin Switching
      BY <1>3 DEF SwitchModel
    <3>2. owed'["task"] = [cause |-> "model_switch", seq |-> 0, undo |-> wire.model]
      BY <3>1, IncurredDebt DEF Processes
    <3> QED BY <3>1, <3>2
  <2>2. UNCHANGED <<saved, sidecar, lastShape>>
    BY <1>3 DEF SwitchModel, shapeVars, cacheVars
  <2> QED BY <1>1, <1>3, <2>1, <2>2 DEF SidecarInv, Switching
<1>4. ASSUME NEW from \in Switching, NEW to, to \notin Switching, to # "save",
             SettleSwitch(from, to)
      PROVE  SidecarInv'
  <2>1. taskPc = from /\ taskPc' = to /\ UNCHANGED <<sidecar, lastShape>>
    BY <1>4 DEF SettleSwitch, SettleTask, shapeVars
  <2>2. CASE events' # events
    BY <1>1, <1>4, <2>1, <2>2 DEF SettleSwitch, SidecarInv
  <2>3. CASE events' = events
    <3>1. wire'.model = owed["task"].undo /\ saved' = saved
      BY <1>4, <2>3 DEF SettleSwitch, TypeInv, TypeOK, Prefixes
    <3> QED BY <1>1, <1>4, <2>1, <3>1 DEF SidecarInv
  <2> QED BY <2>2, <2>3
<1>5. CASE RecordMainUsage
  <2>1. sent' # sent
    BY <1>5, UnrecordedUsage
  <2>2. /\ taskPc = "usage" /\ taskPc' = "save" /\ lastShape' = built /\ built \in Prefixes
        /\ saved' => saved
    BY <1>5, <2>1, RecordedUsage
  <2>3. UNCHANGED <<sidecar, wire, built>>
    BY <1>5 DEF RecordMainUsage
  <2>4. built.model = wire.model /\ built # NoShape
    BY <2>2, ConstantsAssumption DEF SidecarInv, Building, Prefixes
  <2>5. taskPc \notin Switching /\ taskPc' \notin Switching
    BY <2>2 DEF Switching
  <2> QED BY <1>1, <2>2, <2>3, <2>4, <2>5 DEF SidecarInv
<1>6. CASE PersistPrefixShapeOnce
  <2>1. /\ taskPc = "save" /\ taskPc' \in {"turn", "idle"}
        /\ UNCHANGED <<wire, built, lastShape>>
        /\ sidecar' = IF saved THEN sidecar ELSE [model |-> built.model, tools |-> built.tools]
    BY <1>6 DEF PersistPrefixShapeOnce, PersistOutcomes, shapeVars
  <2>2. built \in Prefixes /\ built.model = wire.model /\ lastShape = built
    BY <2>1 DEF TypeInv, ControlInv, SidecarInv, Building
  <2>3. built # NoShape /\ [model |-> built.model, tools |-> built.tools] # NoShape
    BY <2>2, ConstantsAssumption DEF Prefixes
  <2>4. taskPc \notin Switching /\ taskPc' \notin Switching
    BY <2>1 DEF Switching
  <2>5. sidecar' # NoShape /\ lastShape' # NoShape /\ sidecar'.model = wire'.model
    BY <2>1, <2>2, <2>3, <2>4 DEF SidecarInv
  <2> QED BY <1>1, <2>1, <2>2, <2>4, <2>5 DEF SidecarInv
<1>7. CASE Restart
  BY <1>1, <1>7 DEF Restart, SidecarInv
<1>8. /\ {"reconcile", "decide"} \cap Switching = {}
      /\ {"advisor", "onboarding", "save"} \cap Switching = {}
      /\ "substituting" \in Switching /\ "switching" \in Switching
  BY DEF Switching
<1> QED BY <1>2, <1>3, <1>4, <1>5, <1>6, <1>7, <1>8, ModelStep

\* A saved sidecar names the model the last recorded request was made with, as
\* long as the appends succeed, switches rolled back and compactions included.
THEOREM SidecarAlwaysFollows == ~PersistFails => (Spec => []SidecarFollowsModel)
<1> SUFFICES ASSUME ~PersistFails PROVE Spec => []SidecarFollowsModel
  OBVIOUS
<1>1. Init => TypeInv /\ WarmInv /\ SidecarInv
  BY InitTypeInv
  DEF Init, WarmInv, NumbersBehind, WarmMeansConversationSent, SidecarInv, Building
<1>2. TypeInv /\ WarmInv /\ SidecarInv /\ [Next]_vars => (TypeInv /\ WarmInv /\ SidecarInv)'
  BY StepTypeInv, WarmStep, SidecarStep DEF WarmInv
<1>3. SidecarInv => SidecarFollowsModel
  BY DEF SidecarInv, SidecarFollowsModel
<1> QED BY <1>1, <1>2, <1>3, PTL DEF Spec

\* What is carried from one request or process to the next is true, where tasks and
\* compactions take turns and the appends succeed: the three parts together.
THEOREM CarriedStateAlwaysTrue ==
    ~Overlap /\ ~PersistFails => (Spec => []CarriedStateIsTrue)
<1> SUFFICES ASSUME ~Overlap, ~PersistFails PROVE Spec => []CarriedStateIsTrue
  OBVIOUS
<1>1. Spec => []StampsNeverRefused
  BY StampsAlwaysAccepted
<1>2. Spec => []WarmMeansConversationSent
  BY WarmthIsEarned
<1>3. Spec => []SidecarFollowsModel
  BY SidecarAlwaysFollows
<1> QED BY <1>1, <1>2, <1>3, PTL DEF CarriedStateIsTrue

-----------------------------------------------------------------------------
(* Regions.  Every region in which the prefix has moved since the last     *)
(* recorded request is explained by an event or still owed one.            *)

EventSince(region, seq) ==
    \E i \in DOMAIN events : events[i].cause \in CausesOf(region) /\ seq < events[i].seq

OwedFor(region) == \E p \in Processes : owed[p].cause \in CausesOf(region)

\* The step puts an event of that cause in the ledger, with the next number.
Enters(cause) == \E i \in DOMAIN events' : /\ events'[i].cause = cause
                                           /\ events'[i].seq = NextRequestSeq

\* A step changes the prefix only in regions it explains or owes an event for,
\* and no debt is dropped.
ChangeExplained ==
    /\ \A region \in CompareShape(wire, wire') :
          \/ OwedFor(region)'
          \/ \E cause \in CausesOf(region) : Enters(cause)
    /\ \A p \in Processes : owed[p].cause # "none" =>
          owed'[p].cause = owed[p].cause \/ Enters(owed[p].cause)

RetoolOwed == taskPc = "retooling" => owed["task"].cause = "toolset_change"

LEMMA NothingChanged ==
    ASSUME wire' = wire, \A p \in Processes : owed'[p].cause = owed[p].cause
    PROVE  ChangeExplained
  BY DEF ChangeExplained, CompareShape

LEMMA IncurExplains ==
    ASSUME TypeInv, NEW p \in Processes, NEW cause \in Causes, Incur(p, cause),
           owed[p].cause = "none", \A region \in CompareShape(wire, wire') : cause \in CausesOf(region)
    PROVE  ChangeExplained
<1>1. owed'[p] = [cause |-> cause, seq |-> 0, undo |-> wire.model]
  BY IncurredDebt
<1>2. owed'[p].cause = cause /\ \A q \in Processes : q # p => owed'[q] = owed[q]
  BY <1>1, IncurredDebt
<1> QED BY <1>2 DEF ChangeExplained, OwedFor

LEMMA SettleExplains ==
    ASSUME TypeInv, EventsNeverAhead, OwedInv, ~PersistFails, NEW p \in Processes,
           Recorded(p) \/ Refused(p)
    PROVE  /\ events' # events
           /\ Enters(owed[p].cause)
           /\ \A q \in Processes : q # p => owed'[q] = owed[q]
<1>1. owed[p].seq = NextRequestSeq
  BY DEF Recorded, Refused, OwedInv, StampsAreNext
<1>2. Recorded(p)
  BY <1>1, NextStampAccepted DEF Refused, PersistOutcomes
<1> DEFINE entry == [cause |-> owed[p].cause, seq |-> owed[p].seq]
           Entry == [cause : Causes, seq : Nat]
<1>3. /\ events' = Append(events, entry) /\ entry.seq = NextRequestSeq
      /\ entry.cause = owed[p].cause
  BY <1>1, <1>2 DEF Recorded
<1>4. entry \in Entry /\ events \in Seq(Entry)
  BY <1>2 DEF TypeInv, TypeOK, ControlInv, DebtOK, Debts, Recorded
<1> HIDE DEF entry, Entry
<1>5. /\ Len(events) + 1 \in DOMAIN events' /\ events'[Len(events) + 1] = entry
      /\ Len(events') # Len(events)
  BY <1>3, <1>4
<1> QED BY <1>2, <1>3, <1>5, SettledDebt DEF Enters

LEMMA SettledUnchanged ==
    ASSUME TypeInv, EventsNeverAhead, OwedInv, ~PersistFails, NEW p \in Processes,
           Recorded(p) \/ Refused(p), wire' = wire
    PROVE  ChangeExplained
  BY SettleExplains DEF ChangeExplained, CompareShape

\* What a rewrite, a switch and a change of the tools touch.
LEMMA RewriteRegion ==
    ASSUME TypeInv, RewriteHistory
    PROVE  CompareShape(wire, wire') \subseteq {"history"}
  BY DEF RewriteHistory, CompareShape, Regions, TypeInv, TypeOK, Prefixes

LEMMA SwitchRegion ==
    ASSUME TypeInv, NEW from, NEW to, SwitchModel(from, to)
    PROVE  CompareShape(wire, wire') \subseteq {"model"}
  BY DEF SwitchModel, CompareShape, Regions, TypeInv, TypeOK, Prefixes

LEMMA TaskOwesNone ==
    ASSUME OwedInv, taskPc \notin Settling
    PROVE  owed["task"].cause = "none"
  BY DEF OwedInv, OwedWhileSettling

LEMMA RewriteIncurs ==
    ASSUME TypeInv, OwedInv, RewriteHistory, NEW cause \in HistoryCauses,
           Incur("task", cause), taskPc \notin Settling
    PROVE  ChangeExplained
<1>1. owed["task"].cause = "none" /\ "task" \in Processes /\ cause \in Causes
  BY TaskOwesNone DEF Processes, Causes
<1>2. \A region \in CompareShape(wire, wire') : cause \in CausesOf(region)
  BY RewriteRegion DEF CausesOf
<1> QED BY <1>1, <1>2, IncurExplains

LEMMA ExplainStep ==
    ASSUME TypeInv, EventsNeverAhead, OwedInv, RetoolOwed, ~PersistFails, [Next]_vars
    PROVE  ChangeExplained \/ Restart
<1>1. CASE StartTask \/ AdvisorCall \/ OnboardingCall \/ ResumeDrift \/ Guard \/ Chat
           \/ RecordMainUsage \/ PersistPrefixShapeOnce \/ StartCompact \/ SummarizeManual
           \/ AtBound \/ UNCHANGED vars
  <2>1. wire' = wire /\ owed' = owed
    BY <1>1 DEF StartTask, AdvisorCall, OnboardingCall, ResumeDrift, Guard, Chat, vars,
                RecordMainUsage, PersistPrefixShapeOnce, StartCompact, SummarizeManual, AtBound
  <2> QED BY <2>1, NothingChanged
<1>2. ASSUME NEW p \in Processes, Stamp(p) PROVE ChangeExplained
  <2>1. wire' = wire /\ \A q \in Processes : owed'[q].cause = owed[q].cause
    BY <1>2 DEF Stamp, TypeInv, TypeOK, Debts
  <2> QED BY <2>1, NothingChanged
<1>3. CASE ReconcileCatalog \/ AdvisorDecision
  <2>1. ASSUME NEW from \in {"reconcile", "decide"}, NEW to, SwitchModel(from, to)
        PROVE  ChangeExplained
    <3>1. owed["task"].cause = "none" /\ Incur("task", "model_switch")
      BY <2>1, TaskOwesNone DEF SwitchModel, Settling
    <3>2. \A region \in CompareShape(wire, wire') : "model_switch" \in CausesOf(region)
      BY <2>1, SwitchRegion DEF CausesOf
    <3>3. "task" \in Processes /\ "model_switch" \in Causes
      BY DEF Processes, Causes
    <3> QED BY <3>1, <3>2, <3>3, IncurExplains
  <2>2. ASSUME NEW from, NEW to, SettleSwitch(from, to) PROVE ChangeExplained
    <3>1. Recorded("task") \/ Refused("task")
      BY <2>2 DEF SettleSwitch, SettleTask
    <3>2. wire' = wire
      BY <2>2, <3>1, SettleExplains DEF SettleSwitch, Processes
    <3> QED BY <3>1, <3>2, SettledUnchanged DEF Processes
  <2>3. CASE UNCHANGED <<wire, owed>>
    BY <2>3, NothingChanged
  <2> QED BY <1>3, <2>1, <2>2, <2>3 DEF ReconcileCatalog, AdvisorDecision
<1>4. CASE BoundaryToolChange
  <2>1. CASE UNCHANGED <<wire, owed>>
    BY <2>1, NothingChanged
  <2>2. CASE taskPc = "tools" /\ Incur("task", "toolset_change") /\ UNCHANGED wire
    <3>1. owed["task"].cause = "none" /\ "task" \in Processes /\ "toolset_change" \in Causes
      BY <2>2, TaskOwesNone DEF Settling, Processes, Causes
    <3>2. CompareShape(wire, wire') = {}
      BY <2>2 DEF CompareShape
    <3> QED BY <2>2, <3>1, <3>2, IncurExplains
  <2> QED BY <1>4, <2>1, <2>2 DEF BoundaryToolChange
<1>5. CASE Retool
  <2>1. (Recorded("task") \/ Refused("task")) /\ taskPc = "retooling"
    BY <1>5 DEF Retool, SettleTask
  <2>2. /\ events' # events /\ Enters("toolset_change")
        /\ owed["task"].cause = "toolset_change"
        /\ \A q \in Processes : q # "task" => owed'[q] = owed[q]
    BY <2>1, SettleExplains DEF RetoolOwed, Processes
  <2>3. CompareShape(wire, wire') \subseteq {"tools"}
    BY <1>5, <2>2 DEF Retool, CompareShape, Regions, TypeInv, TypeOK, Prefixes
  <2> QED BY <2>2, <2>3 DEF ChangeExplained, CausesOf
<1>6. CASE StaleResumePrune
  <2>1. CASE UNCHANGED <<wire, owed>>
    BY <2>1, NothingChanged
  <2>2. CASE taskPc = "prologue" /\ RewriteHistory /\ Incur("task", "fold")
    BY <2>2, RewriteIncurs DEF HistoryCauses, Settling
  <2> QED BY <1>6, <2>1, <2>2 DEF StaleResumePrune
<1>7. CASE SettlePrune \/ SettleWindowDrop
  BY <1>7, SettledUnchanged DEF SettlePrune, SettleWindowDrop, SettleTask, Processes
<1>8. CASE TaskBoundary \/ Turn
  <2>1. CASE UNCHANGED <<wire, owed>>
    BY <2>1, NothingChanged
  <2>2. ASSUME NEW from \in {"boundary", "turn"}, NEW to, Maintain(from, to)
        PROVE  ChangeExplained
    BY <2>2, RewriteIncurs DEF Maintain, HistoryCauses, Settling
  <2>3. ASSUME NEW from, NEW to, SettleMaintenance(from, to) PROVE ChangeExplained
    BY <2>3, SettledUnchanged DEF SettleMaintenance, SettleTask, Processes
  <2> QED BY <1>8, <2>1, <2>2, <2>3 DEF TaskBoundary, Turn
<1>9. CASE AutoCompact
  <2>1. CASE UNCHANGED <<wire, owed>>
    BY <2>1, NothingChanged
  <2>2. CASE taskPc = "rewrite" /\ RewriteHistory /\ Incur("task", "compact")
    BY <2>2, RewriteIncurs DEF HistoryCauses, Settling
  <2>3. CASE SettleTask("compacted", "build", "idle") /\ UNCHANGED wire
    BY <2>3, SettledUnchanged DEF SettleTask, Processes
  <2> QED BY <1>9, <2>1, <2>2, <2>3 DEF AutoCompact
<1>10. CASE Build
  <2>1. CASE UNCHANGED <<wire, owed>>
    BY <2>1, NothingChanged
  <2>2. CASE taskPc = "build" /\ RewriteHistory /\ Incur("task", "window_drop")
    BY <2>2, RewriteIncurs DEF HistoryCauses, Settling
  <2> QED BY <1>10, <2>1, <2>2 DEF Build
<1>11. CASE CompactManual
  <2>1. manualPc = "rewrite" /\ RewriteHistory /\ Incur("manual", "user_compact")
    BY <1>11 DEF CompactManual
  <2>2. owed["manual"].cause = "none" /\ "manual" \in Processes /\ "user_compact" \in Causes
    BY <2>1 DEF OwedInv, OwedWhileSettling, Processes, Causes, HistoryCauses
  <2>3. \A region \in CompareShape(wire, wire') : "user_compact" \in CausesOf(region)
    BY <2>1, RewriteRegion DEF CausesOf, HistoryCauses
  <2> QED BY <2>1, <2>2, <2>3, IncurExplains
<1>12. CASE SettleManual
  BY <1>12, SettledUnchanged DEF SettleManual, Processes
<1> QED
  BY <1>1, <1>2, <1>3, <1>4, <1>5, <1>6, <1>7, <1>8, <1>9, <1>10, <1>11, <1>12 DEF Next

LEMMA RetoolStep == ASSUME TypeInv, RetoolOwed, [Next]_vars PROVE RetoolOwed'
<1>1. CASE BoundaryToolChange
  <2>1. CASE Incur("task", "toolset_change")
    <3>1. owed'["task"] = [cause |-> "toolset_change", seq |-> 0, undo |-> wire.model]
      BY <2>1, IncurredDebt DEF Processes
    <3> QED BY <3>1 DEF RetoolOwed
  <2> QED BY <1>1, <2>1 DEF BoundaryToolChange, RetoolOwed
<1>2. ASSUME NEW p \in Processes, Stamp(p) PROVE RetoolOwed'
  BY <1>2 DEF Stamp, RetoolOwed, TypeInv, TypeOK, Debts, Processes
<1>3. CASE CompactManual
  BY <1>3, IncurredDebt DEF CompactManual, RetoolOwed, Processes
<1>4. CASE SettleManual
  BY <1>4, SettledDebt DEF SettleManual, RetoolOwed, Processes
<1>5. CASE StartCompact \/ SummarizeManual \/ AtBound \/ UNCHANGED vars
  BY <1>5 DEF StartCompact, SummarizeManual, AtBound, vars, RetoolOwed
<1>6. \/ taskPc' # "retooling" \/ BoundaryToolChange \/ (\E p \in Processes : Stamp(p))
      \/ CompactManual \/ SettleManual \/ StartCompact \/ SummarizeManual \/ AtBound
      \/ UNCHANGED vars
  BY DEF Next, StartTask, ReconcileCatalog, SwitchModel, SettleSwitch, SettleTask,
      AdvisorCall, AdvisorDecision, OnboardingCall, Retool,
      StaleResumePrune, SettlePrune, TaskBoundary, Maintain, SettleMaintenance, Turn,
      AutoCompact, Build, SettleWindowDrop, ResumeDrift, Guard, Chat, RecordMainUsage,
      PersistPrefixShapeOnce, Restart
<1> QED BY <1>1, <1>2, <1>3, <1>4, <1>5, <1>6 DEF RetoolOwed

LastRequest(r) == r.life = life /\ \A q \in sent : q.seq <= r.seq

\* The prefix the next request would carry is what the last one carried, but for
\* changes that are in the ledger with a later number, or are owed to it.
LastExplained(r) ==
    /\ LastRequest(r) /\ r.wire = lastShape
    /\ \A region \in CompareShape(lastShape, wire) :
          EventSince(region, r.seq) \/ OwedFor(region)

RegionInv ==
    /\ \A a, b \in sent : a.seq = b.seq => a = b
    /\ \A a \in sent : a.life <= life /\ (a.life = life => lastShape # NoShape)
    /\ lastShape # NoShape => \E r \in sent : LastExplained(r)
    /\ taskPc \in Building => built = wire
    /\ EveryRegionExplained

GuardInv == AttributionInv /\ EventsNeverAhead /\ OwedInv /\ RetoolOwed /\ WarmInv /\ RegionInv

LEMMA BuiltIsWireStep ==
    ASSUME AttributionInv, taskPc \in Building => built = wire, [Next]_vars
    PROVE  (taskPc \in Building => built = wire)'
<1>1. taskPc \in Building => manualPc # "rewrite"
  BY DEF AttributionInv, Building
<1> QED BY <1>1, BuiltStep DEF BuiltKept

\* Events are kept, so what they explained stays explained.
LEMMA EventsKept ==
    ASSUME TypeInv, [Next]_vars
    PROVE  \A region, seq : EventSince(region, seq) => EventSince(region, seq)'
<1>1. \A i \in DOMAIN events : i \in DOMAIN events' /\ events'[i] = events[i]
  BY LedgerStep DEF LedgerGrows
<1> QED BY <1>1 DEF EventSince

LEMMA EnteredSince ==
    ASSUME TypeInv, NEW region, NEW cause \in CausesOf(region), Enters(cause),
           NEW seq \in Nat, seq <= requestSeq
    PROVE  EventSince(region, seq)'
<1>1. seq < NextRequestSeq
  BY DEF NextRequestSeq, TypeInv, TypeOK
<1> QED BY <1>1 DEF EventSince, Enters

\* While no request is recorded, the last one stays explained.
LEMMA LastStaysExplained ==
    ASSUME TypeInv, NumbersBehind, ChangeExplained, [Next]_vars,
           UNCHANGED <<sent, lastShape, life>>, NEW r \in sent, LastExplained(r)
    PROVE  LastExplained(r)'
<1>1. LastRequest(r)' /\ r.wire = lastShape'
  BY DEF LastExplained, LastRequest
<1>2. r.seq \in Nat /\ r.seq <= requestSeq
  BY DEF NumbersBehind, TypeInv, TypeOK
<1>3. ASSUME NEW region \in CompareShape(lastShape', wire')
      PROVE  EventSince(region, r.seq)' \/ OwedFor(region)'
  <2>1. CASE region \in CompareShape(wire, wire')
    BY <1>2, <2>1, EnteredSince DEF ChangeExplained
  <2>2. CASE region \notin CompareShape(wire, wire')
    <3>1. region \in CompareShape(lastShape, wire)
      BY <1>3, <2>2 DEF CompareShape
    <3>2. CASE EventSince(region, r.seq)
      BY <3>2, EventsKept
    <3>3. CASE OwedFor(region)
      <4>1. PICK p \in Processes : owed[p].cause \in CausesOf(region)
        BY <3>3 DEF OwedFor
      <4>2. owed[p].cause # "none"
        BY <1>3, <4>1 DEF CompareShape, Regions, CausesOf, HistoryCauses
      <4>3. owed'[p].cause = owed[p].cause \/ Enters(owed[p].cause)
        BY <4>2 DEF ChangeExplained
      <4>4. CASE owed'[p].cause = owed[p].cause
        BY <4>1, <4>4 DEF OwedFor
      <4>5. CASE Enters(owed[p].cause)
        BY <1>2, <4>1, <4>5, EnteredSince
      <4> QED BY <4>3, <4>4, <4>5
    <3> QED BY <3>1, <3>2, <3>3 DEF LastExplained
  <2> QED BY <2>1, <2>2
<1> QED BY <1>1, <1>3 DEF LastExplained

\* The pairs of successive requests that were explained stay so.
LEMMA PairsKept ==
    ASSUME TypeInv, EveryRegionExplained, [Next]_vars,
           NEW a \in sent, NEW b \in sent, Successive(a, b),
           NEW region \in CompareShape(a.wire, b.wire)
    PROVE  \E i \in DOMAIN events' : /\ events'[i].cause \in CausesOf(region)
                                     /\ a.seq < events'[i].seq /\ events'[i].seq <= b.seq
<1>1. PICK i \in DOMAIN events : /\ events[i].cause \in CausesOf(region)
                                 /\ a.seq < events[i].seq /\ events[i].seq <= b.seq
  BY DEF EveryRegionExplained
<1>2. i \in DOMAIN events' /\ events'[i] = events[i]
  BY LedgerStep DEF LedgerGrows
<1> QED BY <1>1, <1>2

LEMMA RegionStep ==
    ASSUME TypeInv, GuardInv, ~Overlap, ~PersistFails, [Next]_vars
    PROVE  RegionInv'
<1> USE DEF GuardInv
<1>1. (taskPc \in Building => built = wire)'
  BY BuiltIsWireStep DEF RegionInv
<1>2. CASE ChangeExplained /\ UNCHANGED <<sent, lastShape, life>>
  <2>1. lastShape' # NoShape => \E r \in sent' : LastExplained(r)'
    BY <1>2, LastStaysExplained DEF RegionInv, WarmInv
  <2>2. EveryRegionExplained'
    BY <1>2, PairsKept DEF EveryRegionExplained, Successive, RegionInv
  <2> QED BY <1>1, <1>2, <2>1, <2>2 DEF RegionInv
<1>3. CASE Restart
  <2>1. lastShape' = NoShape /\ sent' = sent /\ events' = events /\ life' = life + 1
    BY <1>3 DEF Restart, ledgerVars
  <2>2. life \in Nat /\ \A a \in sent : a.life \in Nat
    BY DEF TypeInv, TypeOK
  <2>3. \A a \in sent' : a.life <= life' /\ (a.life = life' => lastShape' # NoShape)
    BY <2>1, <2>2 DEF RegionInv
  <2>4. EveryRegionExplained'
    BY <2>1 DEF EveryRegionExplained, Successive, RegionInv
  <2> QED BY <1>1, <2>1, <2>3, <2>4 DEF RegionInv
<1>4. CASE RecordMainUsage
  <2>1. sent' # sent
    BY <1>4, UnrecordedUsage DEF WarmInv
  <2>2. PICK r \in Records :
          /\ r.seq = NextRequestSeq /\ r.wire = built /\ r.life = life
          /\ sent' = sent \cup {r}
          /\ taskPc = "usage" /\ taskPc' = "save" /\ lastShape' = built
          /\ requestSeq' = requestSeq + 1 /\ built \in Prefixes
    BY <1>4, <2>1, RecordedUsage
  <2>3. UNCHANGED <<wire, events, owed, life>>
    BY <1>4 DEF RecordMainUsage, lifeVars
  <2>4. \A a \in sent : a.seq \in Nat /\ a.seq < r.seq
    BY <2>2 DEF WarmInv, NumbersBehind, NextRequestSeq, TypeInv, TypeOK
  <2>5. built = wire /\ built # NoShape
    BY <2>2, ConstantsAssumption DEF RegionInv, Building, Prefixes
  <2>6. \A a, b \in sent' : a.seq = b.seq => a = b
    BY <2>2, <2>4 DEF RegionInv
  <2>7. \A a \in sent' : a.life <= life' /\ (a.life = life' => lastShape' # NoShape)
    BY <2>2, <2>3, <2>5 DEF RegionInv, TypeInv, TypeOK
  <2>8. LastExplained(r)'
    <3>1. CompareShape(lastShape', wire') = {}
      BY <2>2, <2>3, <2>5 DEF CompareShape
    <3>2. LastRequest(r)'
      BY <2>2, <2>3, <2>4 DEF LastRequest, Records
    <3> QED BY <2>2, <3>1, <3>2 DEF LastExplained
  <2>9. EveryRegionExplained'
    <3> SUFFICES ASSUME NEW a \in sent', NEW b \in sent', Successive(a, b)',
                        NEW region \in CompareShape(a.wire, b.wire)
                 PROVE  \E i \in DOMAIN events' : /\ events'[i].cause \in CausesOf(region)
                                                  /\ a.seq < events'[i].seq /\ events'[i].seq <= b.seq
      BY DEF EveryRegionExplained
    <3>1. a.seq < b.seq /\ a.life = b.life /\ \A c \in sent' : ~(a.seq < c.seq /\ c.seq < b.seq)
      BY DEF Successive
    <3>2. CASE b \in sent
      <4>1. a \in sent
        BY <2>2, <2>4, <3>1, <3>2 DEF Records
      <4>2. Successive(a, b)
        BY <2>2, <3>1, <3>2, <4>1 DEF Successive
      <4> QED BY <3>2, <4>1, <4>2, PairsKept DEF RegionInv
    <3>3. CASE b = r
      <4>1. a \in sent /\ a.life = life
        BY <2>2, <3>1, <3>3 DEF Records
      <4>2. PICK s \in sent : LastExplained(s)
        BY <4>1 DEF RegionInv
      <4>3. a.seq <= s.seq /\ s.seq < r.seq
        BY <2>4, <4>1, <4>2 DEF LastExplained, LastRequest
      <4>4. a = s
        BY <2>2, <2>4, <3>1, <3>3, <4>1, <4>2, <4>3 DEF RegionInv
      <4>5. region \in CompareShape(lastShape, wire)
        BY <2>2, <2>5, <3>3, <4>2, <4>4 DEF LastExplained
      <4>6. \A p \in Processes : owed[p].cause = "none"
        BY <2>2 DEF OwedInv, OwedWhileSettling, Settling, AttributionInv, Processes
      <4>7. "none" \notin CausesOf(region)
        BY <4>5 DEF CausesOf, CompareShape, Regions, HistoryCauses
      <4>8. EventSince(region, s.seq)
        BY <4>2, <4>5, <4>6, <4>7 DEF LastExplained, OwedFor
      <4>9. \A i \in DOMAIN events : events[i].seq <= r.seq
        BY <2>2 DEF EventsNeverAhead
      <4> QED BY <2>3, <3>3, <4>4, <4>8, <4>9 DEF EventSince
    <3> QED BY <2>2, <3>2, <3>3
  <2> QED BY <1>1, <2>2, <2>6, <2>7, <2>8, <2>9 DEF RegionInv
<1>5. ChangeExplained \/ Restart
  BY ExplainStep
<1> QED BY <1>2, <1>3, <1>4, <1>5, QuietStep DEF Quiet

LEMMA InitGuardInv == ASSUME Init PROVE GuardInv
<1>1. sent = {} /\ events = <<>> /\ lastShape = NoShape /\ taskPc = "idle" /\ manualPc = "idle"
  BY DEF Init
<1>2. \A p \in Processes : owed[p].cause = "none" /\ owed[p].seq = 0
  BY DEF Init, NoDebt
<1>3. AttributionInv /\ RetoolOwed
  BY <1>1 DEF AttributionInv, RetoolOwed
<1>4. EventsNeverAhead
  BY <1>1, <1>2 DEF EventsNeverAhead, NextRequestSeq, Init
<1>5. OwedInv
  BY <1>2 DEF OwedInv, OwedWhileSettling, StampsAreNext, Processes
<1>6. WarmInv
  BY <1>1 DEF Init, WarmInv, NumbersBehind, WarmMeansConversationSent
<1>7. RegionInv
  BY <1>1 DEF RegionInv, Building, EveryRegionExplained
<1> QED BY <1>3, <1>4, <1>5, <1>6, <1>7 DEF GuardInv

LEMMA GuardStep ==
    ASSUME TypeInv, GuardInv, EventsNeverAhead', ~Overlap, ~PersistFails, [Next]_vars
    PROVE  GuardInv'
  BY AttributionStep, OwedStep, RetoolStep, WarmStep, RegionStep DEF GuardInv

LEMMA GuardInvariant ==
    ASSUME ~Overlap, ~PersistFails
    PROVE  Spec => [](TypeInv /\ GuardInv)
<1>1. Init => TypeInv /\ GuardInv
  BY InitTypeInv, InitGuardInv
<1>2. TypeInv /\ GuardInv /\ EventsNeverAhead' /\ [Next]_vars => (TypeInv /\ GuardInv)'
  BY StepTypeInv, GuardStep
<1>3. Spec => []EventsNeverAhead
  BY LedgerNeverAhead
<1> QED BY <1>1, <1>2, <1>3, PTL DEF Spec

\* Where tasks and compactions take turns and the appends succeed, the ledger
\* explains each region that changed between two requests of a process.
THEOREM RegionsAlwaysExplained ==
    ~Overlap /\ ~PersistFails => (Spec => []EveryRegionExplained)
<1> SUFFICES ASSUME ~Overlap, ~PersistFails PROVE Spec => []EveryRegionExplained
  OBVIOUS
<1>1. Spec => [](TypeInv /\ GuardInv)
  BY GuardInvariant
<1>2. GuardInv => EveryRegionExplained
  BY DEF GuardInv, RegionInv
<1> QED BY <1>1, <1>2, PTL

\* When the guard compares, what it finds changed is in the ledger, under a number
\* later than that of every main request.
LEMMA ChangeIsInLedger ==
    ASSUME TypeInv, GuardInv, taskPc = "check", Reasons # {}
    PROVE  \E r \in sent : /\ LastRequest(r)
                           /\ \E i \in DOMAIN events : r.seq < events[i].seq
<1>1. lastShape # NoShape /\ CompareShape(lastShape, built) # {}
  BY DEF Reasons
<1>2. built = wire
  BY DEF GuardInv, RegionInv, Building
<1>3. PICK r \in sent : LastExplained(r)
  BY <1>1 DEF GuardInv, RegionInv
<1>4. PICK region \in CompareShape(lastShape, wire) : TRUE
  BY <1>1, <1>2
<1>5. \A p \in Processes : owed[p].cause = "none"
  BY DEF GuardInv, OwedInv, OwedWhileSettling, Settling, AttributionInv, Processes
<1>6. "none" \notin CausesOf(region)
  BY <1>4 DEF CausesOf, CompareShape, Regions, HistoryCauses
<1>7. EventSince(region, r.seq)
  BY <1>3, <1>4, <1>5, <1>6 DEF LastExplained, OwedFor
<1> QED BY <1>3, <1>7 DEF LastExplained, EventSince

\* In the same setting the guard ends a task only over a change that is in the
\* ledger, under a number some auxiliary call took since the last main request.
THEOREM GuardStopsOnlyForTakenNumbers ==
    ~Overlap /\ ~PersistFails => (Spec => []GuardMissesOnlyTakenNumbers)
<1> SUFFICES ASSUME ~Overlap, ~PersistFails PROVE Spec => []GuardMissesOnlyTakenNumbers
  OBVIOUS
<1>1. Spec => [](TypeInv /\ GuardInv)
  BY GuardInvariant
<1>2. ASSUME TypeInv, GuardInv, taskPc = "check", Reasons # {}, ~Explained
      PROVE  \E i \in DOMAIN events : /\ \A r \in sent : r.seq < events[i].seq
                                      /\ events[i].seq <= requestSeq
  <2>1. PICK r \in sent, i \in DOMAIN events : LastRequest(r) /\ r.seq < events[i].seq
    BY <1>2, ChangeIsInLedger
  <2>2. events[i].seq \in Nat
    <3> DEFINE Entry == [cause : Causes, seq : Nat]
    <3>1. events \in Seq(Entry) /\ \A entry \in Entry : entry.seq \in Nat
      BY <1>2 DEF TypeInv, TypeOK
    <3> HIDE DEF Entry
    <3> QED BY <3>1
  <2>3. requestSeq \in Nat /\ \A s \in sent : s.seq \in Nat
    BY <1>2 DEF TypeInv, TypeOK
  <2>4. \A s \in sent : s.seq < events[i].seq
    BY <2>1, <2>2, <2>3 DEF LastRequest
  <2>5. events[i].seq <= requestSeq + 1 /\ events[i].seq # requestSeq + 1
    BY <1>2 DEF GuardInv, EventsNeverAhead, NextRequestSeq, Explained, EventsForRequest
  <2> QED BY <2>2, <2>3, <2>4, <2>5
<1>3. TypeInv /\ GuardInv => GuardMissesOnlyTakenNumbers
  BY <1>2 DEF GuardMissesOnlyTakenNumbers
<1> QED BY <1>1, <1>3, PTL

-----------------------------------------------------------------------------
(* What the finding about the advisor comes down to: with main requests    *)
(* and summaries alone taking numbers, the guard finds every explanation.  *)

\* A summary has taken a number, and its compaction is not yet recorded.
Midway == taskPc \in {"rewrite", "compacted"} \/ manualPc \in {"rewrite", "compacted"}

\* Between compactions, if there are events newer than the last main request, one
\* has the number the next request will take.
FreshInv ==
    ~Midway => \A r \in sent :
        LastRequest(r) /\ (\E i \in DOMAIN events : r.seq < events[i].seq) => Explained

LEMMA CompactionExplains ==
    ASSUME TypeInv, GuardInv, ~PersistFails, [Next]_vars, Midway, ~Midway'
    PROVE  Restart \/ \E cause : Enters(cause)
<1>1. SettleTask("compacted", "build", "idle") \/ SettleManual \/ Restart
  <2>1. ASSUME NEW p \in Processes, Stamp(p) PROVE FALSE
    BY <2>1 DEF Stamp, Midway
  <2> QED
    BY <2>1
    DEF Midway, GuardInv, AttributionInv, Next, vars, StartTask, ReconcileCatalog, SwitchModel,
        SettleSwitch, SettleTask, AdvisorCall, AdvisorDecision, OnboardingCall,
        BoundaryToolChange, Retool, StaleResumePrune, SettlePrune, TaskBoundary, Maintain,
        SettleMaintenance, Turn, AutoCompact, Build, SettleWindowDrop, ResumeDrift, Guard,
        Chat, RecordMainUsage, PersistPrefixShapeOnce, StartCompact, SummarizeManual,
        CompactManual, AtBound
<1>2. ASSUME NEW p \in Processes, Recorded(p) \/ Refused(p) PROVE \E cause : Enters(cause)
  BY <1>2, SettleExplains DEF GuardInv
<1> QED BY <1>1, <1>2 DEF SettleTask, SettleManual, Processes

\* Without an advisor and onboarding only a summary and a main request take numbers.
LEMMA NumbersForSummaries ==
    ASSUME ~Advisor, ~Onboarding, [Next]_vars, requestSeq' # requestSeq
    PROVE  RecordMainUsage \/ Midway'
<1>1. ASSUME NEW p \in Processes, Stamp(p) PROVE FALSE
  BY <1>1 DEF Stamp, ledgerVars
<1> QED
  BY <1>1
  DEF Midway, Next, vars, StartTask, ReconcileCatalog, SwitchModel, SettleSwitch, SettleTask,
      AdvisorCall, AdvisorDecision, OnboardingCall, BoundaryToolChange, Retool,
      StaleResumePrune, SettlePrune, TaskBoundary, Maintain, SettleMaintenance, Turn,
      AutoCompact, Build, SettleWindowDrop, ResumeDrift, Guard, Chat, PersistPrefixShapeOnce,
      StartCompact, SummarizeManual, CompactManual, SettleManual, Restart, AtBound, ledgerVars

LEMMA FreshStep ==
    ASSUME TypeInv, GuardInv, EventsNeverAhead', FreshInv, ~PersistFails, ~Advisor,
           ~Onboarding, [Next]_vars
    PROVE  FreshInv'
<1>1. LedgerGrows
  BY LedgerStep
<1>2. CASE RecordMainUsage
  <2>1. PICK r \in Records : /\ r.seq = NextRequestSeq /\ sent' = sent \cup {r}
                             /\ requestSeq' = requestSeq + 1
    <3>1. sent' # sent
      BY <1>2, UnrecordedUsage DEF GuardInv, WarmInv
    <3> QED BY <1>2, <3>1, RecordedUsage
  <2>2. events' = events
    BY <1>2 DEF RecordMainUsage
  <2>3. ASSUME NEW q \in sent', LastRequest(q)', NEW i \in DOMAIN events', q.seq < events'[i].seq
        PROVE  FALSE
    <3>1. r.seq <= q.seq /\ r.seq = NextRequestSeq /\ r.seq \in Nat /\ q.seq \in Nat
      BY <2>1, <2>3 DEF LastRequest, Records, TypeInv, TypeOK
    <3>2. events[i].seq \in Nat /\ events[i].seq <= NextRequestSeq
      <4> DEFINE Entry == [cause : Causes, seq : Nat]
      <4>1. events \in Seq(Entry) /\ \A entry \in Entry : entry.seq \in Nat
        BY DEF TypeInv, TypeOK
      <4> HIDE DEF Entry
      <4> QED BY <2>2, <2>3, <4>1 DEF GuardInv, EventsNeverAhead
    <3> QED BY <2>2, <2>3, <3>1, <3>2
  <2> QED BY <2>3 DEF FreshInv
<1>3. CASE Midway'
  BY <1>3 DEF FreshInv
<1>4. CASE Restart
  <2>1. sent' = sent /\ life' = life + 1
    BY <1>4 DEF Restart, ledgerVars
  <2>2. \A a \in sent : a.life # life'
    BY <2>1 DEF GuardInv, RegionInv, TypeInv, TypeOK
  <2> QED BY <2>1, <2>2 DEF FreshInv, LastRequest
<1>5. CASE Quiet /\ ~Restart /\ ~Midway' /\ requestSeq' = requestSeq
  <2>1. Explained => Explained'
    BY <1>1, <1>5 DEF LedgerGrows, Explained, EventsForRequest, NextRequestSeq
  <2>2. ASSUME NEW cause, Enters(cause) PROVE Explained'
    BY <1>5, <2>2 DEF Enters, Explained, EventsForRequest, NextRequestSeq
  <2>3. CASE Midway
    BY <1>5, <2>2, <2>3, CompactionExplains DEF FreshInv
  <2>4. CASE ~Midway
    <3> SUFFICES ASSUME NEW r \in sent', LastRequest(r)',
                        NEW i \in DOMAIN events', r.seq < events'[i].seq
                 PROVE  Explained'
      BY DEF FreshInv
    <3>1. r \in sent /\ LastRequest(r)
      BY <1>5 DEF Quiet, LastRequest
    <3>2. CASE i \in DOMAIN events
      <4>1. r.seq < events[i].seq
        BY <1>1, <3>2 DEF LedgerGrows
      <4> QED BY <2>1, <2>4, <3>1, <3>2, <4>1 DEF FreshInv
    <3>3. CASE events'[i].seq = NextRequestSeq
      BY <1>5, <3>3 DEF Explained, EventsForRequest, NextRequestSeq
    <3>4. CASE \E p \in Processes : events'[i].seq = owed[p].seq
      <4>1. events'[i].seq \in {0, NextRequestSeq}
        BY <3>4 DEF GuardInv, OwedInv, StampsAreNext
      <4>2. events'[i].seq # 0
        BY <3>1 DEF TypeInv, TypeOK
      <4> QED BY <3>3, <4>1, <4>2
    <3> QED BY <1>1, <3>2, <3>3, <3>4 DEF LedgerGrows
  <2> QED BY <2>3, <2>4
<1>6. requestSeq' # requestSeq => RecordMainUsage \/ Midway'
  BY NumbersForSummaries
<1> QED BY <1>2, <1>3, <1>4, <1>5, <1>6, QuietStep

\* The promise of the tests, where only main requests and summaries take numbers:
\* the guard always finds the change explained, across switches, tool changes,
\* compactions, window drops, retries and restarts.
THEOREM GuardAlwaysFindsExplanation ==
    ~Overlap /\ ~PersistFails /\ ~Advisor /\ ~Onboarding
        => (Spec => []GuardFindsExplanation)
<1> SUFFICES ASSUME ~Overlap, ~PersistFails, ~Advisor, ~Onboarding
             PROVE  Spec => []GuardFindsExplanation
  OBVIOUS
<1>1. Spec => [](TypeInv /\ GuardInv)
  BY GuardInvariant
<1>2. Init => FreshInv
  BY DEF Init, FreshInv
<1>3. TypeInv /\ GuardInv /\ (TypeInv /\ GuardInv)' /\ FreshInv /\ [Next]_vars => FreshInv'
  BY FreshStep DEF GuardInv
<1>4. ASSUME TypeInv, GuardInv, FreshInv PROVE GuardFindsExplanation
  <2>1. taskPc = "check" => ~Midway
    BY <1>4 DEF GuardInv, AttributionInv, Midway
  <2> QED BY <1>4, <2>1, ChangeIsInLedger DEF FreshInv, GuardFindsExplanation
<1> QED BY <1>1, <1>2, <1>3, <1>4, PTL DEF Spec

=============================================================================
