-------------------------------- MODULE Duel --------------------------------
(***************************************************************************)
(* One duel, from its first frame to its verdict (duel/orchestrate.py,     *)
(* duel/side_runner.py).  Each side runs every unit, in the orchestrator's *)
(* own process or in a container, and appends one line per unit to its     *)
(* units.jsonl.  The orchestrator merges the lines into its verdicts and   *)
(* copies the finished clips into the store every few units.               *)
(*                                                                         *)
(* `icilval duel` may be run again for the same block after a failure or a *)
(* crash: the event id, and so the run directory, is the same one, and     *)
(* each side resumes from what its units.jsonl holds.                      *)
(***************************************************************************)
EXTENDS Naturals, Sequences, FiniteSets

CONSTANTS
    Units,       \* the unit list, the same one for both sides
    FlushUnits,  \* spec.live.media_flush_units
    VoidLimit,   \* how many void units max_void_fraction tolerates
    MaxRuns,     \* bound: how often the duel is started
    Sites        \* the deployments that a behaviour may begin in

(* A deployment: whether the sides run in containers (--docker-image), how *)
(* many log lines the pipe on a container's stderr holds, whether the      *)
(* store has a mirror, and what may happen to it: the orchestrator's       *)
(* process dies; a container outlives it; an act of a container hangs; a   *)
(* side dies with a line half written.  The results that its episodes come *)
(* to and the outcomes of encoding a clip, TRUE when it is written.        *)
Site == [docker : BOOLEAN, pipe : Nat, mirrored : BOOLEAN,
         crashes : BOOLEAN, detached : BOOLEAN, hangs : BOOLEAN,
         tears : BOOLEAN, results : SUBSET {"success", "fail", "void"},
         encodes : SUBSET BOOLEAN]

ASSUME UnitsAssumption == IsFiniteSet(Units)
ASSUME LimitsAssumption ==
    FlushUnits \in Nat /\ VoidLimit \in Nat /\ MaxRuns \in Nat
ASSUME SitesAssumption ==
    \A d \in Sites : d \in Site /\ d.results # {} /\ d.encodes # {}

Sides == {"challenger", "king"}
Runners == (1..MaxRuns) \X Sides

VARIABLES
    site,     \* the deployment
    file,     \* units.jsonl of each side: its whole lines, and its torn tail
    alive,    \* the side runners that are running
    failed,   \* the side runners that ended with an error
    hung,     \* the containers in which an act() never returns
    left,     \* the units each runner has still to run
    logged,   \* the lines each runner has written to its stderr
    run,      \* how often the duel was started
    phase,    \* the orchestrator's phase
    side,     \* the side it evaluates
    seen,     \* the units of this side it has merged (_poll_side)
    judge,    \* its unit verdicts
    pending, mediadone, \* clips to be copied, clips copied into the store
    linked,   \* the clips that the unit verdicts refer to
    refused   \* history: the mirror refused the last commit of clips

runners == <<file, alive, failed, hung, left, logged>>
clips == <<pending, mediadone, linked, refused>>
vars == <<site, runners, run, phase, side, seen, judge, clips>>

Line == [unit : Units, result : {"success", "fail", "void"}, clip : BOOLEAN]
Lines == {l \in Line :
            /\ l.result \in site.results
            /\ l.clip \in IF l.result = "void" THEN {FALSE} ELSE site.encodes}
Verdict == [void : BOOLEAN, result : [Sides -> {"success", "fail", "none"}]]

NoVerdict == [void |-> FALSE, result |-> [s \in Sides |-> "none"]]

(* read_results(): the last line of each unit counts, a torn one does not. *)
DoneIn(f) == {f.lines[i].unit : i \in DOMAIN f.lines}
Done(s) == DoneIn(file[s])
Last(lines, u) ==
    lines[CHOOSE i \in DOMAIN lines :
            /\ lines[i].unit = u
            /\ \A j \in DOMAIN lines : lines[j].unit = u => j <= i]
Result(s, u) == Last(file[s].lines, u)

(* _merge(): a unit that is void on one side is void.                      *)
Merge(v, s, l) ==
    IF l.result = "void" THEN [v EXCEPT !.void = TRUE, !.result[s] = "none"]
    ELSE [v EXCEPT !.result[s] = l.result]
----------------------------------------------------------------------------
Init ==
    /\ site \in Sites
    /\ file = [s \in Sides |-> [lines |-> <<>>, torn |-> FALSE]]
    /\ alive = {} /\ failed = {} /\ hung = {}
    /\ left = [r \in Runners |-> {}] /\ logged = [r \in Runners |-> 0]
    /\ run = 0 /\ phase = "off" /\ side = "challenger" /\ seen = {}
    /\ judge = [u \in Units |-> NoVerdict]
    /\ pending = {} /\ mediadone = {} /\ linked = {} /\ refused = FALSE

Current == <<run, side>>

(* run(): the verdicts begin empty, also when the duel was run before.     *)
Begin ==
    /\ phase \in {"off", "done", "failed"} /\ run < MaxRuns
    /\ run' = run + 1 /\ phase' = "preparing" /\ side' = "challenger"
    /\ judge' = [u \in Units |-> NoVerdict]
    /\ seen' = {}
    /\ pending' = {} /\ mediadone' = {} /\ linked' = {} /\ refused' = FALSE
    /\ UNCHANGED <<site, runners>>

(* The models are fetched and checked, the units derived.                  *)
Prepare ==
    /\ phase = "preparing"
    /\ phase' \in {"ready", "failed"}
    /\ UNCHANGED <<site, runners, run, side, seen, judge, clips>>

(* run_side(): what units.jsonl holds already is not run again.            *)
StartSide ==
    /\ phase = "ready"
    /\ alive' = alive \cup {Current}
    /\ left' = [left EXCEPT ![Current] = Units \ Done(side)]
    /\ seen' = {} /\ phase' = "evaluating"
    /\ UNCHANGED <<site, file, failed, hung, logged, run, side, judge, clips>>

(* _flush_media() copies the clips it finds when there are enough of them  *)
(* or when it must; the verdicts refer to them once the mirror has them.   *)
Found(s, f) ==
    pending \cup ({<<s, u>> : u \in {v \in DoneIn(f) : Last(f.lines, v).clip}}
                 \ mediadone)

Due(found, force) == found # {} /\ (force \/ Cardinality(found) >= FlushUnits)

(* Mutant: a commit links the clips it has, none of an earlier one. *)
FlushLinksNew(found, force) ==
    IF Due(found, force)
    THEN /\ pending' = {}
         /\ mediadone' = mediadone \cup found
         /\ \/ linked' = linked \cup found /\ refused' = FALSE
            \/ site.mirrored /\ refused' = TRUE /\ UNCHANGED linked
    ELSE pending' = found /\ UNCHANGED <<mediadone, linked, refused>>

Flush(found, force) ==
    IF Due(found, force)
    THEN /\ pending' = {}
         /\ mediadone' = mediadone \cup found
         /\ \/ linked' = linked \cup mediadone' /\ refused' = FALSE
            \/ site.mirrored /\ refused' = TRUE /\ UNCHANGED linked
    ELSE pending' = found /\ UNCHANGED <<mediadone, linked, refused>>

(* A line appended to a torn tail is lost with it.                         *)
AppendTo(f, l) ==
    IF f.torn THEN [f EXCEPT !.torn = FALSE]
    ELSE [f EXCEPT !.lines = Append(@, l)]

Attached(r) == r = Current /\ phase = "evaluating"

(* A side runner runs a unit, or voids it when the side's wall time is     *)
(* over, and logs it.  In the orchestrator's process on_unit() merges the  *)
(* line at once.  Nobody reads a container's stderr before it has ended.   *)
(* An act() that times out fails its unit, but may never return.           *)
RunUnit(r) ==
    /\ r \in alive
    /\ site.docker /\ Attached(r) => logged[r] < site.pipe
    /\ \E u \in left[r] : \E l \in {k \in Lines : k.unit = u} :
         /\ file' = [file EXCEPT ![r[2]] = AppendTo(@, l)]
         /\ left' = [left EXCEPT ![r] = @ \ {u}]
         /\ \/ UNCHANGED hung
            \/ site.hangs /\ l.result = "fail" /\ hung' = hung \cup {r}
         /\ IF site.docker THEN UNCHANGED <<judge, clips>>
            ELSE /\ judge' = [judge EXCEPT ![u] = Merge(@, side, l)]
                 /\ Flush(Found(side, file'[side]), FALSE)
    /\ logged' = [logged EXCEPT ![r] = IF site.docker THEN @ + 1 ELSE @]
    /\ UNCHANGED <<site, alive, failed, run, phase, side, seen>>

(* run_side() gives up its worker thread, but a container's interpreter    *)
(* joins it before the process ends.                                       *)
RunnerEnds(r) ==
    /\ r \in alive /\ left[r] = {}
    /\ site.docker => r \notin hung
    /\ alive' = alive \ {r}
    /\ UNCHANGED <<site, file, failed, hung, left, logged, run, phase, side,
                   seen, judge, clips>>

(* A checkpoint or a demonstration cannot be loaded, a simulator dies: the *)
(* side ends, perhaps in the middle of a line.                             *)
RunnerFails(r) ==
    /\ r \in alive
    /\ alive' = alive \ {r}
    /\ failed' = failed \cup {r}
    /\ \/ UNCHANGED file
       \/ /\ site.tears /\ left[r] # {}
          /\ file' = [file EXCEPT ![r[2]].torn = TRUE]
    /\ UNCHANGED <<site, hung, left, logged, run, phase, side, seen, judge,
                   clips>>

(* Mutant: lines already merged are merged again. *)
PollAgain ==
    /\ judge' = [u \in Units |-> IF u \in Done(side)
                                 THEN Merge(judge[u], side, Result(side, u))
                                 ELSE judge[u]]
    /\ seen' = seen \cup Done(side)

(* _poll_side(): the lines that are new in this run.                       *)
PollLines ==
    /\ judge' = [u \in Units |-> IF u \in Done(side) \ seen
                                 THEN Merge(judge[u], side, Result(side, u))
                                 ELSE judge[u]]
    /\ seen' = seen \cup Done(side)

Poll ==
    /\ site.docker /\ phase = "evaluating"
    /\ PollLines
    /\ Flush(Found(side, file[side]), FALSE)
    /\ UNCHANGED <<site, runners, run, phase, side>>

NextPhase ==
    \/ side = "challenger" /\ side' = "king" /\ phase' = "ready"
    \/ side = "king" /\ phase' = "scoring" /\ UNCHANGED side
    \/ phase' = "failed" /\ UNCHANGED side       \* the duel's wall time

(* Mutant: a container's last lines are not polled. *)
EndSideUnpolled ==
    /\ phase = "evaluating" /\ Current \notin alive
    /\ UNCHANGED <<judge, seen>>
    /\ IF Current \in failed
       THEN phase' = "failed" /\ UNCHANGED <<side, clips>>
       ELSE NextPhase /\ Flush(Found(side, file[side]), TRUE)
    /\ UNCHANGED <<site, runners, run>>

(* Mutant: the side has ended when every unit was seen. *)
EndSideAllSeen ==
    /\ phase = "evaluating" /\ Current \notin alive
    /\ site.docker => Done(side) = Units
    /\ IF site.docker THEN PollLines ELSE UNCHANGED <<judge, seen>>
    /\ IF Current \in failed
       THEN phase' = "failed" /\ UNCHANGED <<side, clips>>
       ELSE NextPhase /\ Flush(Found(side, file[side]), TRUE)
    /\ UNCHANGED <<site, runners, run>>

(* The side has ended: a last poll of a container's lines, and the clips   *)
(* that are left.                                                          *)
EndSide ==
    /\ phase = "evaluating" /\ Current \notin alive
    /\ IF site.docker THEN PollLines ELSE UNCHANGED <<judge, seen>>
    /\ IF Current \in failed
       THEN /\ phase' = "failed" /\ UNCHANGED side
            /\ IF site.docker THEN Flush(Found(side, file[side]), FALSE)
               ELSE UNCHANGED clips
       ELSE NextPhase /\ Flush(Found(side, file[side]), TRUE)
    /\ UNCHANGED <<site, runners, run>>

Voided == {u \in Units : judge[u].void}

Score ==
    /\ phase = "scoring"
    /\ phase' = IF Cardinality(Voided) > VoidLimit THEN "failed" ELSE "done"
    /\ UNCHANGED <<site, runners, run, side, seen, judge, clips>>

(* The orchestrator's process dies; its containers may go on.              *)
Crash ==
    /\ site.crashes /\ phase \notin {"off", "done", "failed"}
    /\ phase' = "off"
    /\ \/ alive' = alive \ {Current}
       \/ site.docker /\ site.detached /\ UNCHANGED alive
    /\ UNCHANGED <<site, file, failed, hung, left, logged, run, side, seen, judge,
                   clips>>

Orchestrate == Prepare \/ StartSide \/ EndSide \/ Score
RunnerStep(r) == RunUnit(r) \/ RunnerEnds(r)

Next == \/ Begin \/ Orchestrate \/ Poll \/ Crash
        \/ \E r \in Runners : RunnerStep(r) \/ RunnerFails(r)

Spec == Init /\ [][Next]_vars

(* The orchestrator and a side that has units to run go on; nothing says   *)
(* that a duel is started, and a side need not fail.                       *)
FairSpec == /\ Spec
            /\ WF_vars(Orchestrate)
            /\ \A r \in Runners : WF_vars(RunnerStep(r))
----------------------------------------------------------------------------
(* What a duel that was started again can lose: in the orchestrator's      *)
(* process nobody merges the lines that were resumed, in a container a     *)
(* line that was appended to a torn tail is not there, unless an older     *)
(* container has added it after the side has ended.                        *)
LostByResuming(u) ==
    /\ run > 1
    /\ site.docker => /\ site.tears
                      /\ site.detached \/ \E s \in Sides : u \notin Done(s)

(* A duel that publishes has judged every unit on both sides or voided it, *)
(* so that both averages are over the same units: whatever was resumed,    *)
(* and even if the container of an earlier run still appends lines.        *)
EveryUnitJudged ==
    phase = "done" =>
        \A u \in Units : \/ judge[u].void
                         \/ \A s \in Sides : judge[u].result[s] # "none"
                         \/ LostByResuming(u)

(* "Three clips per unit": a published duel has stored every clip that its *)
(* sides recorded, however the flushes fell, unless the container of an    *)
(* earlier run has recorded another one after its side was over.  Its      *)
(* units refer to them all, those of commits that the mirror refused       *)
(* included, unless it refused the last commit that was tried.             *)
ClipsLinked ==
    phase = "done" /\ ~(site.docker /\ site.detached /\ run > 1) =>
        \A s \in Sides : \A u \in Done(s) :
            Result(s, u).clip =>
                /\ <<s, u>> \in mediadone
                /\ <<s, u>> \in linked \/ (site.mirrored /\ refused)

(* A side's result on a unit does not change once it was merged, also when *)
(* two containers have run the unit and disagree.                          *)
VerdictStable ==
    [][run' = run => \A u \in Units, s \in Sides :
          judge[u].result[s] # "none" =>
             judge'[u].result[s] = judge[u].result[s]]_vars

(* "publishing -> done|failed": a duel that has begun ends, unless its     *)
(* orchestrator dies or an act() of a container never returns.             *)
DuelEnds == phase = "preparing" ~>
              \/ phase \in {"done", "failed", "off"}
              \/ site.docker /\ Current \in hung
=============================================================================
