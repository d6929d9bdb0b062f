------------------------ MODULE ScenarioRunner_proofs ------------------------
(***************************************************************************)
(* Proofs about the test environment, for every number of nodes and every  *)
(* target height: the shares of calculate_bootstrap_range are one after    *)
(* the other, the nodes mine one initial chain, the two barriers of run.sh *)
(* hold, and its exit status 0 means what it says.                         *)
(***************************************************************************)
EXTENDS ScenarioRunner, TLAPS

----------------------------------------------------------------------------
(***************************************************************************)
(* The blocks of the first k positions.                                    *)
(***************************************************************************)
Share == BOOTSTRAP_TARGET_HEIGHT \div NodeCount

Extra == BOOTSTRAP_TARGET_HEIGHT % NodeCount

Before(k) == k * Share + (IF k > Extra THEN Extra ELSE k)

(***************************************************************************)
(* Division with remainder.                                                *)
(***************************************************************************)
LEMMA Shares ==
    /\ Share \in Nat /\ Extra \in Nat /\ Extra < NodeCount
    /\ BOOTSTRAP_TARGET_HEIGHT = NodeCount * Share + Extra
<1>1. ASSUME NEW t \in Nat, NEW n \in Nat \ {0}
      PROVE  /\ t \div n \in Nat /\ t % n \in Nat /\ t % n < n
             /\ t = n * (t \div n) + (t % n)
  BY SMT
<1> QED BY <1>1, RunnerAssumption DEF Share, Extra

(***************************************************************************)
(* A multiple grows with its factor.                                       *)
(***************************************************************************)
LEMMA TimesGrows ==
    ASSUME NEW j \in Nat, NEW k \in Nat, j <= k, NEW x \in Nat
    PROVE  j * x <= k * x /\ (j + 1) * x = j * x + x /\ j * x \in Nat
<1>1. k - j \in Nat /\ k = j + (k - j)
  OBVIOUS
<1>2. \A m \in Nat : m * x \in Nat
  BY SMT
<1>3. \A m \in Nat : (j + m) * x = j * x + m * x
  BY SMT
<1>4. k * x = j * x + (k - j) * x
  BY <1>1, <1>3
<1> QED BY <1>1, <1>2, <1>3, <1>4

(***************************************************************************)
(* calculate_bootstrap_range gives position p the heights after those of   *)
(* the positions before it, and up to those of the next position.          *)
(***************************************************************************)
LEMMA RangeOf ==
    ASSUME NEW p \in Node
    PROVE  BootstrapStart(p) = Before(p) + 1 /\ BootstrapEnd(p) = Before(p + 1)
<1> USE RunnerAssumption
<1>1. p \in Nat /\ Share \in Nat /\ Extra \in Nat
  BY Shares DEF Node
<1>2. (p + 1) * Share = p * Share + Share /\ p * Share \in Nat
  BY <1>1, TimesGrows
<1> DEFINE extras == IF p > Extra THEN Extra ELSE p
           count == IF p < Extra THEN Share + 1 ELSE Share
           start == p * Share + extras + 1
<1>3. BootstrapRange(p) = <<start, count, start + count - 1>>
  BY DEF BootstrapRange, calculate_bootstrap_range, Share, Extra
<1>4. BootstrapStart(p) = start /\ BootstrapEnd(p) = start + count - 1
  BY <1>3 DEF BootstrapStart, BootstrapEnd
<1> QED BY <1>1, <1>2, <1>4 DEF Before

(***************************************************************************)
(* The shares do not overlap, and together reach the target height.        *)
(***************************************************************************)
LEMMA RangeOrder ==
    ASSUME NEW p \in Node
    PROVE  /\ BootstrapStart(p) \in Nat \ {0} /\ BootstrapEnd(p) \in Nat
           /\ BootstrapStart(p) <= BootstrapEnd(p) + 1
           /\ BootstrapEnd(p) <= BOOTSTRAP_TARGET_HEIGHT
           /\ \A q \in Node : p < q => BootstrapEnd(p) < BootstrapStart(q)
<1> USE RunnerAssumption
<1>1. p \in Nat /\ p + 1 <= NodeCount /\ Share \in Nat /\ Extra \in Nat /\ Extra < NodeCount
  BY Shares DEF Node
<1>2. \A j, k \in Nat : j <= k => Before(j) <= Before(k) /\ Before(j) \in Nat
  <2> TAKE j, k \in Nat
  <2> HAVE j <= k
  <2>1. j * Share <= k * Share /\ j * Share \in Nat /\ k * Share \in Nat
    BY <1>1, TimesGrows
  <2> QED BY <1>1, <2>1 DEF Before
<1>3. Before(NodeCount) = BOOTSTRAP_TARGET_HEIGHT
  BY <1>1, Shares DEF Before
<1>4. BootstrapStart(p) = Before(p) + 1 /\ BootstrapEnd(p) = Before(p + 1)
  BY RangeOf
<1>5. ASSUME NEW q \in Node, p < q PROVE BootstrapEnd(p) < BootstrapStart(q)
  <2>1. q \in Nat /\ p + 1 <= q /\ BootstrapStart(q) = Before(q) + 1
    BY <1>1, <1>5, RangeOf DEF Node
  <2>2. Before(p + 1) <= Before(q) /\ Before(p + 1) \in Nat /\ Before(q) \in Nat
    BY <1>1, <1>2, <2>1
  <2> QED BY <1>4, <2>1, <2>2
<1>6. Before(p) \in Nat /\ Before(p + 1) \in Nat /\ Before(p) <= Before(p + 1)
      /\ Before(p + 1) <= Before(NodeCount)
  BY <1>1, <1>2
<1> QED BY <1>3, <1>4, <1>5, <1>6

----------------------------------------------------------------------------
(***************************************************************************)
(* The files of a node and where its script is.  A script that has ended   *)
(* or is past a barrier stays so.                                          *)
(***************************************************************************)
Early == Bootstrapping \cup {"release", "prepare", "funded"}

Running == {"prepare", "funded", "prepared", "active", "ended", "done"}

Over == {"ended", "done", "exited"}

Label == Early \cup Running \cup Over

File == {"initial-state.ready", "scenario.start", "scenario.prepared", "activity.start",
         "scenario.status", "scenario.done"}

Status == {"none", "success", "failure"}

Loop == {"bootstrap", "verification", "release", "preparation", "activity", "completion",
         "results", "cleanup", "stopped"}

RunnerTypeOK ==
    /\ at \in [Node -> Label] /\ files \in [Node -> SUBSET File]
    /\ result \in [Node -> Status]
    /\ runner \in [at : Loop, index : Nat, n : Nat]

NodeOK(p) ==
    /\ at[p] \in Running => "scenario.start" \in files[p]
    /\ at[p] = "active" => "activity.start" \in files[p]
    /\ "initial-state.ready" \in files[p] => at[p] \notin Bootstrapping
    /\ "scenario.prepared" \in files[p] => at[p] \notin Early
    /\ result[p] = "success" => at[p] \in Over

\* From label k to label l: not back over a barrier, and not out of the end.
Onward(k, l) ==
    /\ k \in Bootstrapping \/ l \notin Bootstrapping
    /\ k \in Early \/ l \notin Early
    /\ k \notin Over \/ l \in Over

\* The step does not touch q.
Elsewhere(q) == at'[q] = at[q] /\ files'[q] = files[q] /\ result'[q] = result[q]

\* The script of p does not go back, and does not release itself.
Advances(p) ==
    /\ at[p] \notin Bootstrapping => at'[p] \notin Bootstrapping
    /\ at[p] \notin Early => at'[p] \notin Early
    /\ result[p] = "success" => result'[p] = "success"
    /\ "scenario.start" \in files'[p] => "scenario.start" \in files[p]
    /\ "activity.start" \in files'[p] => "activity.start" \in files[p]

(***************************************************************************)
(* The script of p takes a step: to l, with the files F and the status r.  *)
(***************************************************************************)
LEMMA NodeMoves ==
    ASSUME RunnerTypeOK, NEW p \in Node, NodeOK(p),
           NEW l \in Label, NEW F \in SUBSET File, NEW r \in Status,
           at' = [at EXCEPT ![p] = l], files' = [files EXCEPT ![p] = F],
           result' = [result EXCEPT ![p] = r], runner' = runner,
           Onward(at[p], l),
           result[p] = "success" => r = "success",
           "scenario.start" \in F => "scenario.start" \in files[p],
           "activity.start" \in F => "activity.start" \in files[p],
           l \in Running => "scenario.start" \in F,
           l = "active" => "activity.start" \in F,
           "initial-state.ready" \in F => l \notin Bootstrapping,
           "scenario.prepared" \in F => l \notin Early,
           r = "success" => l \in Over
    PROVE  /\ RunnerTypeOK' /\ NodeOK(p)' /\ Advances(p)
           /\ \A q \in Node \ {p} : Elsewhere(q)
<1>1. at'[p] = l /\ files'[p] = F /\ result'[p] = r
  BY DEF RunnerTypeOK
<1>2. RunnerTypeOK'
  BY DEF RunnerTypeOK
<1>3. \A q \in Node \ {p} : Elsewhere(q)
  BY DEF RunnerTypeOK, Elsewhere
<1>4. NodeOK(p)' /\ Advances(p)
  BY <1>1 DEF NodeOK, Advances, Onward
<1> QED BY <1>2, <1>3, <1>4

(***************************************************************************)
(* Only the label changes.                                                 *)
(***************************************************************************)
LEMMA NodeGoes ==
    ASSUME RunnerTypeOK, NEW p \in Node, NodeOK(p),
           NEW l \in Label, Goto(p, l), UNCHANGED <<files, result, runner>>,
           Onward(at[p], l),
           l \in Running => "scenario.start" \in files[p],
           l = "active" => "activity.start" \in files[p]
    PROVE  /\ RunnerTypeOK' /\ NodeOK(p)' /\ Advances(p)
           /\ \A q \in Node \ {p} : Elsewhere(q)
<1> DEFINE F == files[p]
           r == result[p]
<1>1. /\ F \in SUBSET File /\ r \in Status
      /\ files' = [files EXCEPT ![p] = F] /\ result' = [result EXCEPT ![p] = r]
      /\ at' = [at EXCEPT ![p] = l] /\ runner' = runner
  BY DEF RunnerTypeOK, Goto
<1>2. /\ "initial-state.ready" \in F => l \notin Bootstrapping
      /\ "scenario.prepared" \in F => l \notin Early
      /\ r = "success" => l \in Over
  BY DEF NodeOK, Onward
<1> QED BY <1>1, <1>2, NodeMoves, Zenon

(***************************************************************************)
(* A file is written; only initial-state.ready, scenario.prepared,         *)
(* scenario.status and scenario.done are by the node itself.               *)
(***************************************************************************)
LEMMA NodeWrites ==
    ASSUME RunnerTypeOK, NEW p \in Node, NodeOK(p),
           NEW l \in Label, NEW file \in File, NEW r \in Status, Goto(p, l),
           files' = [files EXCEPT ![p] = @ \cup {file}],
           result' = [result EXCEPT ![p] = r], runner' = runner,
           file \notin {"scenario.start", "activity.start"},
           file = "initial-state.ready" => l \notin Bootstrapping,
           file = "scenario.prepared" => l \notin Early,
           Onward(at[p], l),
           l \in Running => at[p] \in Running, l # "active",
           result[p] = "success" => r = "success",
           r = "success" => l \in Over
    PROVE  /\ RunnerTypeOK' /\ NodeOK(p)' /\ Advances(p)
           /\ \A q \in Node \ {p} : Elsewhere(q)
<1> DEFINE F == files[p] \cup {file}
<1>1. /\ F \in SUBSET File
      /\ files' = [files EXCEPT ![p] = F] /\ at' = [at EXCEPT ![p] = l]
  BY DEF RunnerTypeOK, Goto
<1>2. /\ "scenario.start" \in F => "scenario.start" \in files[p]
      /\ "activity.start" \in F => "activity.start" \in files[p]
      /\ l \in Running => "scenario.start" \in F
      /\ "initial-state.ready" \in F => l \notin Bootstrapping
      /\ "scenario.prepared" \in F => l \notin Early
  BY DEF NodeOK, Onward
<1> QED BY <1>1, <1>2, NodeMoves, Zenon

(***************************************************************************)
(* The container ends: Exit clears the tmpfs.                              *)
(***************************************************************************)
LEMMA NodeExits ==
    ASSUME RunnerTypeOK, NEW p \in Node, NodeOK(p), Exit(p)
    PROVE  /\ RunnerTypeOK' /\ NodeOK(p)' /\ Advances(p)
           /\ \A q \in Node \ {p} : Elsewhere(q)
<1> DEFINE r == result[p]
           F == {}
           l == "exited"
<1>1. /\ r \in Status /\ F \in SUBSET File
      /\ files' = [files EXCEPT ![p] = F] /\ result' = [result EXCEPT ![p] = r]
      /\ at' = [at EXCEPT ![p] = l] /\ runner' = runner
  BY DEF RunnerTypeOK, Goto, Exit
<1>2. /\ Onward(at[p], l) /\ l \notin Bootstrapping /\ l \notin Early /\ l \notin Running
      /\ l # "active" /\ l \in Over /\ l \in Label /\ \A f \in File : f \notin F
  BY DEF Bootstrapping, Early, Running, Over, Label, Onward
<1> HIDE DEF l, F, r
<1>3. (result[p] = "success" => r = "success")
  BY DEF r
<1> QED BY <1>1, <1>2, <1>3, NodeMoves, Zenon

(***************************************************************************)
(* The labels of the scripts, in their order.                              *)
(***************************************************************************)
LEMMA Labels ==
    /\ "boot" \in Label /\ "start" \in Label /\ "mine" \in Label /\ "mined" \in Label
    /\ "end" \in Label /\ "verify" \in Label /\ "record" \in Label /\ "release" \in Label
    /\ "prepare" \in Label /\ "funded" \in Label /\ "prepared" \in Label
    /\ "active" \in Label /\ "ended" \in Label /\ "done" \in Label
    /\ Onward("boot", "start") /\ Onward("start", "mine") /\ Onward("start", "end")
    /\ Onward("mine", "mined") /\ Onward("mined", "mine") /\ Onward("mined", "end")
    /\ Onward("end", "verify") /\ Onward("verify", "record") /\ Onward("record", "release")
    /\ Onward("release", "prepare") /\ Onward("prepare", "funded")
    /\ Onward("funded", "prepared") /\ Onward("prepared", "active")
    /\ Onward("prepare", "ended") /\ Onward("funded", "ended") /\ Onward("prepared", "ended")
    /\ Onward("active", "ended") /\ Onward("ended", "done")
BY DEF Label, Onward, Bootstrapping, Early, Running, Over

(***************************************************************************)
(* Every step of the scripts of a node is one of these.                    *)
(***************************************************************************)
LEMMA NodeSteps ==
    ASSUME RunnerTypeOK, NEW p \in Node, NodeOK(p), NodeStep(p)
    PROVE  /\ RunnerTypeOK' /\ NodeOK(p)' /\ Advances(p)
           /\ \A q \in Node \ {p} : Elsewhere(q)
           /\ runner' = runner /\ code' = code
<1>1. runner' = runner /\ code' = code
  BY DEF NodeStep, WaitForMesh, NextBlock, MineBlock, ShareMined, verify_local_initial_state,
         record_initial_state, HeightPassed, BootstrapFails, wait_for_scenario_release,
         fund_all_node_wallets, Prepared, wait_for_activity_release, ScenarioEnds,
         ScenarioDone, KeepAliveEnds, Exit
<1>2. CASE Exit(p)
  BY <1>1, <1>2, NodeExits
<1>3. CASE WaitForMesh(p)
  <2> DEFINE l == "start"
  <2>1. /\ l \in Label /\ Onward(at[p], l) /\ Goto(p, l) /\ UNCHANGED <<files, result, runner>>
        /\ l \in Running => "scenario.start" \in files[p]
        /\ l = "active" => "activity.start" \in files[p]
    BY <1>1, <1>3, Labels DEF WaitForMesh, NodeOK, Running
  <2> HIDE DEF l
  <2> QED BY <1>1, <2>1, NodeGoes
<1>4. CASE NextBlock(p)
  <2>1. PICK l \in {"mine", "end"} : Goto(p, l)
    BY <1>4 DEF NextBlock
  <2>2. /\ l \in Label /\ Onward(at[p], l) /\ UNCHANGED <<files, result, runner>>
        /\ l \notin Running /\ l # "active"
    BY <1>4, Labels DEF NextBlock, Running
  <2> QED BY <1>1, <2>1, <2>2, NodeGoes
<1>5. CASE MineBlock(p)
  <2> DEFINE l == "mined"
  <2>1. /\ l \in Label /\ Onward(at[p], l) /\ Goto(p, l) /\ UNCHANGED <<files, result, runner>>
        /\ l \in Running => "scenario.start" \in files[p]
        /\ l = "active" => "activity.start" \in files[p]
    BY <1>1, <1>5, Labels DEF MineBlock, NodeOK, Running
  <2> HIDE DEF l
  <2> QED BY <1>1, <2>1, NodeGoes
<1>6. CASE ShareMined(p)
  <2> DEFINE l == "verify"
  <2>1. /\ l \in Label /\ Onward(at[p], l) /\ Goto(p, l) /\ UNCHANGED <<files, result, runner>>
        /\ l \in Running => "scenario.start" \in files[p]
        /\ l = "active" => "activity.start" \in files[p]
    BY <1>1, <1>6, Labels DEF ShareMined, NodeOK, Running
  <2> HIDE DEF l
  <2> QED BY <1>1, <2>1, NodeGoes
<1>7. CASE verify_local_initial_state(p)
  <2> DEFINE l == "record"
  <2>1. /\ l \in Label /\ Onward(at[p], l) /\ Goto(p, l) /\ UNCHANGED <<files, result, runner>>
        /\ l \in Running => "scenario.start" \in files[p]
        /\ l = "active" => "activity.start" \in files[p]
    BY <1>1, <1>7, Labels DEF verify_local_initial_state, NodeOK, Running
  <2> HIDE DEF l
  <2> QED BY <1>1, <2>1, NodeGoes
<1>8. CASE wait_for_scenario_release(p) /\ ~ Exit(p)
  <2> DEFINE l == "prepare"
  <2>1. /\ l \in Label /\ Onward(at[p], l) /\ Goto(p, l) /\ UNCHANGED <<files, result, runner>>
        /\ l \in Running => "scenario.start" \in files[p]
        /\ l = "active" => "activity.start" \in files[p]
    BY <1>1, <1>8, Labels DEF wait_for_scenario_release, NodeOK, Running
  <2> HIDE DEF l
  <2> QED BY <1>1, <2>1, NodeGoes
<1>9. CASE fund_all_node_wallets(p)
  <2> DEFINE l == "funded"
  <2>1. /\ l \in Label /\ Onward(at[p], l) /\ Goto(p, l) /\ UNCHANGED <<files, result, runner>>
        /\ l \in Running => "scenario.start" \in files[p]
        /\ l = "active" => "activity.start" \in files[p]
    BY <1>1, <1>9, Labels DEF fund_all_node_wallets, NodeOK, Running
  <2> HIDE DEF l
  <2> QED BY <1>1, <2>1, NodeGoes
<1>10. CASE wait_for_activity_release(p)
  <2> DEFINE l == "active"
  <2>1. /\ l \in Label /\ Onward(at[p], l) /\ Goto(p, l) /\ UNCHANGED <<files, result, runner>>
        /\ l \in Running => "scenario.start" \in files[p]
        /\ l = "active" => "activity.start" \in files[p]
    BY <1>1, <1>10, Labels DEF wait_for_activity_release, NodeOK, Running
  <2> HIDE DEF l
  <2> QED BY <1>1, <2>1, NodeGoes
<1>11. CASE record_initial_state(p)
  <2> DEFINE l == "release"
             file == "initial-state.ready"
             r == result[p]
  <2>1. /\ l \in Label /\ Onward(at[p], l) /\ Goto(p, l) /\ file \in File
        /\ files' = [files EXCEPT ![p] = @ \cup {file}]
        /\ file \notin {"scenario.start", "activity.start"}
        /\ l \in Running => at[p] \in Running
        /\ l # "active"
    BY <1>11, Labels DEF record_initial_state, Running, File
  <2>2. /\ file = "initial-state.ready" => l \notin Bootstrapping
        /\ file = "scenario.prepared" => l \notin Early
    BY DEF Bootstrapping, Early
  <2>3. r \in Status /\ result' = [result EXCEPT ![p] = r]
    BY <1>11 DEF record_initial_state, RunnerTypeOK, Status
  <2>4. (result[p] = "success" => r = "success") /\ (r = "success" => l \in Over)
    BY <1>11 DEF record_initial_state, NodeOK, Over
  <2> HIDE DEF l, file, r
  <2> QED BY <1>1, <2>1, <2>2, <2>3, <2>4, NodeWrites, Zenon
<1>12. CASE Prepared(p)
  <2> DEFINE l == "prepared"
             file == "scenario.prepared"
             r == result[p]
  <2>1. /\ l \in Label /\ Onward(at[p], l) /\ Goto(p, l) /\ file \in File
        /\ files' = [files EXCEPT ![p] = @ \cup {file}]
        /\ file \notin {"scenario.start", "activity.start"}
        /\ l \in Running => at[p] \in Running
        /\ l # "active"
    BY <1>12, Labels DEF Prepared, Running, File
  <2>2. /\ file = "initial-state.ready" => l \notin Bootstrapping
        /\ file = "scenario.prepared" => l \notin Early
    BY DEF Bootstrapping, Early
  <2>3. r \in Status /\ result' = [result EXCEPT ![p] = r]
    BY <1>12 DEF Prepared, RunnerTypeOK, Status
  <2>4. (result[p] = "success" => r = "success") /\ (r = "success" => l \in Over)
    BY <1>12 DEF Prepared, NodeOK, Over
  <2> HIDE DEF l, file, r
  <2> QED BY <1>1, <2>1, <2>2, <2>3, <2>4, NodeWrites, Zenon
<1>13. CASE \E status \in {"success", "failure"} : ScenarioEnds(p, status)
  <2>0. PICK r \in {"success", "failure"} : ScenarioEnds(p, r)
    BY <1>13
  <2> DEFINE l == "ended"
             file == "scenario.status"
  <2>1. /\ l \in Label /\ Onward(at[p], l) /\ Goto(p, l) /\ file \in File
        /\ files' = [files EXCEPT ![p] = @ \cup {file}]
        /\ file \notin {"scenario.start", "activity.start"}
        /\ l \in Running => at[p] \in Running
        /\ l # "active"
    BY <2>0, Labels DEF ScenarioEnds, Running, File
  <2>2. /\ file = "initial-state.ready" => l \notin Bootstrapping
        /\ file = "scenario.prepared" => l \notin Early
    BY DEF Bootstrapping, Early
  <2>3. r \in Status /\ result' = [result EXCEPT ![p] = r]
    BY <2>0 DEF ScenarioEnds, RunnerTypeOK, Status
  <2>4. (result[p] = "success" => r = "success") /\ (r = "success" => l \in Over)
    BY <2>0 DEF ScenarioEnds, NodeOK, Over
  <2> HIDE DEF l, file
  <2> QED BY <1>1, <2>1, <2>2, <2>3, <2>4, NodeWrites, Zenon
<1>14. CASE ScenarioDone(p)
  <2> DEFINE l == "done"
             file == "scenario.done"
             r == result[p]
  <2>1. /\ l \in Label /\ Onward(at[p], l) /\ Goto(p, l) /\ file \in File
        /\ files' = [files EXCEPT ![p] = @ \cup {file}]
        /\ file \notin {"scenario.start", "activity.start"}
        /\ l \in Running => at[p] \in Running
        /\ l # "active"
    BY <1>14, Labels DEF ScenarioDone, Running, File
  <2>2. /\ file = "initial-state.ready" => l \notin Bootstrapping
        /\ file = "scenario.prepared" => l \notin Early
    BY DEF Bootstrapping, Early
  <2>3. r \in Status /\ result' = [result EXCEPT ![p] = r]
    BY <1>14 DEF ScenarioDone, RunnerTypeOK, Status
  <2>4. (result[p] = "success" => r = "success") /\ (r = "success" => l \in Over)
    BY <1>14 DEF ScenarioDone, NodeOK, Over
  <2> HIDE DEF l, file, r
  <2> QED BY <1>1, <2>1, <2>2, <2>3, <2>4, NodeWrites, Zenon
<1> QED BY <1>2, <1>3, <1>4, <1>5, <1>6, <1>7, <1>8, <1>9, <1>10, <1>11, <1>12, <1>13, <1>14
        DEF NodeStep, HeightPassed, BootstrapFails, KeepAliveEnds

----------------------------------------------------------------------------
(***************************************************************************)
(* The two barriers, and what run.sh knows in each of its loops: the n     *)
(* services it has counted are past the barrier if it has counted all of   *)
(* this round, and the statuses it has read were good if code is still 0.  *)
(***************************************************************************)
Ready == \A p \in Node : at[p] \notin Bootstrapping

AllPrepared == \A p \in Node : at[p] \notin Early

LoopOK ==
    /\ runner.n <= runner.index
    /\ runner.at = "bootstrap" /\ runner.n = runner.index =>
          \A p \in Node : p < runner.index => at[p] \notin Bootstrapping
    /\ runner.at = "preparation" /\ runner.n = runner.index =>
          \A p \in Node : p < runner.index => at[p] \notin Early
    /\ runner.at \in {"verification", "release", "preparation", "activity", "completion",
                      "results"} => Ready
    /\ runner.at \in {"activity", "completion", "results"} => AllPrepared
    /\ runner.at = "results" /\ code = 0 =>
          \A p \in Node : p < runner.index => result[p] = "success"
    /\ runner.at \in {"cleanup", "stopped"} /\ code = 0 => \A p \in Node : result[p] = "success"

Released ==
    \A q \in Node : /\ "scenario.start" \in files[q] => Ready
                    /\ "activity.start" \in files[q] => AllPrepared

RunnerInv == RunnerTypeOK /\ (\A p \in Node : NodeOK(p)) /\ Released /\ LoopOK

(***************************************************************************)
(* A step that advances nodes only keeps all of this.                      *)
(***************************************************************************)
LEMMA NodesAdvance ==
    ASSUME RunnerInv, RunnerTypeOK', runner' = runner, code' = code,
           \A p \in Node : Advances(p) /\ NodeOK(p)'
    PROVE  RunnerInv'
<1>1. (Ready => Ready') /\ (AllPrepared => AllPrepared')
  BY DEF Ready, AllPrepared, Advances
<1>2. Released'
  BY <1>1 DEF RunnerInv, Released, Advances
<1>3. LoopOK'
  BY <1>1 DEF RunnerInv, LoopOK, Advances
<1> QED BY <1>2, <1>3 DEF RunnerInv

(***************************************************************************)
(* The scripts of a node, bitcoind and the network.                        *)
(***************************************************************************)
LEMMA RunnerNodes ==
    ASSUME RunnerInv,
           \/ \E p \in Node : NodeStep(p) \/ BitcoindExits(p)
           \/ \E p, q \in Node : Receive(p, q)
           \/ UNCHANGED vars
    PROVE  RunnerInv'
<1>1. CASE UNCHANGED <<at, files, result, runner, code>>
  <2>1. RunnerTypeOK' /\ \A p \in Node : Advances(p) /\ NodeOK(p)'
    BY <1>1 DEF RunnerInv, RunnerTypeOK, Advances, NodeOK
  <2> QED BY <1>1, <2>1, NodesAdvance
<1>2. ASSUME NEW p \in Node, NodeStep(p) PROVE RunnerInv'
  <2>1. /\ RunnerTypeOK' /\ NodeOK(p)' /\ Advances(p)
        /\ \A q \in Node \ {p} : Elsewhere(q)
        /\ runner' = runner /\ code' = code
    BY <1>2, NodeSteps DEF RunnerInv
  <2>2. \A q \in Node : Advances(q) /\ NodeOK(q)'
    <3> TAKE q \in Node
    <3>1. CASE q = p
      BY <2>1, <3>1
    <3>2. CASE q # p
      BY <2>1, <3>2 DEF Elsewhere, Advances, NodeOK, RunnerInv
    <3> QED BY <3>1, <3>2
  <2> QED BY <2>1, <2>2, NodesAdvance
<1> QED BY <1>1, <1>2 DEF BitcoindExits, Receive, vars

(***************************************************************************)
(* run.sh goes on without touching the nodes.                              *)
(***************************************************************************)
LEMMA RunnerAlone ==
    ASSUME RunnerInv, UNCHANGED <<at, files, result>>,
           runner' \in [at : Loop, index : Nat, n : Nat], LoopOK'
    PROVE  RunnerInv'
BY DEF RunnerInv, RunnerTypeOK, NodeOK, Released, Ready, AllPrepared

(***************************************************************************)
(* exit with another status than 0: nothing is claimed.                    *)
(***************************************************************************)
LEMMA RunnerExits ==
    ASSUME RunnerInv, NEW status \in Nat \ {0}, RunnerExit(status), UNCHANGED nodes
    PROVE  RunnerInv'
<1>1. runner' = [at |-> "cleanup", index |-> 0, n |-> 0] /\ code' # 0
  BY DEF RunnerExit, ToLoop
<1>2. runner' \in [at : Loop, index : Nat, n : Nat] /\ LoopOK'
  BY <1>1 DEF LoopOK, Loop
<1> QED BY <1>2, RunnerAlone DEF nodes

(***************************************************************************)
(* A polling loop counts a service.                                        *)
(***************************************************************************)
LEMMA RunnerPolls == ASSUME RunnerInv, Poll PROVE RunnerInv'
<1> USE RunnerAssumption
<1> DEFINE p == runner.index
           there == Polled[runner.at] \in files[p]
<1>1. CASE RunnerExit(6)
  BY <1>1, RunnerExits DEF Poll
<1>2. CASE /\ runner' = [runner EXCEPT !.index = @ + 1, !.n = IF there THEN @ + 1 ELSE @]
           /\ UNCHANGED code
  <2>1. /\ p \in Node /\ runner \in [at : Loop, index : Nat, n : Nat]
        /\ runner.at \in {"bootstrap", "preparation", "completion"}
        /\ UNCHANGED <<at, files, result>>
    BY DEF Poll, RunnerInv, RunnerTypeOK, Node, Polling, Polled, nodes
  <2>2. /\ runner.at = "bootstrap" => Polled[runner.at] = "initial-state.ready"
        /\ runner.at = "preparation" => Polled[runner.at] = "scenario.prepared"
    BY DEF Polled
  <2>3. /\ there /\ runner.at = "bootstrap" => at[p] \notin Bootstrapping
        /\ there /\ runner.at = "preparation" => at[p] \notin Early
    BY <2>1, <2>2 DEF RunnerInv, NodeOK
  <2> HIDE DEF there
  <2>4. /\ runner'.at = runner.at /\ runner'.index = p + 1
        /\ runner'.n = IF there THEN runner.n + 1 ELSE runner.n
        /\ runner' \in [at : Loop, index : Nat, n : Nat]
    <3> DEFINE m == IF there THEN runner.n + 1 ELSE runner.n
    <3>1. m \in Nat /\ p + 1 \in Nat
      BY <2>1
    <3>2. runner' = [runner EXCEPT !.index = p + 1, !.n = m]
      BY <1>2
    <3> HIDE DEF m
    <3>3. runner'.at = runner.at /\ runner'.index = p + 1 /\ runner'.n = m
          /\ runner' \in [at : Loop, index : Nat, n : Nat]
      BY <2>1, <3>1, <3>2, Zenon
    <3> QED BY <3>3 DEF m
  <2>5. \A q \in Node : q \in Int /\ (q < p + 1 => q < p \/ q = p)
    BY <2>1 DEF Node
  <2>6. LoopOK'
    <3>1. runner.n \in Nat /\ p \in Nat /\ runner.n <= p
      BY <2>1 DEF RunnerInv, LoopOK
    <3>2. runner'.n <= runner'.index /\ (runner'.n = runner'.index => there /\ runner.n = p)
      BY <2>4, <3>1
    <3> QED BY <1>2, <2>1, <2>3, <2>4, <2>5, <3>1, <3>2 DEF LoopOK, RunnerInv, Ready, AllPrepared
  <2> QED BY <2>1, <2>4, <2>6, RunnerAlone
<1> QED BY <1>1, <1>2 DEF Poll

(***************************************************************************)
(* A loop of run.sh is followed by the next, or by another round.          *)
(***************************************************************************)
LEMMA RunnerGoesOn ==
    ASSUME RunnerInv, NEW l \in Loop, ToLoop(l), UNCHANGED <<nodes, code>>,
           l \notin {"cleanup", "stopped"},
           l \notin {"bootstrap"} => Ready,
           l \in {"activity", "completion", "results"} => AllPrepared
    PROVE  RunnerInv'
<1>1. /\ runner'.at = l /\ runner'.index = 0 /\ runner'.n = 0
      /\ runner' \in [at : Loop, index : Nat, n : Nat] /\ UNCHANGED <<at, files, result>>
  BY DEF ToLoop, nodes
<1>2. \A p \in Node : ~ (p < 0)
  BY DEF Node
<1>3. (Ready => Ready') /\ (AllPrepared => AllPrepared')
  BY <1>1 DEF Ready, AllPrepared
<1>4. LoopOK'
  BY <1>1, <1>2, <1>3 DEF LoopOK
<1> QED BY <1>1, <1>4, RunnerAlone

(***************************************************************************)
(* The end of a round: only with all services counted is the barrier left. *)
(***************************************************************************)
LEMMA RunnerRounds == ASSUME RunnerInv, RoundEnds \/ LoopEnds PROVE RunnerInv'
<1> USE RunnerAssumption
<1>1. /\ UNCHANGED <<nodes, code>> /\ runner.index = NodeCount
      /\ runner.at \in Loop \ {"results", "cleanup", "stopped"}
      /\ runner.at # "bootstrap" => Ready
      /\ runner.at \in {"activity", "completion"} => AllPrepared
  BY DEF RoundEnds, LoopEnds, Polling, Polled, RunnerInv, RunnerTypeOK, LoopOK, Loop
<1>2. \A p \in Node : p < NodeCount
  BY DEF Node
<1>3. /\ runner.at = "bootstrap" /\ runner.n = NodeCount => Ready
      /\ runner.at = "preparation" /\ runner.n = NodeCount => AllPrepared
  BY <1>1, <1>2 DEF RunnerInv, LoopOK, Ready, AllPrepared
<1>4. CASE ToLoop(runner.at)
  BY <1>1, <1>4, RunnerGoesOn
<1>5. CASE /\ ToLoop(Following[runner.at])
           /\ runner.at \in {"bootstrap", "preparation"} => runner.n = NodeCount
  <2> DEFINE l == Following[runner.at]
  <2>1. /\ l \in Loop /\ l \notin {"bootstrap", "cleanup", "stopped"}
        /\ l = "verification" => runner.at = "bootstrap"
        /\ l = "activity" => runner.at = "preparation"
        /\ l \in {"completion", "results"} => runner.at \in {"activity", "completion"}
    BY <1>1 DEF Following, Loop
  <2> HIDE DEF l
  <2>2. ToLoop(l) /\ Ready /\ (l \in {"activity", "completion", "results"} => AllPrepared)
    BY <1>1, <1>3, <1>5, <2>1 DEF l
  <2> QED BY <1>1, <2>1, <2>2, RunnerGoesOn
<1> QED BY <1>4, <1>5 DEF RoundEnds, LoopEnds

(***************************************************************************)
(* The index of a loop that is done once.                                  *)
(***************************************************************************)
LEMMA RunnerNextService ==
    ASSUME RunnerInv, runner' = [runner EXCEPT !.index = @ + 1],
           runner.at \in {"verification", "release", "activity", "results"},
           UNCHANGED <<at, result>>,
           runner.at = "results" /\ code' = 0 =>
              code = 0 /\ \A p \in Node : p = runner.index => result[p] = "success"
    PROVE  runner' \in [at : Loop, index : Nat, n : Nat] /\ LoopOK'
<1>1. runner \in [at : Loop, index : Nat, n : Nat]
  BY DEF RunnerInv, RunnerTypeOK
<1>2. /\ runner'.at = runner.at /\ runner'.index = runner.index + 1 /\ runner'.n = runner.n
      /\ runner' \in [at : Loop, index : Nat, n : Nat]
  BY <1>1
<1>3. \A q \in Node : q \in Int /\ (q < runner.index + 1 => q < runner.index \/ q = runner.index)
  BY <1>1 DEF Node
<1>4. Ready' = Ready /\ AllPrepared' = AllPrepared
  BY DEF Ready, AllPrepared
<1>5. runner'.n <= runner'.index
  BY <1>1, <1>2 DEF RunnerInv, LoopOK
<1>6. runner'.at = "results" /\ code' = 0 =>
         \A p \in Node : p < runner'.index => result'[p] = "success"
  BY <1>1, <1>2, <1>3 DEF RunnerInv, LoopOK
<1>7. /\ runner'.at \notin {"bootstrap", "cleanup", "stopped", "preparation"}
      /\ runner'.at \in {"verification", "release", "preparation", "activity", "completion",
                         "results"} => Ready'
      /\ runner'.at \in {"activity", "completion", "results"} => AllPrepared'
  BY <1>2, <1>4 DEF RunnerInv, LoopOK
<1> QED BY <1>2, <1>5, <1>6, <1>7 DEF LoopOK

(***************************************************************************)
(* VerifyState and ReadStatus.                                             *)
(***************************************************************************)
LEMMA RunnerReads == ASSUME RunnerInv, VerifyState \/ ReadStatus PROVE RunnerInv'
<1>1. CASE VerifyState
  <2>1. CASE RunnerExit(1) \/ RunnerExit(7)
    BY <1>1, <2>1, RunnerExits DEF VerifyState
  <2>2. CASE runner' = [runner EXCEPT !.index = @ + 1] /\ UNCHANGED code
    BY <1>1, <2>2, RunnerNextService, RunnerAlone DEF VerifyState, nodes
  <2> QED BY <1>1, <2>1, <2>2 DEF VerifyState
<1>2. CASE ReadStatus
  <2>1. code' = 0 => code = 0 /\ result[runner.index] = "success"
    BY <1>2 DEF ReadStatus
  <2> QED BY <1>2, <2>1, RunnerNextService, RunnerAlone DEF ReadStatus, nodes
<1> QED BY <1>1, <1>2

(***************************************************************************)
(* release_container_scenario, release_container_activity: the file is     *)
(* written when all nodes are past the barrier.                            *)
(***************************************************************************)
LEMMA RunnerReleases == ASSUME RunnerInv, ReleaseContainer PROVE RunnerInv'
<1> USE RunnerAssumption
<1> DEFINE p == runner.index
           file == IF runner.at = "release" THEN "scenario.start" ELSE "activity.start"
<1>1. CASE RunnerExit(1) /\ UNCHANGED files
  BY <1>1, RunnerExits DEF ReleaseContainer, nodes
<1>2. CASE /\ files' = [files EXCEPT ![p] = @ \cup {file}]
           /\ runner' = [runner EXCEPT !.index = @ + 1]
           /\ UNCHANGED code
  <2>1. /\ p \in Node /\ UNCHANGED <<at, result>> /\ runner.at \in {"release", "activity"}
    BY DEF ReleaseContainer, RunnerInv, RunnerTypeOK, Node
  <2>2. /\ file \in {"scenario.start", "activity.start"} /\ file \in File
        /\ Ready /\ (file = "activity.start" => AllPrepared)
    BY <2>1 DEF File, RunnerInv, LoopOK
  <2> HIDE DEF file
  <2>3. runner' \in [at : Loop, index : Nat, n : Nat] /\ LoopOK'
    BY <1>2, <2>1, RunnerNextService
  <2>4. \A q \in Node : files[q] \subseteq files'[q] /\ files'[q] \subseteq files[q] \cup {file}
    BY <1>2, <2>1 DEF RunnerInv, RunnerTypeOK
  <2>5. RunnerTypeOK'
    BY <1>2, <2>1, <2>2, <2>3 DEF RunnerInv, RunnerTypeOK
  <2>6. \A q \in Node : NodeOK(q)'
    BY <2>1, <2>2, <2>4 DEF RunnerInv, NodeOK
  <2>7. Released'
    BY <2>1, <2>2, <2>4 DEF RunnerInv, Released, Ready, AllPrepared
  <2> QED BY <2>3, <2>5, <2>6, <2>7 DEF RunnerInv
<1> QED BY <1>1, <1>2 DEF ReleaseContainer

(***************************************************************************)
(* The verdict, the deadline, the traps, and cleanup.                      *)
(***************************************************************************)
LEMMA RunnerEnds ==
    ASSUME RunnerInv,
           \/ \E marked \in BOOLEAN : Verdict(marked)
           \/ DeadlinePassed \/ Interrupted \/ cleanup
    PROVE  RunnerInv'
<1>1. CASE DeadlinePassed \/ Interrupted
  BY <1>1, RunnerExits DEF DeadlinePassed, Interrupted
<1>2. ASSUME NEW marked \in BOOLEAN, Verdict(marked) PROVE RunnerInv'
  <2>1. CASE RunnerExit(8)
    BY <1>2, <2>1, RunnerExits DEF Verdict
  <2>2. CASE code = 0 /\ RunnerExit(0)
    <3>1. \A p \in Node : result[p] = "success"
      <4>1. \A p \in Node : p < NodeCount
        BY RunnerAssumption DEF Node
      <4> QED BY <1>2, <2>2, <4>1 DEF Verdict, RunnerInv, LoopOK
    <3>2. /\ runner' = [at |-> "cleanup", index |-> 0, n |-> 0]
          /\ UNCHANGED <<at, files, result>>
      BY <1>2, <2>2 DEF RunnerExit, ToLoop, Verdict, nodes
    <3>3. runner' \in [at : Loop, index : Nat, n : Nat] /\ LoopOK'
      BY <3>1, <3>2 DEF LoopOK, Loop
    <3> QED BY <3>2, <3>3, RunnerAlone
  <2> QED BY <1>2, <2>1, <2>2 DEF Verdict
<1>3. CASE cleanup
  <2>1. runner.at = "cleanup" /\ runner \in [at : Loop, index : Nat, n : Nat]
    BY <1>3 DEF cleanup, RunnerInv, RunnerTypeOK
  <2>2. /\ runner'.at = "stopped" /\ runner'.index = runner.index /\ runner'.n = runner.n
        /\ runner' \in [at : Loop, index : Nat, n : Nat]
    BY <1>3, <2>1 DEF cleanup, Loop
  <2>3. /\ result' = result /\ code' = code
        /\ \A p \in Node : at'[p] = "exited" /\ files'[p] = {}
    BY <1>3 DEF cleanup
  <2>4. RunnerTypeOK'
    <3>1. "exited" \in Label
      BY DEF Label, Over
    <3> QED BY <1>3, <2>2, <3>1 DEF cleanup, RunnerInv, RunnerTypeOK
  <2>5. \A p \in Node : NodeOK(p)'
    BY <2>3 DEF NodeOK, Running, Over
  <2>6. Released' /\ LoopOK'
    BY <2>1, <2>2, <2>3 DEF Released, LoopOK, RunnerInv
  <2> QED BY <2>4, <2>5, <2>6 DEF RunnerInv
<1> QED BY <1>1, <1>2, <1>3

(***************************************************************************)
(* At the start all nodes boot and nothing has been written.               *)
(***************************************************************************)
LEMMA RunnerInit == ASSUME Init PROVE RunnerInv
<1>1. "boot" \in Label /\ "boot" \notin Running /\ "boot" \notin Over
  BY DEF Label, Early, Bootstrapping, Running, Over
<1>2. RunnerTypeOK
  BY <1>1 DEF Init, RunnerTypeOK, Status, Loop
<1>3. \A p \in Node : NodeOK(p) /\ ~ p < 0
  BY <1>1 DEF Init, NodeOK, Node
<1> QED BY <1>2, <1>3 DEF Init, RunnerInv, Released, LoopOK

(***************************************************************************)
(* Every step keeps the barriers.                                          *)
(***************************************************************************)
LEMMA RunnerNext == ASSUME RunnerInv, [Next]_vars PROVE RunnerInv'
BY RunnerNodes, RunnerPolls, RunnerRounds, RunnerReads, RunnerReleases, RunnerEnds, Zenon
   DEF Next, RunnerStep

(***************************************************************************)
(* run.sh exits with 0 only if every scenario ended with success: a status *)
(* is read once and does not change after it, a status that is missing     *)
(* counts as a failure, and every other way out sets another exit status.  *)
(***************************************************************************)
THEOREM PassAlwaysMeansSuccess == Spec => []PassMeansSuccess
<1>1. RunnerInv => PassMeansSuccess
  BY DEF RunnerInv, LoopOK, PassMeansSuccess
<1> QED BY <1>1, RunnerInit, RunnerNext, PTL DEF Spec

----------------------------------------------------------------------------
(***************************************************************************)
(* The turns of the bootstrap.  Turn: what the node at label l, with the   *)
(* loop variable h and n blocks, has done of its share.  Fits: no chain in *)
(* the network has more blocks than it has left room for, since nobody     *)
(* else mines its heights.  OwnRanges: every block is of a node's share.   *)
(***************************************************************************)
Whole == {"record", "release"} \cup Running

Turn(p, l, h, n) ==
    /\ l \in {"boot", "start"} => h = BootstrapStart(p)
    /\ l \in {"mine", "mined"} => h \in BootstrapStart(p) .. BootstrapEnd(p)
    /\ l = "mine" => n >= h - 1
    /\ l \in Whole => n >= BOOTSTRAP_TARGET_HEIGHT

Fits(p, l, h, n) ==
    /\ l \in {"boot", "start", "mine"} /\ h <= BootstrapEnd(p) => n < h
    /\ l = "mined" /\ h < BootstrapEnd(p) => n <= h
    /\ l \in Bootstrapping => n <= BOOTSTRAP_TARGET_HEIGHT

OwnRanges(s) ==
    \A i \in 1 .. Len(s) :
        i <= BOOTSTRAP_TARGET_HEIGHT => i \in BootstrapStart(s[i]) .. BootstrapEnd(s[i])

ChainInv ==
    /\ chain \in [Node -> Seq(Node)] /\ height \in [Node -> Int]
    /\ \A p \in Node :
          /\ Turn(p, at[p], height[p], Len(chain[p]))
          /\ OwnRanges(chain[p])
          /\ \A q \in Node : Fits(p, at[p], height[p], Len(chain[q]))

(***************************************************************************)
(* A node goes on, perhaps with another loop variable; no block is added.  *)
(***************************************************************************)
LEMMA TurnGoesOn ==
    ASSUME ChainInv, NEW p \in Node, chain' = chain, height' \in [Node -> Int],
           \A q \in Node \ {p} : at'[q] = at[q] /\ height'[q] = height[q],
           Turn(p, at'[p], height'[p], Len(chain[p])),
           \A q \in Node : Fits(p, at'[p], height'[p], Len(chain[q]))
    PROVE  ChainInv'
<1> SUFFICES ASSUME NEW r \in Node
             PROVE  /\ Turn(r, at'[r], height'[r], Len(chain[r]))
                    /\ \A q \in Node : Fits(r, at'[r], height'[r], Len(chain[q]))
  BY DEF ChainInv
<1>1. CASE r = p
  BY <1>1
<1>2. CASE r # p
  BY <1>2 DEF ChainInv
<1> QED BY <1>1, <1>2

(***************************************************************************)
(* Node p gets the longer chain s.                                         *)
(***************************************************************************)
LEMMA ChainGrows ==
    ASSUME ChainInv, NEW p \in Node, NEW s \in Seq(Node), chain' = [chain EXCEPT ![p] = s],
           Len(s) >= Len(chain[p]), OwnRanges(s), height' = height,
           \A q \in Node \ {p} : at'[q] = at[q] /\ Fits(q, at[q], height[q], Len(s)),
           Turn(p, at'[p], height[p], Len(s)),
           Fits(p, at'[p], height[p], Len(s)),
           \A q \in Node \ {p} : Fits(p, at'[p], height[p], Len(chain[q]))
    PROVE  ChainInv'
<1>1. /\ chain' \in [Node -> Seq(Node)] /\ chain'[p] = s
      /\ \A q \in Node \ {p} : chain'[q] = chain[q]
  BY DEF ChainInv
<1>2. ASSUME NEW r \in Node
      PROVE  /\ Turn(r, at'[r], height'[r], Len(chain'[r]))
             /\ OwnRanges(chain'[r])
             /\ \A q \in Node : Fits(r, at'[r], height'[r], Len(chain'[q]))
  <2>1. CASE r = p
    <3>1. ASSUME NEW q \in Node PROVE Fits(p, at'[p], height[p], Len(chain'[q]))
      <4>1. CASE q = p
        BY <1>1, <4>1
      <4>2. CASE q # p
        BY <1>1, <4>2
      <4> QED BY <4>1, <4>2
    <3> QED BY <1>1, <2>1, <3>1
  <2>2. CASE r # p
    <3>1. ASSUME NEW q \in Node PROVE Fits(r, at[r], height[r], Len(chain'[q]))
      <4>1. CASE q = p
        BY <1>1, <2>2, <4>1
      <4>2. CASE q # p
        BY <1>1, <2>2, <4>2 DEF ChainInv
      <4> QED BY <4>1, <4>2
    <3> QED BY <1>1, <2>2, <3>1 DEF ChainInv
  <2> QED BY <2>1, <2>2
<1>3. height' \in [Node -> Int]
  BY DEF ChainInv
<1> QED BY <1>1, <1>2, <1>3 DEF ChainInv

(***************************************************************************)
(* A shorter chain fits where a longer one does.                           *)
(***************************************************************************)
LEMMA FitsShorter ==
    ASSUME NEW p \in Node, NEW l, NEW h \in Int, NEW n \in Int, Fits(p, l, h, n),
           NEW m \in Int, m <= n
    PROVE  Fits(p, l, h, m)
<1>1. BootstrapEnd(p) \in Int /\ BOOTSTRAP_TARGET_HEIGHT \in Int
  BY RangeOrder, RunnerAssumption
<1> QED BY <1>1 DEF Fits

(***************************************************************************)
(* A block of the node's own share: it is the next one, and all nodes that *)
(* still have to mine are later in turn.                                   *)
(***************************************************************************)
LEMMA TurnMines == ASSUME RunnerInv, ChainInv, NEW p \in Node, MineBlock(p) PROVE ChainInv'
<1> USE RunnerAssumption
<1> DEFINE n == Len(chain[p])
           h == height[p]
           s == Append(chain[p], p)
<1>1. /\ chain[p] \in Seq(Node) /\ n \in Nat /\ h \in Int
      /\ s \in Seq(Node) /\ Len(s) = n + 1 /\ s[n + 1] = p
      /\ \A i \in 1 .. n : s[i] = chain[p][i]
  BY DEF ChainInv
<1>2. at[p] = "mine" /\ chain' = [chain EXCEPT ![p] = s] /\ height' = height
  BY DEF MineBlock
<1>3. /\ BootstrapStart(p) \in Int /\ BootstrapEnd(p) \in Int
      /\ BootstrapEnd(p) <= BOOTSTRAP_TARGET_HEIGHT
  BY RangeOrder
<1>4. h \in BootstrapStart(p) .. BootstrapEnd(p) /\ n = h - 1
  <2>1. Turn(p, "mine", h, n) /\ Fits(p, "mine", h, n)
    BY <1>2 DEF ChainInv
  <2> QED BY <1>1, <1>3, <2>1 DEF Turn, Fits
<1>5. at'[p] = "mined" /\ \A q \in Node \ {p} : at'[q] = at[q]
  BY DEF MineBlock, Goto, RunnerInv, RunnerTypeOK
<1> HIDE DEF s, n, h
<1>6. OwnRanges(s)
  <2>1. OwnRanges(chain[p])
    BY DEF ChainInv
  <2>2. ASSUME NEW i \in 1 .. Len(s), i <= BOOTSTRAP_TARGET_HEIGHT
        PROVE  i \in BootstrapStart(s[i]) .. BootstrapEnd(s[i])
    <3>1. CASE i = n + 1
      <4>1. i = h /\ s[i] = p
        BY <1>1, <1>3, <1>4, <3>1
      <4> QED BY <1>4, <4>1
    <3>2. CASE i # n + 1
      <4>1. i \in 1 .. n /\ s[i] = chain[p][i]
        BY <1>1, <2>2, <3>2
      <4> QED BY <2>1, <2>2, <4>1 DEF OwnRanges, n
    <3> QED BY <3>1, <3>2
  <2> QED BY <2>2 DEF OwnRanges
<1>7. ASSUME NEW q \in Node \ {p} PROVE Fits(q, at[q], height[q], Len(s))
  <2>1. /\ BootstrapStart(q) \in Int /\ BootstrapEnd(q) \in Int /\ height[q] \in Int
        /\ p \in Int /\ q \in Int
    <3>1. q \in Node /\ height[q] \in Int /\ p \in Int /\ q \in Int
      BY DEF ChainInv, Node
    <3> QED BY <3>1, RangeOrder
  <2>2. Fits(q, at[q], height[q], n) /\ Turn(q, at[q], height[q], Len(chain[q]))
    BY DEF ChainInv, n
  <2>3. Len(s) = h /\ h <= BOOTSTRAP_TARGET_HEIGHT /\ h \in Int
    BY <1>1, <1>3, <1>4
  <2>4. CASE p < q
    <3>1. h < BootstrapStart(q)
      <4>1. BootstrapEnd(p) < BootstrapStart(q)
        BY <2>4, RangeOrder
      <4> QED BY <1>3, <1>4, <2>1, <4>1
    <3>2. at[q] \in {"boot", "start", "mine", "mined"} => height[q] >= BootstrapStart(q)
      BY <2>1, <2>2 DEF Turn
    <3> QED BY <2>1, <2>3, <3>1, <3>2 DEF Fits
  <2>5. CASE q < p
    <3>1. n >= BootstrapEnd(q)
      <4>1. BootstrapEnd(q) < BootstrapStart(p)
        BY <2>5, RangeOrder
      <4> QED BY <1>1, <1>3, <1>4, <2>1, <4>1
    <3> QED BY <1>1, <2>1, <2>2, <2>3, <3>1 DEF Fits
  <2> QED BY <2>1, <2>4, <2>5
<1>8. Turn(p, "mined", h, Len(s))
  BY <1>4 DEF Turn, Whole, Running
<1>9. Fits(p, "mined", h, Len(s))
  BY <1>1, <1>3, <1>4 DEF Fits
<1>10. ASSUME NEW q \in Node \ {p} PROVE Fits(p, "mined", h, Len(chain[q]))
  <2>1. Len(chain[q]) \in Nat /\ Fits(p, "mine", h, Len(chain[q]))
    BY <1>2 DEF ChainInv, h
  <2> QED BY <1>1, <1>3, <1>4, <2>1 DEF Fits
<1>11. Len(s) >= Len(chain[p])
  BY <1>1 DEF n
<1> QED BY <1>1, <1>2, <1>5, <1>6, <1>7, <1>8, <1>9, <1>10, <1>11, ChainGrows DEF h

(***************************************************************************)
(* The next block of the share, or the last wait, after the exact height   *)
(* was seen.                                                               *)
(***************************************************************************)
LEMMA TurnNextBlock == ASSUME RunnerInv, ChainInv, NEW p \in Node, NextBlock(p) PROVE ChainInv'
<1> USE RunnerAssumption
<1> DEFINE n == Len(chain[p])
           h == height[p]
           next == IF at[p] = "start" THEN h ELSE h + 1
           l == IF next <= BootstrapEnd(p) THEN "mine" ELSE "end"
<1>1. /\ at[p] \in {"start", "mined"} /\ n = Awaited(p)
      /\ height' = [height EXCEPT ![p] = next] /\ chain' = chain
      /\ at' = [at EXCEPT ![p] = l]
  BY DEF NextBlock, HeightReached, Goto
<1>2. /\ BootstrapStart(p) \in Int /\ BootstrapEnd(p) \in Int /\ h \in Int /\ n \in Nat
      /\ BOOTSTRAP_TARGET_HEIGHT \in Int /\ next \in Int
  BY RangeOrder DEF ChainInv
<1>3. at[p] = "start" => n = BootstrapStart(p) - 1 /\ h = BootstrapStart(p)
  <2>1. at[p] = "start" => n = BootstrapStart(p) - 1
    BY <1>1 DEF Awaited
  <2>2. Turn(p, at[p], h, n)
    BY DEF ChainInv
  <2> QED BY <2>1, <2>2 DEF Turn
<1>4. at[p] = "mined" => n = h /\ h \in BootstrapStart(p) .. BootstrapEnd(p)
  <2>1. at[p] = "mined" => n = h
    BY <1>1 DEF Awaited
  <2>2. Turn(p, at[p], h, n)
    BY DEF ChainInv
  <2> QED BY <2>1, <2>2 DEF Turn
<1>5. n = next - 1 /\ next >= BootstrapStart(p)
  BY <1>1, <1>2, <1>3, <1>4
<1>6. /\ at'[p] = l /\ height'[p] = next /\ height' \in [Node -> Int]
      /\ \A q \in Node \ {p} : at'[q] = at[q] /\ height'[q] = height[q]
  <2> HIDE DEF l, next
  <2> QED BY <1>1, <1>2 DEF ChainInv, RunnerInv, RunnerTypeOK
<1>7. Turn(p, l, next, n)
  <2>1. CASE next <= BootstrapEnd(p)
    <3>1. l = "mine"
      BY <2>1
    <3> HIDE DEF next, l
    <3> QED BY <1>2, <1>5, <2>1, <3>1 DEF Turn, Whole, Running
  <2>2. CASE ~ next <= BootstrapEnd(p)
    <3>1. l = "end"
      BY <2>2
    <3> HIDE DEF next, l
    <3> QED BY <3>1 DEF Turn, Whole, Running
  <2> QED BY <2>1, <2>2
<1>8. ASSUME NEW q \in Node PROVE Fits(p, l, next, Len(chain[q]))
  <2>1. Fits(p, at[p], h, Len(chain[q])) /\ Len(chain[q]) \in Nat
    BY DEF ChainInv
  <2>2. Len(chain[q]) <= BOOTSTRAP_TARGET_HEIGHT
    BY <1>1, <2>1 DEF Fits, Bootstrapping
  <2>3. CASE next <= BootstrapEnd(p)
    <3>1. l = "mine"
      BY <2>3
    <3>2. Len(chain[q]) < next
      BY <1>1, <1>2, <2>1, <2>3 DEF Fits
    <3> HIDE DEF next, l
    <3> QED BY <2>2, <3>1, <3>2 DEF Fits
  <2>4. CASE ~ next <= BootstrapEnd(p)
    <3>1. l = "end"
      BY <2>4
    <3> HIDE DEF next, l
    <3> QED BY <2>2, <3>1 DEF Fits
  <2> QED BY <2>3, <2>4
<1> HIDE DEF l, next, h
<1> QED BY <1>1, <1>6, <1>7, <1>8, TurnGoesOn DEF n

(***************************************************************************)
(* fund_all_node_wallets: one block above the target height, when no node  *)
(* is bootstrapping any more.                                              *)
(***************************************************************************)
LEMMA TurnFunds ==
    ASSUME RunnerInv, ChainInv, NEW p \in Node, at[p] = "prepare", height' = height,
           chain' = [chain EXCEPT ![p] = Append(@, p)],
           at'[p] = "funded", \A q \in Node \ {p} : at'[q] = at[q]
    PROVE  ChainInv'
<1> USE RunnerAssumption
<1> DEFINE n == Len(chain[p])
           s == Append(chain[p], p)
<1>1. /\ chain[p] \in Seq(Node) /\ n \in Nat
      /\ s \in Seq(Node) /\ Len(s) = n + 1
      /\ \A i \in 1 .. n : s[i] = chain[p][i]
  BY DEF ChainInv
<1>2. chain' = [chain EXCEPT ![p] = s]
  OBVIOUS
<1>3. n >= BOOTSTRAP_TARGET_HEIGHT
  BY DEF ChainInv, Turn, Whole, Running
<1>4. \A q \in Node : at[q] \notin Bootstrapping
  BY DEF RunnerInv, NodeOK, Released, Ready, Running
<1>5. \A q \in Node : \A l, h, m : l \notin Bootstrapping => Fits(q, l, h, m)
  BY DEF Fits, Bootstrapping
<1>6. "funded" \notin Bootstrapping
  BY DEF Bootstrapping
<1> HIDE DEF s, n
<1>7. OwnRanges(s)
  <2>1. OwnRanges(chain[p])
    BY DEF ChainInv
  <2>2. ASSUME NEW i \in 1 .. Len(s), i <= BOOTSTRAP_TARGET_HEIGHT
        PROVE  i \in BootstrapStart(s[i]) .. BootstrapEnd(s[i])
    <3>1. i \in 1 .. n /\ s[i] = chain[p][i]
      BY <1>1, <1>3, <2>2
    <3> QED BY <2>1, <2>2, <3>1 DEF OwnRanges, n
  <2> QED BY <2>2 DEF OwnRanges
<1>8. Turn(p, "funded", height[p], Len(s)) /\ Len(s) >= Len(chain[p])
  BY <1>1, <1>3 DEF Turn, n
<1>9. Fits(p, "funded", height[p], Len(s))
      /\ \A q \in Node \ {p} : /\ Fits(p, "funded", height[p], Len(chain[q]))
                               /\ Fits(q, at[q], height[q], Len(s))
  BY <1>4, <1>5, <1>6
<1> QED BY <1>1, <1>2, <1>7, <1>8, <1>9, ChainGrows, Zenon

(***************************************************************************)
(* A node gets blocks that another has.                                    *)
(***************************************************************************)
LEMMA TurnReceives ==
    ASSUME ChainInv, NEW p \in Node, NEW q \in Node, Receive(p, q) PROVE ChainInv'
<1>1. PICK k \in Len(chain[p]) + 1 .. Len(chain[q]) :
         chain' = [chain EXCEPT ![p] = SubSeq(chain[q], 1, k)]
  BY Zenon DEF Receive
<1> DEFINE s == SubSeq(chain[q], 1, k)
<1>2. /\ chain[q] \in Seq(Node) /\ Len(chain[p]) \in Nat /\ Len(chain[q]) \in Nat
      /\ k \in 1 .. Len(chain[q]) /\ k >= Len(chain[p])
  BY DEF ChainInv
<1>3. s \in Seq(Node) /\ Len(s) = k /\ \A i \in 1 .. k : s[i] = chain[q][i]
  BY <1>2
<1>4. chain' = [chain EXCEPT ![p] = s] /\ at' = at /\ height' = height
  BY <1>1, Zenon DEF Receive
<1> HIDE DEF s
<1>5. OwnRanges(s)
  <2>1. OwnRanges(chain[q])
    BY DEF ChainInv
  <2>2. ASSUME NEW i \in 1 .. Len(s), i <= BOOTSTRAP_TARGET_HEIGHT
        PROVE  i \in BootstrapStart(s[i]) .. BootstrapEnd(s[i])
    <3>1. i \in 1 .. Len(chain[q]) /\ s[i] = chain[q][i]
      BY <1>2, <1>3, <2>2
    <3> QED BY <2>1, <2>2, <3>1 DEF OwnRanges
  <2> QED BY <2>2 DEF OwnRanges
<1>6. \A r \in Node : Fits(r, at[r], height[r], Len(s))
  <2> TAKE r \in Node
  <2>1. Fits(r, at[r], height[r], Len(chain[q])) /\ height[r] \in Int
    BY DEF ChainInv
  <2> QED BY <1>2, <1>3, <2>1, FitsShorter
<1>7. Turn(p, at[p], height[p], Len(s))
  <2>1. Turn(p, at[p], height[p], Len(chain[p])) /\ height[p] \in Int
    BY DEF ChainInv
  <2> QED BY <1>2, <1>3, <2>1, RunnerAssumption DEF Turn
<1>8. \A r \in Node \ {p} : Fits(p, at[p], height[p], Len(chain[r]))
  BY DEF ChainInv
<1> QED BY <1>2, <1>3, <1>4, <1>5, <1>6, <1>7, <1>8, ChainGrows, Zenon

(***************************************************************************)
(* The other steps of the scripts of a node.                               *)
(***************************************************************************)
LEMMA TurnSteps == ASSUME RunnerInv, ChainInv, NEW p \in Node, NodeStep(p) PROVE ChainInv'
<1> USE RunnerAssumption
<1>1. \A q \in Node \ {p} : at'[q] = at[q]
  BY NodeSteps DEF RunnerInv, Elsewhere
<1>2. at \in [Node -> Label] /\ height \in [Node -> Int]
  BY DEF RunnerInv, RunnerTypeOK, ChainInv
<1>3. ASSUME UNCHANGED <<chain, height>>,
             Turn(p, at'[p], height[p], Len(chain[p])),
             \A q \in Node : Fits(p, at'[p], height[p], Len(chain[q]))
      PROVE  ChainInv'
  BY <1>1, <1>2, <1>3, TurnGoesOn
<1>4. /\ Turn(p, at[p], height[p], Len(chain[p]))
      /\ \A q \in Node : Fits(p, at[p], height[p], Len(chain[q]))
  BY DEF ChainInv
<1>5. CASE Exit(p)
  <2>1. at'[p] = "exited" /\ UNCHANGED <<chain, height>>
    BY <1>2, <1>5 DEF Exit, Goto
  <2> QED BY <1>3, <2>1 DEF Turn, Fits, Bootstrapping, Whole, Running
<1>6. CASE WaitForMesh(p)
  <2>1. at[p] = "boot" /\ at'[p] = "start" /\ UNCHANGED <<chain, height>>
    BY <1>2, <1>6 DEF WaitForMesh, Goto
  <2>2. Turn(p, "start", height[p], Len(chain[p]))
    BY <1>4, <2>1 DEF Turn, Whole, Running
  <2>3. \A q \in Node : Fits(p, "start", height[p], Len(chain[q]))
    BY <1>4, <2>1 DEF Fits, Bootstrapping
  <2> QED BY <1>3, <2>1, <2>2, <2>3
<1>7. CASE ShareMined(p) \/ verify_local_initial_state(p)
  <2>1. /\ at[p] \in {"end", "verify"} /\ at'[p] \in {"verify", "record"}
        /\ UNCHANGED <<chain, height>>
        /\ at'[p] = "record" => Len(chain[p]) = BOOTSTRAP_TARGET_HEIGHT
    BY <1>2, <1>7 DEF ShareMined, verify_local_initial_state, HeightReached, Awaited, Goto
  <2>2. Turn(p, at'[p], height[p], Len(chain[p]))
    BY <2>1 DEF Turn, Whole, Running
  <2>3. \A q \in Node : Fits(p, at'[p], height[p], Len(chain[q]))
    BY <1>4, <2>1 DEF Fits, Bootstrapping
  <2> QED BY <1>3, <2>1, <2>2, <2>3
<1>8. CASE at[p] \in Whole /\ at'[p] \in Whole \ {"record"} /\ UNCHANGED <<chain, height>>
  <2>1. Turn(p, at'[p], height[p], Len(chain[p]))
    BY <1>4, <1>8 DEF Turn, Whole, Running
  <2>2. \A q \in Node : Fits(p, at'[p], height[p], Len(chain[q]))
    BY <1>8 DEF Fits, Bootstrapping, Whole, Running
  <2> QED BY <1>3, <1>8, <2>1, <2>2
<1>9. CASE record_initial_state(p) \/ wait_for_scenario_release(p) \/ Prepared(p)
           \/ wait_for_activity_release(p) \/ ScenarioDone(p)
  BY <1>2, <1>5, <1>8, <1>9
     DEF record_initial_state, wait_for_scenario_release, Prepared, wait_for_activity_release,
         ScenarioDone, Goto, Whole, Running
<1>10. CASE \E status \in {"success", "failure"} : ScenarioEnds(p, status)
  BY <1>2, <1>8, <1>10 DEF ScenarioEnds, Goto, Whole, Running
<1>11. CASE fund_all_node_wallets(p)
  <2>1. at[p] = "prepare" /\ at'[p] = "funded" /\ height' = height
    BY <1>2, <1>11 DEF fund_all_node_wallets, Goto
  <2>2. chain' = chain \/ chain' = [chain EXCEPT ![p] = Append(@, p)]
    BY <1>11 DEF fund_all_node_wallets
  <2>3. CASE chain' = chain
    BY <1>8, <2>1, <2>3 DEF Whole, Running
  <2>4. CASE chain' = [chain EXCEPT ![p] = Append(@, p)]
    BY <1>1, <2>1, <2>4, TurnFunds, Zenon
  <2> QED BY <2>2, <2>3, <2>4
<1> QED BY <1>5, <1>6, <1>7, <1>9, <1>10, <1>11, TurnMines, TurnNextBlock
        DEF NodeStep, HeightPassed, BootstrapFails, KeepAliveEnds

(***************************************************************************)
(* run.sh does not touch the chains; cleanup ends all containers.          *)
(***************************************************************************)
LEMMA TurnRunner ==
    ASSUME ChainInv, RunnerStep \/ DeadlinePassed \/ Interrupted
                       \/ (\E p \in Node : BitcoindExits(p)) \/ UNCHANGED vars
    PROVE  ChainInv'
<1>1. UNCHANGED <<chain, height>> /\ (at' = at \/ \A p \in Node : at'[p] = "exited")
  BY DEF RunnerStep, Poll, RoundEnds, VerifyState, ReleaseContainer, LoopEnds, ReadStatus,
         Verdict, cleanup, DeadlinePassed, Interrupted, BitcoindExits, vars, nodes
<1>2. CASE at' = at
  BY <1>1, <1>2 DEF ChainInv
<1>3. CASE \A p \in Node : at'[p] = "exited"
  <2>1. \A p \in Node : /\ Turn(p, at'[p], height[p], Len(chain[p]))
                        /\ \A q \in Node : Fits(p, at'[p], height[p], Len(chain[q]))
    BY <1>3 DEF Turn, Fits, Bootstrapping, Whole, Running
  <2> QED BY <1>1, <2>1 DEF ChainInv
<1> QED BY <1>1, <1>2, <1>3

(***************************************************************************)
(* At the start there is only the genesis block, which is not counted.     *)
(***************************************************************************)
LEMMA TurnInit == ASSUME Init PROVE ChainInv
<1> USE RunnerAssumption
<1>1. \A p \in Node : BootstrapStart(p) \in Nat \ {0} /\ BootstrapEnd(p) \in Nat
  BY RangeOrder
<1>2. chain \in [Node -> Seq(Node)] /\ height \in [Node -> Int]
  BY <1>1 DEF Init
<1>3. \A p \in Node : at[p] = "boot" /\ height[p] = BootstrapStart(p) /\ chain[p] = <<>>
  BY DEF Init
<1>4. ASSUME NEW p \in Node
      PROVE  /\ Turn(p, "boot", BootstrapStart(p), 0) /\ Fits(p, "boot", BootstrapStart(p), 0)
             /\ OwnRanges(<<>>)
  <2>1. Turn(p, "boot", BootstrapStart(p), 0)
    BY DEF Turn, Whole, Running
  <2>2. Fits(p, "boot", BootstrapStart(p), 0)
    BY <1>1 DEF Fits
  <2> QED BY <2>1, <2>2 DEF OwnRanges
<1>5. Len(<<>>) = 0
  OBVIOUS
<1> QED BY <1>2, <1>3, <1>4, <1>5 DEF ChainInv

(***************************************************************************)
(* Every step keeps the turns.                                             *)
(***************************************************************************)
LEMMA TurnNext == ASSUME RunnerInv, ChainInv, [Next]_vars PROVE ChainInv'
BY TurnSteps, TurnReceives, TurnRunner, Zenon DEF Next

ScenarioInv == RunnerInv /\ ChainInv

(***************************************************************************)
(* The scripts of the nodes, the barriers of run.sh and the turns of the   *)
(* bootstrap stay in step, whichever container ends, whichever bitcoind    *)
(* exits and whatever deadline passes.                                     *)
(***************************************************************************)
THEOREM ScenarioInvariant == Spec => []ScenarioInv
<1>1. Init => ScenarioInv
  BY RunnerInit, TurnInit DEF ScenarioInv
<1>2. ScenarioInv /\ [Next]_vars => ScenarioInv'
  BY RunnerNext, TurnNext DEF ScenarioInv
<1> QED BY <1>1, <1>2, PTL DEF Spec

(***************************************************************************)
(* The shares of calculate_bootstrap_range are disjoint, so a height has   *)
(* one miner and the nodes have one initial chain: the comparison of the   *)
(* recorded tips in run.sh never fails.                                    *)
(***************************************************************************)
THEOREM AlwaysOneInitialChain == Spec => []OneInitialChain
<1>1. ASSUME ScenarioInv PROVE OneInitialChain
  <2> SUFFICES ASSUME NEW p \in Node, NEW q \in Node, NEW h \in 1 .. BOOTSTRAP_TARGET_HEIGHT,
                      h <= Len(chain[p]), h <= Len(chain[q])
               PROVE  /\ chain[p][h] = chain[q][h]
                      /\ h \in BootstrapStart(chain[p][h]) .. BootstrapEnd(chain[p][h])
    BY DEF OneInitialChain
  <2> DEFINE c == chain[p][h]
             d == chain[q][h]
  <2>1. h \in 1 .. Len(chain[p]) /\ h \in 1 .. Len(chain[q]) /\ c \in Node /\ d \in Node
        /\ h \in Int /\ h <= BOOTSTRAP_TARGET_HEIGHT
    BY <1>1, RunnerAssumption DEF ScenarioInv, ChainInv
  <2>2. /\ h \in BootstrapStart(c) .. BootstrapEnd(c)
        /\ h \in BootstrapStart(d) .. BootstrapEnd(d)
    BY <1>1, <2>1 DEF ScenarioInv, ChainInv, OwnRanges
  <2> HIDE DEF c, d
  <2>3. ASSUME NEW x \in Node, NEW y \in Node, x < y,
               h \in BootstrapStart(x) .. BootstrapEnd(x),
               h \in BootstrapStart(y) .. BootstrapEnd(y)
        PROVE  FALSE
    <3>1. BootstrapEnd(x) < BootstrapStart(y) /\ BootstrapEnd(x) \in Int
          /\ BootstrapStart(y) \in Int
      BY <2>3, RangeOrder
    <3> QED BY <2>1, <2>3, <3>1
  <2>4. c = d
    <3>1. c < d \/ d < c \/ c = d
      BY <2>1 DEF Node
    <3> QED BY <2>1, <2>2, <2>3, <3>1
  <2> QED BY <2>2, <2>4 DEF c, d
<1> QED BY <1>1, ScenarioInvariant, PTL

(***************************************************************************)
(* The readiness barrier and the start barrier of run.sh hold: nobody      *)
(* begins its scenario, and no block above the target height exists, while *)
(* a node bootstraps; nobody is active while a node prepares.              *)
(***************************************************************************)
THEOREM BarriersAlwaysHold == Spec => []BarriersHold
<1>1. ASSUME ScenarioInv PROVE BarriersHold
  <2> SUFFICES ASSUME NEW p \in Node, NEW q \in Node
               PROVE  /\ at[p] \in Bootstrapping
                             => /\ at[q] \in Bootstrapping \cup {"release", "exited"}
                                /\ Len(chain[q]) <= BOOTSTRAP_TARGET_HEIGHT
                      /\ at[p] \in {"prepare", "funded"} => at[q] # "active"
    BY DEF BarriersHold
  <2>1. at[p] \in Bootstrapping => at[q] \notin Running
    BY <1>1 DEF ScenarioInv, RunnerInv, NodeOK, Released, Ready
  <2>2. at[q] \in Bootstrapping \cup {"release", "exited"} \cup Running
    BY <1>1 DEF ScenarioInv, RunnerInv, RunnerTypeOK, Label, Early, Running, Over
  <2>3. at[p] \in Bootstrapping => Len(chain[q]) <= BOOTSTRAP_TARGET_HEIGHT
    BY <1>1 DEF ScenarioInv, ChainInv, Fits
  <2>4. at[p] \in {"prepare", "funded"} => at[q] # "active"
    BY <1>1 DEF ScenarioInv, RunnerInv, NodeOK, Released, AllPrepared, Early
  <2> QED BY <2>1, <2>2, <2>3, <2>4
<1> QED BY <1>1, ScenarioInvariant, PTL

(***************************************************************************)
(* wait_for_exact_bootstrap_height finds its height passed only when it is *)
(* the last of the node's own share, after which the next node mines on.   *)
(***************************************************************************)
THEOREM AlwaysPassedOnlyAtOwnEnd == Spec => []PassedOnlyAtOwnEnd
<1>1. ASSUME ScenarioInv PROVE PassedOnlyAtOwnEnd
  <2> SUFFICES ASSUME NEW p \in Node, Awaiting(p), Len(chain[p]) > Awaited(p)
               PROVE  Awaited(p) = BootstrapEnd(p)
    BY DEF PassedOnlyAtOwnEnd
  <2> DEFINE h == height[p]
             n == Len(chain[p])
  <2>1. /\ BootstrapStart(p) \in Int /\ BootstrapEnd(p) \in Int
        /\ BootstrapStart(p) <= BootstrapEnd(p) + 1 /\ BOOTSTRAP_TARGET_HEIGHT \in Int
    BY RangeOrder, RunnerAssumption
  <2>2. Turn(p, at[p], h, n) /\ Fits(p, at[p], h, n) /\ h \in Int /\ n \in Nat
    BY <1>1 DEF ScenarioInv, ChainInv
  <2>3. CASE at[p] = "start"
    <3>1. Awaited(p) = BootstrapStart(p) - 1
      BY <2>3 DEF Awaited
    <3> QED BY <2>1, <2>2, <2>3, <3>1 DEF Turn, Fits
  <2>4. CASE at[p] = "mined"
    <3>1. Awaited(p) = h
      BY <2>4 DEF Awaited
    <3> QED BY <2>1, <2>2, <2>4, <3>1 DEF Turn, Fits
  <2>5. CASE at[p] = "end"
    BY <2>5 DEF Awaited
  <2>6. CASE at[p] = "verify"
    <3>1. Awaited(p) = BOOTSTRAP_TARGET_HEIGHT
      BY <2>6 DEF Awaited
    <3> QED BY <2>1, <2>2, <2>6, <3>1 DEF Fits, Bootstrapping
  <2> QED BY <2>3, <2>4, <2>5, <2>6 DEF Awaiting
<1> QED BY <1>1, ScenarioInvariant, PTL
=============================================================================
