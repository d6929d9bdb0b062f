---------------------------- MODULE ScenarioRunner ----------------------------
(***************************************************************************)
(* The test environment (src/bitcoin-test-env).  The runner (run.sh)       *)
(* starts one container per node.  Each container (docker/entrypoint.sh)   *)
(* mines its share of the initial chain in turn, reports that it is ready, *)
(* waits for the release, runs its scenario (controls/scenario.sh), and    *)
(* waits once more in it for the synchronized start of the activity.  The  *)
(* two sides communicate by files in /run/bitcoin-env, a tmpfs that is     *)
(* gone with the container.                                                *)
(*                                                                         *)
(* A chain is the sequence of the nodes that mined its blocks.  A deadline *)
(* may pass at any moment while the script waits.  What the activity and   *)
(* the faults do is only the status they end with.                         *)
(***************************************************************************)
EXTENDS Integers, Sequences

CONSTANTS
    NodeCount,                \* the selected nodes, by position in ACTIVE_NODES
    BOOTSTRAP_TARGET_HEIGHT,
    COINBASE_MATURITY,        \* external: blocks until a reward can be spent
    Fragile                   \* nodes whose bitcoind may exit by itself

Node == 0 .. NodeCount - 1

ASSUME RunnerAssumption ==
    /\ NodeCount \in Nat \ {0}
    /\ BOOTSTRAP_TARGET_HEIGHT \in Nat \ {0}
    /\ COINBASE_MATURITY \in Nat
    /\ Fragile \subseteq Node

VARIABLES
    at,       \* how far the entrypoint of each node has come
    up,       \* nodes whose bitcoind is running
    chain,    \* the active chain of each node
    height,   \* the loop variable of mine_bootstrap_share
    tip,      \* initial-state.env: the chain up to its TIP_HASH
    files,    \* the other files in /run/bitcoin-env of each node
    runner,   \* at: the loop run.sh is in, index: the next service, n: its counter
    code,     \* the exit status of run.sh; while it runs, overall_status
    result    \* history: the status the scenario of each node ended with

vars == <<at, up, chain, height, tip, files, runner, code, result>>

nodes == <<at, up, chain, height, tip, files, result>>

----------------------------------------------------------------------------
\* The heights a position mines: the first, how many, and the last.
calculate_bootstrap_range(target, position, node_count) ==
    LET base      == target \div node_count
        remainder == target % node_count
        earlier_extras == IF position > remainder THEN remainder ELSE position
        count == IF position < remainder THEN base + 1 ELSE base
        start == position * base + earlier_extras + 1
    IN  <<start, count, start + count - 1>>

BootstrapRange(p) == calculate_bootstrap_range(BOOTSTRAP_TARGET_HEIGHT, p, NodeCount)

BootstrapStart(p) == BootstrapRange(p)[1]

BootstrapEnd(p) == BootstrapRange(p)[3]

Init ==
    /\ at = [p \in Node |-> "boot"]
    /\ up = Node
    /\ chain = [p \in Node |-> <<>>]
    /\ height = [p \in Node |-> BootstrapStart(p)]
    /\ tip = [p \in Node |-> <<>>]
    /\ files = [p \in Node |-> {}]
    /\ runner = [at |-> "bootstrap", index |-> 0, n |-> 0]
    /\ code = 0
    /\ result = [p \in Node |-> "none"]

----------------------------------------------------------------------------
\* The script of node p goes on at l.
Goto(p, l) == at' = [at EXCEPT ![p] = l]

\* The script fails (set -e): the shutdown trap stops bitcoind, the container
\* ends, and its tmpfs is gone.
Exit(p) ==
    /\ Goto(p, "exited")
    /\ up' = up \ {p}
    /\ files' = [files EXCEPT ![p] = {}]
    /\ UNCHANGED <<chain, height, tip, runner, code, result>>

\* wait_for_all_rpc and wait_for_peer_mesh
WaitForMesh(p) ==
    /\ at[p] = "boot"
    /\ up = Node
    /\ Goto(p, "start")
    /\ UNCHANGED <<up, chain, height, tip, files, runner, code, result>>

\* Faulty: after a block, the height before it.
AwaitedBefore(p) ==
    CASE at[p] = "start"  -> BootstrapStart(p) - 1
      [] at[p] = "mined"  -> height[p] - 1
      [] at[p] = "end"    -> BootstrapEnd(p)
      [] at[p] = "verify" -> BOOTSTRAP_TARGET_HEIGHT

\* The height node p waits for in wait_for_exact_bootstrap_height.
Awaited(p) ==
    CASE at[p] = "start"  -> BootstrapStart(p) - 1
      [] at[p] = "mined"  -> height[p]
      [] at[p] = "end"    -> BootstrapEnd(p)
      [] at[p] = "verify" -> BOOTSTRAP_TARGET_HEIGHT

Awaiting(p) == at[p] \in {"start", "mined", "end", "verify"}

\* getblockcount gives the awaited height.
HeightReached(p) ==
    /\ Awaiting(p) /\ p \in up
    /\ Len(chain[p]) = Awaited(p)

\* Faulty: the first wait is left out.
NextBlockAtOnce(p) ==
    /\ at[p] = "start" \/ (at[p] = "mined" /\ HeightReached(p))
    /\ LET next == IF at[p] = "start" THEN height[p] ELSE height[p] + 1
       IN  /\ height' = [height EXCEPT ![p] = next]
           /\ Goto(p, IF next <= BootstrapEnd(p) THEN "mine" ELSE "end")
    /\ UNCHANGED <<up, chain, tip, files, runner, code, result>>

\* mine_bootstrap_share goes on after a wait: the next block of the range, or
\* the last wait.
NextBlock(p) ==
    /\ at[p] \in {"start", "mined"}
    /\ HeightReached(p)
    /\ LET next == IF at[p] = "start" THEN height[p] ELSE height[p] + 1
       IN  /\ height' = [height EXCEPT ![p] = next]
           /\ Goto(p, IF next <= BootstrapEnd(p) THEN "mine" ELSE "end")
    /\ UNCHANGED <<up, chain, tip, files, runner, code, result>>

\* mine_blocks 1, on top of the node's own tip; it fails without bitcoind.
MineBlock(p) ==
    /\ at[p] = "mine" /\ p \in up
    /\ chain' = [chain EXCEPT ![p] = Append(@, p)]
    /\ Goto(p, "mined")
    /\ UNCHANGED <<up, height, tip, files, runner, code, result>>

ShareMined(p) ==
    /\ at[p] = "end"
    /\ HeightReached(p)
    /\ Goto(p, "verify")
    /\ UNCHANGED <<up, chain, height, tip, files, runner, code, result>>

verify_local_initial_state(p) ==
    /\ at[p] = "verify"
    /\ HeightReached(p)
    /\ tip' = [tip EXCEPT ![p] = SubSeq(chain[p], 1, BOOTSTRAP_TARGET_HEIGHT)]
    /\ Goto(p, "record")
    /\ UNCHANGED <<up, chain, height, files, runner, code, result>>

record_initial_state(p) ==
    /\ at[p] = "record"
    /\ files' = [files EXCEPT ![p] = @ \cup {"initial-state.ready"}]
    /\ Goto(p, "release")
    /\ UNCHANGED <<up, chain, height, tip, runner, code, result>>

\* "Bootstrap chain passed expected height"
HeightPassed(p) ==
    /\ Awaiting(p) /\ p \in up
    /\ Len(chain[p]) > Awaited(p)
    /\ Exit(p)

\* A wait of the bootstrap times out, or no block could be mined.
BootstrapFails(p) ==
    /\ at[p] \in {"boot", "mine"} \/ Awaiting(p)
    /\ Exit(p)

\* wait_for_scenario_release looks for the file before it looks for bitcoind.
wait_for_scenario_release(p) ==
    /\ at[p] = "release"
    /\ \/ /\ "scenario.start" \in files[p]
          /\ Goto(p, "prepare")
          /\ UNCHANGED <<up, chain, height, tip, files, runner, code, result>>
       \/ /\ "scenario.start" \notin files[p] /\ p \notin up
          /\ Exit(p)

----------------------------------------------------------------------------
\* fund_all_node_wallets, on the first node only: addresses of all the others,
\* and one block.
fund_all_node_wallets(p) ==
    /\ at[p] = "prepare"
    /\ p \in up
    /\ SubSeq(chain[p], 1, BOOTSTRAP_TARGET_HEIGHT) = tip[p]
    /\ IF p = 0 THEN up = Node /\ chain' = [chain EXCEPT ![p] = Append(@, p)]
       ELSE UNCHANGED chain
    /\ Goto(p, "funded")
    /\ UNCHANGED <<up, height, tip, files, runner, code, result>>

\* wait_for_spendable_balance: the funding block, or an own reward that is old
\* enough.
Spendable(p) ==
    \/ Len(chain[p]) > BOOTSTRAP_TARGET_HEIGHT
    \/ /\ BootstrapStart(p) <= BootstrapEnd(p)
       /\ BootstrapStart(p) + COINBASE_MATURITY <= Len(chain[p])

Prepared(p) ==
    /\ at[p] = "funded"
    /\ Spendable(p)
    /\ up = Node  \* prepare_transaction_targets
    /\ files' = [files EXCEPT ![p] = @ \cup {"scenario.prepared"}]
    /\ Goto(p, "prepared")
    /\ UNCHANGED <<up, chain, height, tip, runner, code, result>>

wait_for_activity_release(p) ==
    /\ at[p] = "prepared"
    /\ "activity.start" \in files[p]
    /\ Goto(p, "active")
    /\ UNCHANGED <<up, chain, height, tip, files, runner, code, result>>

\* The scenario script ends: execute_scenario writes scenario.status.
ScenarioEnds(p, status) ==
    /\ \/ at[p] = "active" /\ (status = "success" => p \in up)
       \/ at[p] \in {"prepare", "funded"} /\ status = "failure"
       \/ /\ at[p] = "prepared" /\ status = "failure"
          /\ "activity.start" \notin files[p] /\ p \notin up
    /\ result' = [result EXCEPT ![p] = status]
    /\ files' = [files EXCEPT ![p] = @ \cup {"scenario.status"}]
    /\ Goto(p, "ended")
    /\ UNCHANGED <<up, chain, height, tip, runner, code>>

ScenarioDone(p) ==
    /\ at[p] = "ended"
    /\ files' = [files EXCEPT ![p] = @ \cup {"scenario.done"}]
    /\ Goto(p, "done")
    /\ UNCHANGED <<up, chain, height, tip, runner, code, result>>

\* "keeping the node alive for result collection"
KeepAliveEnds(p) ==
    /\ at[p] = "done" /\ p \notin up
    /\ Exit(p)

----------------------------------------------------------------------------
\* bitcoind exits by itself.
BitcoindExits(p) ==
    /\ p \in up \cap Fragile
    /\ up' = up \ {p}
    /\ UNCHANGED <<at, chain, height, tip, files, runner, code, result>>

\* external: node p receives blocks of a longer chain from q.
Receive(p, q) ==
    /\ {p, q} \subseteq up
    /\ \E k \in Len(chain[p]) + 1 .. Len(chain[q]) :
          chain' = [chain EXCEPT ![p] = SubSeq(chain[q], 1, k)]
    /\ UNCHANGED <<at, up, height, tip, files, runner, code, result>>
----------------------------------------------------------------------------
\* What a polling loop of run.sh waits for.
Polled ==
    [bootstrap   |-> "initial-state.ready",
     preparation |-> "scenario.prepared",
     completion  |-> "scenario.done"]

Polling == runner.at \in DOMAIN Polled

\* The loops of run.sh in their order.
Following ==
    [bootstrap |-> "verification", verification |-> "release", release |-> "preparation",
     preparation |-> "activity", activity |-> "completion", completion |-> "results"]

ToLoop(l) == runner' = [at |-> l, index |-> 0, n |-> 0]

\* exit: the EXIT trap runs cleanup.
RunnerExit(status) ==
    /\ ToLoop("cleanup")
    /\ code' = status

\* The body of a polling loop for one service.  A missing file is an error if
\* the node has failed or its container has ended.
Poll ==
    /\ Polling /\ runner.index < NodeCount
    /\ LET p == runner.index
           there == Polled[runner.at] \in files[p]
           failed == runner.at = "preparation" /\ "scenario.done" \in files[p]
       IN  IF ~there /\ (failed \/ at[p] = "exited") THEN RunnerExit(6)
           ELSE /\ runner' = [runner EXCEPT !.index = @ + 1,
                                           !.n = IF there THEN @ + 1 ELSE @]
                /\ UNCHANGED code
    /\ UNCHANGED nodes

\* Faulty: services counted in earlier rounds stay counted.
CountKept ==
    /\ Polling /\ runner.index = NodeCount
    /\ IF runner.n >= NodeCount THEN ToLoop(Following[runner.at])
       ELSE runner' = [runner EXCEPT !.index = 0]
    /\ UNCHANGED <<nodes, code>>

\* The end of a round: all services were there, or poll again.
RoundEnds ==
    /\ Polling /\ runner.index = NodeCount
    /\ IF runner.n = NodeCount THEN ToLoop(Following[runner.at]) ELSE ToLoop(runner.at)
    /\ UNCHANGED <<nodes, code>>


\* The deadline is looked at after a round that was not complete.
DeadlinePassed ==
    /\ Polling /\ runner.index = NodeCount /\ runner.n < NodeCount
    /\ RunnerExit(7)
    /\ UNCHANGED nodes

\* Compare the recorded state of a service with that of the first; the file of
\* a container that has ended cannot be read, which ends run.sh too.
VerifyState ==
    /\ runner.at = "verification" /\ runner.index < NodeCount
    /\ LET p == runner.index
       IN  IF at[p] = "exited" THEN RunnerExit(1)
           ELSE IF tip[p] # tip[0] THEN RunnerExit(7)
           ELSE runner' = [runner EXCEPT !.index = @ + 1] /\ UNCHANGED code
    /\ UNCHANGED nodes

\* release_container_scenario, release_container_activity: docker exec fails
\* if the container has ended.
ReleaseContainer ==
    /\ runner.at \in {"release", "activity"} /\ runner.index < NodeCount
    /\ LET p == runner.index
           file == IF runner.at = "release" THEN "scenario.start" ELSE "activity.start"
       IN  IF at[p] = "exited" THEN RunnerExit(1) /\ UNCHANGED files
           ELSE /\ files' = [files EXCEPT ![p] = @ \cup {file}]
                /\ runner' = [runner EXCEPT !.index = @ + 1]
                /\ UNCHANGED code
    /\ UNCHANGED <<at, up, chain, height, tip, result>>

\* The loops over the services that are done once.
LoopEnds ==
    /\ runner.at \in {"verification", "release", "activity"} /\ runner.index = NodeCount
    /\ ToLoop(Following[runner.at])
    /\ UNCHANGED <<nodes, code>>

\* Faulty: a status that cannot be read is no failure.
ReadStatusLenient ==
    /\ runner.at = "results" /\ runner.index < NodeCount
    /\ LET p == runner.index
           read == "scenario.status" \in files[p]
       IN  code' = IF read /\ result[p] # "success" THEN 1 ELSE code
    /\ runner' = [runner EXCEPT !.index = @ + 1]
    /\ UNCHANGED nodes

\* Read the status of a service; one that cannot be read counts as 125.
ReadStatus ==
    /\ runner.at = "results" /\ runner.index < NodeCount
    /\ LET p == runner.index
       IN  code' = IF "scenario.status" \in files[p] /\ result[p] = "success"
                   THEN code ELSE 1
    /\ runner' = [runner EXCEPT !.index = @ + 1]
    /\ UNCHANGED nodes

\* The markers in the logs may be missing, too.
Verdict(marked) ==
    /\ runner.at = "results" /\ runner.index = NodeCount
    /\ RunnerExit(IF code = 0 /\ marked THEN 0 ELSE 8)
    /\ UNCHANGED nodes

\* The traps for INT and TERM.
Interrupted ==
    /\ runner.at \notin {"cleanup", "stopped"}
    /\ RunnerExit(130)
    /\ UNCHANGED nodes

\* docker stop and compose down
cleanup ==
    /\ runner.at = "cleanup"
    /\ runner' = [runner EXCEPT !.at = "stopped"]
    /\ at' = [p \in Node |-> "exited"]
    /\ up' = {}
    /\ files' = [p \in Node |-> {}]
    /\ UNCHANGED <<chain, height, tip, code, result>>

----------------------------------------------------------------------------
\* One step of the scripts of node p.
NodeStep(p) ==
    \/ WaitForMesh(p) \/ NextBlock(p) \/ MineBlock(p) \/ ShareMined(p)
    \/ verify_local_initial_state(p) \/ record_initial_state(p)
    \/ HeightPassed(p) \/ BootstrapFails(p)
    \/ wait_for_scenario_release(p)
    \/ fund_all_node_wallets(p) \/ Prepared(p) \/ wait_for_activity_release(p)
    \/ \E status \in {"success", "failure"} : ScenarioEnds(p, status)
    \/ ScenarioDone(p) \/ KeepAliveEnds(p)

RunnerStep ==
    \/ Poll \/ RoundEnds \/ VerifyState \/ ReleaseContainer \/ LoopEnds
    \/ ReadStatus \/ \E marked \in BOOLEAN : Verdict(marked)
    \/ cleanup

Next ==
    \/ \E p \in Node : NodeStep(p) \/ BitcoindExits(p)
    \/ \E p, q \in Node : Receive(p, q)
    \/ RunnerStep
    \/ DeadlinePassed
    \/ Interrupted

Spec == Init /\ [][Next]_vars

\* run.sh goes on, and a loop that never completes reaches its deadline.
FairSpec ==
    /\ Spec
    /\ WF_vars(RunnerStep)
    /\ SF_vars(DeadlinePassed)

----------------------------------------------------------------------------
Bootstrapping == {"boot", "start", "mine", "mined", "end", "verify", "record"}

(***************************************************************************)
(* The nodes mine one initial chain, in turn: up to the target height no   *)
(* two nodes ever have different blocks, and each block was mined by the   *)
(* node whose calculate_bootstrap_range has its height.  So the check of   *)
(* run.sh that all nodes report the same hash never fails.                 *)
(***************************************************************************)
OneInitialChain ==
    \A p, q \in Node : \A h \in 1 .. BOOTSTRAP_TARGET_HEIGHT :
        (h <= Len(chain[p]) /\ h <= Len(chain[q]))
            => /\ chain[p][h] = chain[q][h]
               /\ h \in BootstrapStart(chain[p][h]) .. BootstrapEnd(chain[p][h])

(***************************************************************************)
(* The readiness barrier: as long as a node is still bootstrapping, no     *)
(* other has begun its scenario, and there is no block above the target    *)
(* height, which would make wait_for_exact_bootstrap_height of the slower  *)
(* node fail.  The same for the activity: while a node is preparing, no    *)
(* other is active.                                                        *)
(***************************************************************************)
BarriersHold ==
    \A p, q \in Node :
        /\ at[p] \in Bootstrapping
               => /\ at[q] \in Bootstrapping \cup {"release", "exited"}
                  /\ Len(chain[q]) <= BOOTSTRAP_TARGET_HEIGHT
        /\ at[p] \in {"prepare", "funded"} => at[q] # "active"

(***************************************************************************)
(* A node gives up because "Bootstrap chain passed expected height" only   *)
(* when it waits for the last height of its own share: the next node may   *)
(* mine on before the wait looks again.  Everywhere else the exact height  *)
(* cannot be missed.                                                       *)
(***************************************************************************)
PassedOnlyAtOwnEnd ==
    \A p \in Node :
        (Awaiting(p) /\ Len(chain[p]) > Awaited(p)) => Awaited(p) = BootstrapEnd(p)

(***************************************************************************)
(* run.sh exits with 0 only if the scenario of every node ended with       *)
(* success, whatever nodes ended, and however late, while it polled.       *)
(***************************************************************************)
PassMeansSuccess ==
    (runner.at = "stopped" /\ code = 0) => \A p \in Node : result[p] = "success"

===============================================================================
