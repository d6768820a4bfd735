-------------------------- MODULE MCBenchmarkRunner --------------------------
(* Four of the ten benchmarks, three of them in the simple suite; files are   *)
(* read in another order than they are written; one cell has no benchmark.    *)
EXTENDS BenchmarkRunner

MCSorted == <<"barrier", "counter_atomic", "counter_mutex", "rw_shared_mutex">>
MCSimpleSuite == <<"counter_mutex", "counter_atomic", "rw_shared_mutex">>
MCFullSuite == MCSimpleSuite \o <<"barrier">>

MCFunctions ==
    [barrier         |-> <<"StdBarrier_WithWork", "ManualBarrier_WithWork">>,
     counter_atomic  |-> <<"Counter_Atomic_SeqCst", "Counter_Atomic_Relaxed">>,
     counter_mutex   |-> <<"Counter_Mutex_Hot">>,
     rw_shared_mutex |-> <<"SharedMutex_ReadHeavy", "ExclusiveMutex_ReadHeavy">>]
MCArgs == <<1, 8>>
MCFilter ==
    [counter_atomic  |-> "Counter_Atomic_Relaxed",
     counter_mutex   |-> "Counter_Mutex_Hot",
     rw_shared_mutex |-> "SharedMutex_ReadHeavy"]

Rule(workload, patterns) == {[workload |-> workload, pattern |-> p] : p \in patterns}
MCCells ==
    UNION {Rule("W.counter.hot", {"Counter_Mutex_Hot", "Counter_Atomic_Relaxed"}),
           Rule("W.atomic.mo", {"Counter_Atomic_SeqCst", "Counter_Atomic_Relaxed"}),
           Rule("W.rwlock.read_heavy", {"SharedMutex_ReadHeavy", "ExclusiveMutex_ReadHeavy"}),
           Rule("W.pc.bounded", {"PC_CondVar"}),
           Rule("W.barrier.phases", {"StdBarrier_WithWork", "ManualBarrier_WithWork"})}
=============================================================================
