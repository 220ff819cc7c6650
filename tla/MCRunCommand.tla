------------------------------ MODULE MCRunCommand ------------------------------
(***************************************************************************)
(* Instances of RunCommand for TLC.  Two runners; the first one's limit    *)
(* and request_concurrency, and `concurrent`, change between files, and    *)
(* one file has `concurrent = 0`.                                          *)
(***************************************************************************)
EXTENDS RunCommand, TLC

CONSTANTS t1, t2, w1, w2

MCTokens == {t1, t2}

strict   == [token |-> t1, limit |-> 1, requestConcurrency |-> 0]
generous == [token |-> t1, limit |-> 0, requestConcurrency |-> 1]
single   == [token |-> t2, limit |-> 1, requestConcurrency |-> 2]
MCRunnerConfigs == {strict, generous, single}

MCConfigs ==
  {[concurrent |-> 2, runners |-> <<generous, single>>],
   [concurrent |-> 1, runners |-> <<strict>>],
   [concurrent |-> 0, runners |-> <<>>]}

\* One runner and a pool of two, for the shutdown.
MCStopRunnerConfigs == {generous}
MCStopConfigs == {[concurrent |-> 2, runners |-> <<generous>>]}

\* The same with a limit of one, for liveness.
MCLiveRunnerConfigs == {strict}
MCLiveConfigs == {[concurrent |-> 2, runners |-> <<strict>>]}

MCSymmetry == Permutations(Workers)
=============================================================================
