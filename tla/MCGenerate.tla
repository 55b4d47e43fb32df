----------------------------- MODULE MCGenerate -----------------------------
(***************************************************************************)
(* Two packages, each switch on and off, sources that change once, one run *)
(* that is killed or one removal that fails.                               *)
(***************************************************************************)
EXTENDS Generate

CONSTANTS A, B

MCTempKeys == <<A, B>>

MCConfigs ==
  {[GenTests |-> t, GenVersion |-> v, KeepTemp |-> k, defaultName |-> d] :
     <<t, v, k, d>> \in {<<TRUE, FALSE, FALSE, TRUE>>, <<TRUE, FALSE, FALSE, FALSE>>,
                        <<FALSE, TRUE, FALSE, TRUE>>, <<FALSE, FALSE, TRUE, TRUE>>}}

\* What NewConfig gives, with and without the tests.
DefaultConfigs ==
  {[GenTests |-> t, GenVersion |-> FALSE, KeepTemp |-> FALSE, defaultName |-> TRUE] :
     t \in BOOLEAN}
=============================================================================
