---------------------------- MODULE MCSignalBroker ----------------------------
(* Instances of SignalBroker for TLC.                                        *)
EXTENDS SignalBroker, TLC

Interchangeable == Permutations(Node) \cup Permutations(Topic)
                   \cup Permutations(Stream) \cup Permutations(Signal)
===============================================================================
