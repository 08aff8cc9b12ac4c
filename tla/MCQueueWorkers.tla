--------------------------- MODULE MCQueueWorkers ---------------------------
(* The instance of MCQueueClients with two wires, so that a result under the  *)
(* wrong tag shows, and a worker outside.                                     *)
EXTENDS QueueWorkers, MCQueueClients

MCTwoWires == {"w_1", "w_2"}
MCTwoWiresNames == MCTwoWires \X {"", "_lagrange", "_fft"}
==============================================================================
