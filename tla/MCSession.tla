------------------------------ MODULE MCSession ------------------------------
EXTENDS HostRun

MCSize == [m \in Messages |->
    CASE m = "progress" -> 1 [] m = "differencing" -> 5 [] m = "l2 entry" -> 4
      [] m = "start" -> 0 [] m = "result" -> 4
      [] m = "complete" -> 2 [] m = "panic" -> 3 [] m = "exception" -> 2
      [] OTHER -> 7]
MCPay == [m \in Messages |-> [i \in 1..MaxMessage |-> (i + MCSize[m]) % Base]]
=============================================================================
