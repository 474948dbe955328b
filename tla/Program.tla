------------------------------ MODULE Program -------------------------------
(***************************************************************************)
(* The process (src/cmd/tturl: main.go, help.go, catalogue.go, time.go):   *)
(* the first argument selects what answers, and the process leaves with a  *)
(* status.  The demo server (DemoServer) and the preparation of a request  *)
(* command (RequestBlocks) run here; what a request command does with the  *)
(* requests it has prepared is CommandRun, DetectRun and TimingCampaign.   *)
(***************************************************************************)
EXTENDS DemoServer, RequestBlocks

CONSTANT Utilities   \* first arguments that are answered on the spot, with the rest

ASSUME UtilityAssumption == \A u \in Utilities : u.command \notin {"demo-server", "request"}

VARIABLES
  invocation,  \* the command, and what an utility's remaining arguments come to
  status       \* the exit status, -1 while the process runs

programVars == <<invocation, status, demoVars, blockVars>>

NoScenario == [load |-> "none", flags |-> [rtt |-> 0]]
NoJob == [command |-> "none", files |-> <<>>]

Init ==
  /\ status = -1
  /\ \/ invocation = [command |-> "demo-server"] /\ DemoInit(Scenarios) /\ BlocksInit({NoJob})
     \/ invocation = [command |-> "request"] /\ DemoInit({NoScenario}) /\ BlocksInit(Jobs)
     \/ invocation \in Utilities /\ DemoInit({NoScenario}) /\ BlocksInit({NoJob})

\* The utilities: help and version answer on standard output, where a write can
\* fail; anything else is a diagnostic on standard error.
Answers(i) ==
  \/ i.command \in {"--help", "--version"}
  \/ i.command = "version" /\ i.rest = "none"
  \/ i.command = "help" /\ i.rest \in {"none", "topic"}
Utility ==
  /\ invocation \in Utilities /\ status = -1
  /\ \/ Answers(invocation) /\ status' \in {0, 1}
     \/ ~Answers(invocation) /\ invocation.command = "" /\ status' \in {1, 2}
     \/ ~Answers(invocation) /\ invocation.command # "" /\ status' = 2
  /\ UNCHANGED <<invocation, demoVars, blockVars>>

ServeDemo ==
  /\ invocation.command = "demo-server" /\ status = -1
  /\ DemoNext
  /\ status' = IF stage' # "exited" THEN -1
               ELSE CASE result' = "nil" -> 0 [] result' = "usage" -> 2 [] OTHER -> 1
  /\ UNCHANGED <<invocation, blockVars>>

\* How a request command whose preparation ends exits: help and version are
\* answers, a bad command line is a usage error, and so is any failure of time;
\* a command that has its requests goes on.
PrepareStatus(from, reason) ==
  CASE reason = "none" -> {-1}
    [] reason \in {"help", "version"} -> {0, 1}
    [] from = "parse" \/ job.command = "time" \/ reason = "no measured request" -> {2}
    [] OTHER -> {1}
PrepareRequests ==
  /\ invocation.command = "request" /\ status = -1
  /\ BlocksNext
  /\ status' \in PrepareStatus(at, why')
  /\ UNCHANGED <<invocation, demoVars>>

Exited == (status >= 0 \/ at = "done") /\ UNCHANGED programVars

Next == Utility \/ ServeDemo \/ PrepareRequests \/ Exited
Spec == Init /\ [][Next]_programVars
=============================================================================
