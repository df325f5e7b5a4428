--------------------------------- MODULE Examples ---------------------------------
(***************************************************************************)
(* A device with one of the example applications: large-request, with a    *)
(* buffer of some size, or devboard-demo.  Its user gives at most          *)
(* MaxCommands commands.                                                   *)
(***************************************************************************)
EXTENDS LargeRequest, DevboardDemo

CONSTANTS MaxCommands, Sizes

ASSUME ExamplesAssumption == MaxCommands \in Nat /\ Sizes \subseteq Nat \ {0}

VARIABLES app, commands

vars == <<libVars, largeVars, demoVars, app, commands>>

TypeOK ==
    /\ app \in {"large_request", "devboard_demo"}
    /\ commands \in 0 .. MaxCommands
    /\ link \in LinkState
    /\ request \in RequestState
    /\ {pos, got} \subseteq 0 .. size
    /\ complete \in BOOLEAN
    /\ busy \in [OpIds -> BOOLEAN]
    /\ DemoTypeOK

Init ==
    /\ app \in {"large_request", "devboard_demo"}
    /\ commands = 0
    /\ LibInit
    /\ LargeInit(IF app = "large_request" THEN Sizes ELSE {1})
    /\ DemoInit

Command ==
    /\ commands < MaxCommands
    /\ commands' = commands + 1
    /\ UNCHANGED app
    /\ \/ /\ app = "large_request"
          /\ LargeInitiateCommand \/ LargeSendCommand
          /\ UNCHANGED demoVars
       \/ /\ app = "devboard_demo"
          /\ RequestCommand \/ PingCommand \/ AnnounceCommand \/ OnInput
          /\ UNCHANGED largeVars

Large == app = "large_request" /\ LargeNext /\ UNCHANGED <<demoVars, app, commands>>
Demo  == app = "devboard_demo" /\ DemoNext /\ UNCHANGED <<largeVars, app, commands>>

Next == Command \/ Large \/ Demo

(* The library's work, main, the LED's thread and the timer go on; a       *)
(* connection that is being ended ends.                                    *)
Spec ==
    /\ Init /\ [][Next]_vars
    /\ WF_vars(Large /\ ~ LinkDown)
    /\ WF_vars(Large /\ link = "ending")
    /\ WF_vars(Demo /\ DemoLed)
    /\ WF_vars(Demo /\ DemoGives)
    /\ WF_vars(Demo /\ (ShowsConnecting \/ StartsTimer))
    /\ WF_vars(Demo /\ AnnounceTimeout)

------------------------------------------------------------------------------

(* The buffer is uploaded whole and in order, no operation is lent twice.  *)
WholeUploads == TypeOK /\ (app = "large_request" => UploadWhole)

(* While the library has refused no operation, an upload that was          *)
(* submitted is over some day, by its completion or the end of the         *)
(* connection.  A refusal excludes the uploads that come after it, too.    *)
UploadsEnd ==
    (app = "large_request" /\ request = "submitted") ~> (request # "submitted" \/ refused)
====================================================================================
