------------------------------ MODULE DemoPages ------------------------------
(***************************************************************************)
(* The demo page of the reference server (public/assets/app.js): the       *)
(* inspector with its scenario runner, its SDK pane and its trace console, *)
(* the docs and the "V1 Legacy" mode, whose pages call the v1 server's     *)
(* sandbox routes while the view polls.                                    *)
(***************************************************************************)
EXTENDS ScenarioRunner, V1View, SdkPane, TraceConsole

ASSUME DemoAssumption == All \subseteq Range(Catalog) /\ First = Head(Catalog)

VARIABLES
  mode,   \* inspector, docs, v1
  visit   \* what the visitor has come for: the scenarios, the SDK pane, the
          \* trace console, the V1 mode or the sandbox calls of its pages.
          \* The panes share the payment method, the last two the log the
          \* mocks write to, and one visit follows one of them

demoVars ==
  <<mode, visit, runnerVars, viewVars, sandboxVars, paneVars, consoleVars>>

Others(part) ==
  /\ UNCHANGED <<mode, visit>>
  /\ part # "runner" => UNCHANGED runnerVars
  /\ part # "view" => UNCHANGED viewVars
  /\ part # "sandbox" => UNCHANGED sandboxVars
  /\ part # "pane" => UNCHANGED paneVars
  /\ part # "console" => UNCHANGED consoleVars

(* The mode toggle: every click on "V1 Legacy" activates the view, also    *)
(* when it is active.                                                      *)
Toggle(to) ==
  /\ visit = "v1" /\ mode' = to
  /\ IF to = "v1"
     THEN \E a \in Activations : activate(a)
     ELSE to # mode /\ deactivate
  /\ UNCHANGED <<visit, runnerVars, sandboxVars, paneVars, consoleVars>>

(* Inspector.load, for a click in the catalog: every pane starts anew.     *)
Select(id) ==
  /\ visit \in {"sdk", "trace"}
  /\ load(id) /\ resetForApm(id)
  /\ UNCHANGED <<mode, visit, runnerVars, viewVars, sandboxVars>>

DemoInit ==
  /\ mode = "inspector" /\ visit \in {"scenarios", "sdk", "trace", "v1", "sandbox"}
  /\ RunnerInit /\ ViewInit /\ SandboxInit /\ PaneInit /\ ConsoleInit(First)
  /\ followed = "status" => visit = "v1"

DemoNext ==
  \/ \E to \in {"inspector", "docs", "v1"} : Toggle(to)
  \/ visit = "scenarios" /\ RunnerNext /\ Others("runner")
  \/ ViewStep /\ Others("view")
  \/ PollLost /\ UNCHANGED <<mode, visit, runnerVars, paneVars, consoleVars>>
  \/ visit = "sandbox" /\ SandboxStep /\ Others("sandbox")
  \/ /\ visit = "v1" /\ followed = "logs"
     /\ \E route \in MockRoutes : MockCall(route)
     /\ Others("sandbox")
  \/ \E id \in All : Select(id)
  \/ visit = "sdk" /\ Visitor /\ Others("pane")
  \/ visit = "trace" /\ (Choose \/ ConsoleStep) /\ Others("console")
  \/ /\ \/ Fetched
        \/ \E l \in SdkLoads : Continues(l) \/ \E ok \in BOOLEAN : Rendered(l, ok)
     /\ Others("pane")

(* Timers fire, promises resume, the servers answer, and a browser settles *)
(* what it fetches.  Nobody has to click anything, and a provider need not *)
(* come to an end with drawing its button.                                 *)
DemoFairness ==
  /\ RunnerFairness
  /\ \A a \in Activations : WF_demoVars(startPolling(a) /\ Others("view"))
  /\ WF_demoVars(Tick /\ Others("view"))
  /\ WF_demoVars(PollAnswered /\ Others("view"))
  /\ WF_demoVars((\E value \in polls : Render(value)) /\ Others("view"))
  /\ WF_demoVars(Fetched /\ Others("pane"))
  /\ \A l \in SdkLoads : WF_demoVars(Continues(l) /\ Others("pane"))

DemoSpec == DemoInit /\ [][DemoNext]_demoVars /\ DemoFairness

-----------------------------------------------------------------------------
(* A payment method chosen in the catalog is the one the trace console     *)
(* offers to run: the country and the currency it starts with are its own, *)
(* whatever the filter was before (trace-console.js resetForApm, render).  *)
(* Not so in capture mode MERCHANT, which may rule the method out.         *)
LoadedIsShown ==
  [][apm' # apm /\ captureMode = "GATEWAY" => apmId' = apm']_demoVars

=============================================================================
