------------------------------- MODULE SdkPane -------------------------------
(***************************************************************************)
(* The SDK pane of the demo page's inspector (public/assets/inspector.js)  *)
(* and the loader behind it (sdk-loader.js): the visitor loads a           *)
(* provider's script with credentials of their own and sees its button,    *)
(* and meanwhile may choose another payment method, another tab or other   *)
(* credentials.  The payment methods of this instance share one global, as *)
(* PayPal, Pay Later and Venmo do; the credentials are in the script's URL.*)
(***************************************************************************)
EXTENDS Naturals, FiniteSets

CONSTANTS
  Apms,      \* payment methods whose script is of one provider
  Device,    \* those that need no script (Apple Pay)
  First,     \* the first of the catalog, which boot() selects
  Creds,
  Tabs,      \* of the inspector; one is "sdk"
  SdkLoads,  \* bound: submits of the form
  MaxMoves   \* bound: choices of a payment method or a tab

ASSUME SdkPaneAssumption ==
  Apms \cap Device = {} /\ First \in Apms \cup Device /\ "sdk" \in Tabs

VARIABLES
  apm, activeTab,
  mounted,    \* what the pane's button mount holds: nothing, "Loading", an
              \* error, or the button of a payment method and the credentials
              \* of the global that drew it
  line,       \* the status line of the pane: a status
  loadState,  \* of each payment method: idle, loading, loaded, failed
  scripts,    \* each URL: none, fetching, ran, failed
  global,     \* window.paypal: the credentials of the script that ran last
  sdkLoad,    \* each submit: where it is, for whom, and whether the mounts it
              \* holds are still the ones on the page
  live,       \* the LIVE badge on the Callbacks tab
  moves

paneVars ==
  <<apm, activeTab, mounted, line, loadState, scripts, global, sdkLoad, live, moves>>

Urls == Apms \X Creds
All == Apms \cup Device

Nothing == [kind |-> "nothing"]
Note(kind) == [kind |-> kind]
Button(a, creds) == [kind |-> "button", apm |-> a, creds |-> creds]

-----------------------------------------------------------------------------
(* renderSdkPane rewrites the pane: mounts that were handed out hang loose,*)
(* and the status line is that of the payment method now shown.            *)
Detached == [l \in SdkLoads |-> [sdkLoad[l] EXCEPT !.attached = FALSE]]

Rerendered(tab, status) ==
  IF tab = "sdk"
  THEN mounted' = Nothing /\ line' = status /\ sdkLoad' = Detached
  ELSE UNCHANGED <<mounted, line, sdkLoad>>

(* Inspector.load and setTab, each of which renders the active tab.        *)
load(a) ==
  /\ moves < MaxMoves /\ moves' = moves + 1
  /\ apm' = a
  /\ Rerendered(activeTab, loadState[a])
  /\ live' = (loadState[a] = "loaded")
  /\ UNCHANGED <<activeTab, loadState, scripts, global>>

setTab(tab) ==
  /\ moves < MaxMoves /\ moves' = moves + 1
  /\ activeTab' = tab
  /\ Rerendered(tab, loadState[apm])
  /\ UNCHANGED <<apm, loadState, scripts, global, live>>

-----------------------------------------------------------------------------
(* Mutant: the mounts are looked up again when there is something to show. *)
WritesAnywhere(l, what) ==
  mounted' = IF activeTab = "sdk" THEN what ELSE mounted

(* A load writes into its mounts, which are on the page or are not.        *)
Writes(l, what) ==
  mounted' = IF sdkLoad[l].attached THEN what ELSE mounted

Step(l, phase) == sdkLoad' = [sdkLoad EXCEPT ![l].phase = phase]

(* The submit handler up to its await: injectScript remembers a URL for    *)
(* good, also one that failed.                                             *)
Submit(l, creds) ==
  /\ activeTab = "sdk" /\ apm \in Apms /\ sdkLoad[l].phase = "idle"
  /\ sdkLoad' = [sdkLoad EXCEPT ![l] =
       [phase |-> "injecting", apm |-> apm, creds |-> creds, attached |-> TRUE]]
  /\ mounted' = Note("loading") /\ line' = "loading"
  /\ loadState' = [loadState EXCEPT ![apm] = "loading"]
  /\ scripts' = [scripts EXCEPT ![<<apm, creds>>] = IF @ = "none" THEN "fetching" ELSE @]
  /\ UNCHANGED <<apm, activeTab, global, live, moves>>

(* Apple Pay has no script: its global is on the device or is not.  The    *)
(* badge is of whoever is chosen.                                          *)
Probe(l, present) ==
  /\ activeTab = "sdk" /\ apm \in Device /\ sdkLoad[l].phase = "idle"
  /\ Step(l, "done")
  /\ mounted' = IF present THEN Button(apm, "device") ELSE Note("loading")
  /\ line' = IF present THEN "loaded" ELSE "failed"
  /\ loadState' = [loadState EXCEPT ![apm] = line']
  /\ live' = present
  /\ UNCHANGED <<apm, activeTab, scripts, global, moves>>

(* The script runs and may or may not define the global; or its fetch      *)
(* fails.                                                                  *)
ScriptRuns(url, defines) ==
  /\ scripts[url] = "fetching"
  /\ scripts' = [scripts EXCEPT ![url] = "ran"]
  /\ global' = IF defines THEN url[2] ELSE global
  /\ UNCHANGED <<apm, activeTab, mounted, line, loadState, sdkLoad, live, moves>>

ScriptFails(url) ==
  /\ scripts[url] = "fetching"
  /\ scripts' = [scripts EXCEPT ![url] = "failed"]
  /\ UNCHANGED <<apm, activeTab, mounted, line, loadState, global, sdkLoad, live, moves>>

Url(l) == <<sdkLoad[l].apm, sdkLoad[l].creds>>

(* updateSdkStatusInPlace looks the status line up again: that of whatever *)
(* payment method the pane shows by now takes the status of this load.     *)
StatusInPlace(status) == line' = status

(* The end of a load that shows no button: the status of its payment       *)
(* method, and the line and badge of the one that is chosen by now.        *)
LoadOver(l, status) ==
  /\ StatusInPlace(status)
  /\ loadState' = [loadState EXCEPT ![sdkLoad[l].apm] = status]
  /\ Step(l, "done")
  /\ live' = (loadState'[apm] = "loaded")

(* Mutant: pollForGlobal has no timeout.                                   *)
PollTimesOutNever(l) == FALSE /\ l \in SdkLoads /\ UNCHANGED paneVars

(* The script failed, or pollForGlobal gives up; the mounts keep what they *)
(* show.                                                                   *)
InjectFails(l) ==
  /\ sdkLoad[l].phase = "injecting" /\ scripts[Url(l)] = "failed"
  /\ LoadOver(l, "failed")
  /\ UNCHANGED <<apm, activeTab, mounted, scripts, global, moves>>

PollTimesOut(l) ==
  /\ sdkLoad[l].phase = "injecting" /\ scripts[Url(l)] = "ran" /\ global = "none"
  /\ LoadOver(l, "failed")
  /\ UNCHANGED <<apm, activeTab, mounted, scripts, global, moves>>

(* pollForGlobal finds the global, whichever script brought it; the        *)
(* renderer takes it and empties the mount.                                *)
Loaded(l) ==
  /\ sdkLoad[l].phase = "injecting" /\ scripts[Url(l)] = "ran" /\ global # "none"
  /\ loadState' = [loadState EXCEPT ![sdkLoad[l].apm] = "loaded"]
  /\ sdkLoad' = [sdkLoad EXCEPT ![l].phase = "rendering", ![l].creds = global]
  /\ Writes(l, Nothing)
  /\ UNCHANGED <<apm, activeTab, line, scripts, global, live, moves>>

(* The provider draws its button or refuses: the load keeps its status.    *)
Rendered(l, ok) ==
  /\ sdkLoad[l].phase = "rendering"
  /\ StatusInPlace("loaded")
  /\ Writes(l, IF ok THEN Button(sdkLoad[l].apm, sdkLoad[l].creds) ELSE Note("error"))
  /\ Step(l, "done")
  /\ live' = (loadState[apm] = "loaded")
  /\ UNCHANGED <<apm, activeTab, loadState, scripts, global, moves>>

(* unloadProviderSdk stops no load that is under way.                      *)
Unload ==
  /\ activeTab = "sdk" /\ moves < MaxMoves /\ moves' = moves + 1
  /\ loadState' = [loadState EXCEPT ![apm] = "idle"]
  /\ Rerendered("sdk", "idle")
  /\ UNCHANGED <<apm, activeTab, scripts, global, live>>

-----------------------------------------------------------------------------
PaneInit ==
  /\ apm = First /\ activeTab \in Tabs \ {"sdk"}
  /\ mounted = Nothing /\ line = "idle"
  /\ loadState = [a \in All |-> "idle"]
  /\ scripts = [url \in Urls |-> "none"] /\ global = "none"
  /\ sdkLoad = [l \in SdkLoads |->
       [phase |-> "idle", apm |-> apm, creds |-> "none", attached |-> FALSE]]
  /\ live = FALSE /\ moves = 0

Fetched ==
  \E url \in Urls : ScriptFails(url) \/ \E defines \in BOOLEAN : ScriptRuns(url, defines)

Continues(l) == InjectFails(l) \/ PollTimesOut(l) \/ Loaded(l)

Visitor ==
  \/ \E tab \in Tabs : setTab(tab)
  \/ \E l \in SdkLoads :
       \/ \E creds \in Creds : Submit(l, creds)
       \/ \E present \in BOOLEAN : Probe(l, present)
  \/ Unload

-----------------------------------------------------------------------------
(* The button on the page belongs to the payment method the inspector      *)
(* shows: a load that ends after the visitor has gone on to another one    *)
(* does not draw into that one's pane (inspector.js renderSdkPane,         *)
(* mounts).  This is of the button alone: the status line does take the    *)
(* status of such a load (StatusInPlace).                                  *)
ButtonOfItsApm ==
  activeTab = "sdk" /\ mounted.kind = "button" => mounted.apm = apm

(* A payment method does not stay "loading", whether its script fails,     *)
(* defines nothing or was asked for before; nor does the status line,      *)
(* whichever load wrote it last, unless a provider does not come to an end *)
(* with its drawing (sdk-loader.js loadProviderSdk, inspector.js           *)
(* renderSdkPane).                                                         *)
LoadEnds ==
  /\ \A a \in All : loadState[a] = "loading" ~> loadState[a] # "loading"
  /\ line = "loading"
       ~> line # "loading" \/ \E l \in SdkLoads : sdkLoad[l].phase = "rendering"

=============================================================================
