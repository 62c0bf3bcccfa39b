------------------------------- MODULE Shells -------------------------------
(***************************************************************************)
(* The shells of the external portal and of the internal mobile client:    *)
(* what they know of the network, and what they show of the bootstrap      *)
(* calls of their ports.  A step is one callback of the browser, with the  *)
(* effects of the render it leads to.                                      *)
(*                                                                         *)
(* The portal's calls go through its load coordinator, whose generation    *)
(* grows when the connection is lost; the mobile client calls its port as  *)
(* it is, and can also log out.  The two follow the network with the same  *)
(* code, and meet nowhere: one of them is opened.                          *)
(***************************************************************************)
EXTENDS Integers, Sequences

CONSTANTS
  MaxFlips,   \* bound: changes of the network
  MaxLoads,   \* bound: bootstrap calls of each shell
  LogoutSlots \* bound: the presses of the log-out button

VARIABLES
  opened,     \* the shell that is open
  network,    \* up or down
  flips,
  line,       \* what the shell knows of the network, and how
  lineNotices,    \* changes of the network it has not been told of
  portal,     \* generation and pending call of the coordinator, and what is shown
  portalCalls,\* the portal's bootstrap calls without an answer
  mobile,     \* the mobile client's bootstrap call, and what is shown
  logouts,    \* each log-out: where it is
  mobileSession  \* the mobile client's session is alive at the server

lineVars == <<opened, network, flips, line, lineNotices>>
portalVars == <<portal, portalCalls>>
mobileVars == <<mobile, logouts, mobileSession>>
shellVars == <<lineVars, portalVars, mobileVars>>

ShellNames == {"portal", "mobile"}
Lines == {"up", "down"}
PortAnswers == {"ready", "other"}   \* entries to show, or a status
NoCall == 0

ShellInit ==
  /\ opened = "none"
  /\ network = "up" /\ flips = 0
  /\ line = [online |-> "unknown", told |-> FALSE, asked |-> "asking"]
  /\ lineNotices = <<>>
  /\ portal = [generation |-> 0, pending |-> NoCall, loads |-> 0, shown |-> "loading", of |-> 0]
  /\ portalCalls = {}
  /\ mobile = [call |-> "none", loads |-> 0, shown |-> "loading"]
  /\ logouts = [n \in LogoutSlots |-> "unused"]
  /\ mobileSession = TRUE

\* A shell is mounted, on a network and to a session as they are: the mobile client calls
\* its port at once, the portal when it knows that it is connected.
OpenShell(s) ==
  /\ opened = "none" /\ opened' = s
  /\ network' \in Lines
  /\ mobileSession' \in IF s = "mobile" THEN BOOLEAN ELSE {TRUE}
  /\ mobile' = IF s = "mobile" THEN [mobile EXCEPT !.call = "asked", !.loads = 1] ELSE mobile
  /\ UNCHANGED <<flips, line, lineNotices, portalVars, logouts>>

-----------------------------------------------------------------------------
(* The portal's load coordinator.                                          *)

\* load: the pending call is shared.
Loads(p) ==
  IF p.pending # NoCall
  THEN /\ portal' = [p EXCEPT !.shown = "loading"]
       /\ UNCHANGED portalCalls
  ELSE /\ p.loads < MaxLoads
       /\ portal' = [p EXCEPT !.shown = "loading", !.loads = @ + 1, !.pending = p.loads + 1]
       /\ portalCalls' = portalCalls \cup {[number |-> p.loads + 1, generation |-> p.generation]}

Invalidated(p) == [p EXCEPT !.generation = @ + 1, !.pending = NoCall]

\* A call of any generation is shown: a mutant.
ShownAlways(c, answer) == answer

\* What becomes of an answer; of one that comes too late, and of a failure.
ShownOf(c, answer) == IF c.generation = portal.generation THEN answer ELSE "unavailable"

PortalAnswer(c, answer) ==
  /\ c \in portalCalls
  /\ portalCalls' = portalCalls \ {c}
  /\ portal' = [portal EXCEPT
       !.shown = ShownOf(c, answer), !.of = c.generation,
       !.pending = IF c.generation = portal.generation THEN NoCall ELSE @]
  /\ UNCHANGED <<lineVars, mobileVars>>

\* The retry button, which every screen but "ready" and "loading" has.
PortalRetry ==
  /\ opened = "portal" /\ line.online = "up" /\ portal.shown \in {"other", "unavailable"}
  /\ Loads(portal)
  /\ UNCHANGED <<lineVars, mobileVars>>

\* The effect of another state of the connection: what was asked before is invalidated.
PortalLine(now) ==
  IF now = line.online THEN UNCHANGED portalVars
  ELSE IF now = "up" THEN Loads(Invalidated(portal))
  ELSE /\ portal' = [Invalidated(portal) EXCEPT !.shown = "loading"]
       /\ UNCHANGED portalCalls

-----------------------------------------------------------------------------
(* The network, as both shells follow it.                                  *)

NetworkChanges ==
  /\ opened # "none"
  /\ flips < MaxFlips /\ flips' = flips + 1
  /\ network' = IF network = "up" THEN "down" ELSE "up"
  /\ lineNotices' = Append(lineNotices, network')
  /\ UNCHANGED <<opened, line, portalVars, mobileVars>>

\* What the shell takes the network for, and what the portal does about it.
Learns(now) ==
  /\ IF opened = "portal" THEN PortalLine(now) ELSE UNCHANGED portalVars
  /\ UNCHANGED mobileVars

\* getNetworkType looks at the network ...
LineIsRead ==
  /\ opened # "none" /\ line.asked = "asking"
  /\ line' = [line EXCEPT !.asked = network]
  /\ UNCHANGED <<opened, network, flips, lineNotices, portalVars, mobileVars>>

\* An answer counts whatever has been told meanwhile: a mutant.
TakenAnyway(now) == now

\* ... and its answer counts until a change has been told.
Taken(now) == IF line.told THEN line.online ELSE now

LineAnswers ==
  /\ line.asked \in Lines
  /\ line' = [line EXCEPT !.asked = "answered", !.online = Taken(line.asked)]
  /\ Learns(Taken(line.asked))
  /\ UNCHANGED <<opened, network, flips, lineNotices>>

\* A question that fails is answered "down"; a change, if one comes, mends it.
LineFails ==
  /\ opened # "none" /\ line.asked # "answered"
  /\ line' = [line EXCEPT !.asked = "answered", !.online = Taken("down")]
  /\ Learns(Taken("down"))
  /\ UNCHANGED <<opened, network, flips, lineNotices>>

LineIsTold ==
  /\ lineNotices # <<>>
  /\ line' = [line EXCEPT !.told = TRUE, !.online = Head(lineNotices)]
  /\ lineNotices' = Tail(lineNotices)
  /\ Learns(Head(lineNotices))
  /\ UNCHANGED <<opened, network, flips>>

-----------------------------------------------------------------------------
(* The mobile client's port: the server serves a call, then its answer     *)
(* arrives.                                                                *)

MobileStep(next) ==
  /\ mobile' = next
  /\ UNCHANGED <<lineVars, portalVars>>

MobileServed ==
  /\ mobile.call = "asked"
  /\ MobileStep([mobile EXCEPT !.call = IF mobileSession THEN "ready" ELSE "other"])
  /\ UNCHANGED <<logouts, mobileSession>>

MobileAnswer ==
  /\ mobile.call \in PortAnswers
  /\ MobileStep([mobile EXCEPT !.call = "none", !.shown = mobile.call])
  /\ UNCHANGED <<logouts, mobileSession>>

MobileFails ==
  /\ mobile.call # "none"
  /\ MobileStep([mobile EXCEPT !.call = "none", !.shown = "unavailable"])
  /\ UNCHANGED <<logouts, mobileSession>>

\* The retry button is there with a status, and the log-out button with the content; both
\* once the connection is known.
MobileRetry ==
  /\ line.online # "unknown" /\ mobile.shown \in {"other", "unavailable"}
  /\ mobile.loads < MaxLoads
  /\ MobileStep([mobile EXCEPT !.call = "asked", !.loads = @ + 1, !.shown = "loading"])
  /\ UNCHANGED <<logouts, mobileSession>>

PressLogout(n) ==
  /\ line.online # "unknown" /\ mobile.shown = "ready" /\ logouts[n] = "unused"
  /\ logouts' = [logouts EXCEPT ![n] = "asked"]
  /\ UNCHANGED <<lineVars, portalVars, mobile, mobileSession>>

\* The server ends the session, or the call fails, its effect done or not.
LogoutServed(n) ==
  /\ logouts[n] = "asked"
  /\ \/ mobileSession' = FALSE /\ logouts' = [logouts EXCEPT ![n] = "signed out"]
     \/ mobileSession' \in {FALSE, mobileSession} /\ logouts' = [logouts EXCEPT ![n] = "failed"]
  /\ UNCHANGED <<lineVars, portalVars, mobile>>

LogoutAnswer(n) ==
  /\ logouts[n] \in {"signed out", "failed"}
  /\ logouts' = [logouts EXCEPT ![n] = "over"]
  /\ MobileStep([mobile EXCEPT !.shown = IF logouts[n] = "failed" THEN "unavailable" ELSE "other"])
  /\ UNCHANGED mobileSession

ShellNext ==
  \/ \E s \in ShellNames : OpenShell(s)
  \/ NetworkChanges \/ LineIsRead \/ LineAnswers \/ LineFails \/ LineIsTold
  \/ PortalRetry
  \/ \E c \in portalCalls : \E answer \in PortAnswers \cup {"unavailable"} : PortalAnswer(c, answer)
  \/ MobileServed \/ MobileAnswer \/ MobileFails \/ MobileRetry
  \/ \E n \in LogoutSlots : PressLogout(n) \/ LogoutServed(n) \/ LogoutAnswer(n)

ShellSpec == ShellInit /\ [][ShellNext]_shellVars

-----------------------------------------------------------------------------
(* Properties.                                                             *)

\* A shell that has been told every change shows the network as it is, in whatever order
\* its first question was answered and the first changes were told
\* (external-portal/src/portal-shell.tsx:22-31, internal-mobile/src/mobile-shell.tsx:77-86).
LineSettles == line.told /\ lineNotices = <<>> => line.online = network

\* The portal never shows the entries of a bootstrap that was asked before the connection
\* was last lost (external-portal/src/load-coordinator.ts:7-14).
NothingStaleIsShown == portal.shown = "ready" => portal.of = portal.generation

\* Nobody waits for nothing: while a shell shows that it is loading, a call is on its way
\* (portal-shell.tsx:16-20 and 32-39, mobile-shell.tsx:74-76).
LoadingIsOwed ==
  /\ (opened = "portal" /\ line.online = "up" /\ portal.shown = "loading") =>
       \E c \in portalCalls : c.generation = portal.generation
  /\ (opened = "mobile" /\ mobile.shown = "loading") => mobile.call # "none"

\* The portal's pending call is one without an answer; the mobile client has one call.
ShellsTyped ==
  /\ line.online \in Lines \cup {"unknown"}
  /\ portal.pending # NoCall =>
       [number |-> portal.pending, generation |-> portal.generation] \in portalCalls

\* What the shells show, as a whole.
ShellsAreHonest == ShellsTyped /\ LineSettles /\ NothingStaleIsShown /\ LoadingIsOwed

=============================================================================
