------------------------------- MODULE WebProxy -------------------------------
(* One request through the same-origin route handlers of the web front end:    *)
(* they check it, turn its session cookie into an access token, forward it to  *)
(* the service and answer the browser. Obtaining a token may refresh the       *)
(* session, whose new cookies exist nowhere but in that answer. The account    *)
(* proxy looks at the session first; those that also serve anonymous visitors  *)
(* (search creation, resume upload, search task) look at the request first, as *)
(* do those that do not ask who the visitor is (search, recommendations).      *)
EXTENDS FiniteSets

VARIABLE exchange   \* the request under way

Handler == {"account", "creation", "upload", "task", "open"}

\* The session behind the request's cookie: none, one whose token is fresh, one
\* that must be refreshed, and one the identity provider no longer refreshes.
Session == {"none", "fresh", "due", "ended"}

-------------------------------------------------------------------------------
NoExchange ==
  [handler |-> "account", session |-> "none", step |-> "idle", bearer |-> FALSE,
   refreshed |-> FALSE, cookies |-> FALSE, reached |-> FALSE, status |-> "none"]

Arrival(handler, session) ==
  [NoExchange EXCEPT !.handler = handler, !.session = session, !.step = "arrived"]

\* An answer without, and with, the cookies of a refreshed session.
Bare(status) ==
  exchange' = [exchange EXCEPT !.step = "answered", !.status = status]

\* Faulty: a refusal or failure is answered without them.
AttachedIfForwarded(status) ==
  exchange' = [exchange EXCEPT !.step = "answered", !.status = status,
                               !.cookies = exchange.refreshed /\ status = "upstream"]

Attached(status) ==
  exchange' = [exchange EXCEPT !.step = "answered", !.status = status,
                               !.cookies = exchange.refreshed]

-------------------------------------------------------------------------------
Asks(handler, session) ==
  /\ exchange.step \in {"idle", "answered"}
  /\ exchange' = Arrival(handler, session)

Identifies ==
  exchange.step = IF exchange.handler = "account" THEN "arrived" ELSE "checked"

\* What resolveApiIdentity found. The account proxy refuses an anonymous
\* visitor; the others forward the request without a token.
IsIdentified(session) ==
  IF session = "none" /\ exchange.handler = "account" THEN Bare("401")
  ELSE exchange' = [exchange EXCEPT !.step = "identified",
                                    !.bearer = session # "none",
                                    !.refreshed = session = "due"]

\* Faulty: a session that cannot be refreshed is taken for no session.
ContinuesAnonymously ==
  /\ Identifies /\ exchange.session \in {"due", "ended"}
  /\ IsIdentified("none")

\* getAccessToken raises: the provider refuses, or cannot be reached.
CannotRefresh ==
  /\ Identifies /\ exchange.handler # "open" /\ exchange.session \in {"due", "ended"}
  /\ Bare("401")

ResolvesIdentity ==
  \/ Identifies /\ exchange.handler = "open" /\ IsIdentified("none")
  \/ Identifies /\ exchange.handler # "open" /\ exchange.session # "ended"
                /\ IsIdentified(exchange.session)
  \/ CannotRefresh

\* Media type, size and syntax of a body; a request without one passes.
ChecksAccountRequest ==
  /\ exchange.handler = "account" /\ exchange.step = "identified"
  /\ \/ exchange' = [exchange EXCEPT !.step = "ready"]
     \/ \E status \in {"400", "413", "415"} : Attached(status)

ChecksFirst(handlers, refusals) ==
  /\ exchange.handler \in handlers /\ exchange.step = "arrived"
  /\ \/ exchange' = [exchange EXCEPT !.step = "checked"]
     \/ \E status \in refusals : Bare(status)

ChecksJson == ChecksFirst({"creation", "open"}, {"400", "413", "415"})

\* Size and form of an upload; the id and the capability of a task.
ChecksUpload == ChecksFirst({"upload"}, {"400", "413"})
ChecksTask == ChecksFirst({"task"}, {"404"})

Forwards ==
  /\ exchange.step = IF exchange.handler = "account" THEN "ready" ELSE "identified"
  /\ exchange' = [exchange EXCEPT !.step = "forwarded"]

\* The service takes the request; its answer may still be lost.
ServiceReceives ==
  /\ exchange.step = "forwarded" /\ ~exchange.reached
  /\ exchange' = [exchange EXCEPT !.reached = TRUE]

FetchFails ==
  /\ exchange.step = "forwarded"
  /\ Attached("503")

\* An answer with its status, or 502 for one that is not JSON or too large.
ServiceReplies ==
  /\ exchange.step = "forwarded" /\ exchange.reached
  /\ Attached("upstream") \/ Attached("502")

\* A download breaks off while its body is read, outside of any handler.
DownloadBreaksOff ==
  /\ exchange.step = "forwarded" /\ exchange.reached /\ exchange.handler = "account"
  /\ Bare("500")

-------------------------------------------------------------------------------
ProxyInit == exchange = NoExchange

ProxyNext ==
  \/ \E handler \in Handler, session \in Session : Asks(handler, session)
  \/ ResolvesIdentity
  \/ ChecksAccountRequest
  \/ ChecksJson \/ ChecksUpload \/ ChecksTask
  \/ Forwards
  \/ ServiceReceives
  \/ FetchFails
  \/ ServiceReplies
  \/ DownloadBreaksOff

ProxySpec == ProxyInit /\ [][ProxyNext]_exchange

-------------------------------------------------------------------------------
\* The cookies of a session that was refreshed on the way reach the browser in
\* the answer, whether the request was refused, failed or succeeded: without
\* them its next request comes with a session that was used up. Only a
\* download that breaks off loses them.
RefreshIsPassedOn ==
  exchange.step = "answered" /\ exchange.status # "500" => exchange.cookies = exchange.refreshed

\* An upload, a search task or an account request of someone with a session
\* never reaches the service as an anonymous visitor's, which would parse a
\* resume without keeping it and search without an owner.
SignedInIsNotAnonymous ==
  exchange.reached /\ exchange.handler # "open" /\ exchange.session # "none" => exchange.bearer

\* A session survives every answer of the proxy and counts for every request
\* that is made with it.
SessionIsKept == RefreshIsPassedOn /\ SignedInIsNotAnonymous
===============================================================================
