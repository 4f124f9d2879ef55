---------------------------- MODULE RequestChain ----------------------------
(***************************************************************************)
(* GET /v1/matches/{id}/airfare on its way through the three services:     *)
(* gateway, airfare provider and match adapter, each with a deadline of    *)
(* its own inside the one of its caller, each giving the errors of the     *)
(* next a code of its own.  One request is followed at a time: requests    *)
(* share nothing here. (What every model has is named after this one,      *)
(* which is proved about beside SourceClient.)                             *)
(***************************************************************************)

VARIABLES
  gw, http, gwCtx,     \* gateway: where it is, its answer, the call's context
  pv, pvCtx, toGw,     \* provider, its context, its answer to the gateway
  callExpired,         \* the provider's own timeout for the adapter has passed
  ad, adCtx, toPv,     \* adapter, its context, its answer to the provider
  facts                \* history: what went wrong where

gwVars == <<gw, http, gwCtx>>
pvVars == <<pv, pvCtx, toGw, callExpired>>
adVars == <<ad, adCtx, toPv>>
chainVars == <<gwVars, pvVars, adVars, facts>>

Ctx   == {"live", "deadline", "canceled"}
Codes == {"OK", "InvalidArgument", "NotFound", "Unavailable", "DeadlineExceeded",
          "Canceled", "Internal"}
None  == "none"

\* The code of a call that ends with its caller's context.
CtxCode(c) == IF c = "deadline" THEN "DeadlineExceeded" ELSE "Canceled"

\* What the adapter makes of an error of GetMatch.
AdapterCode(e) ==
  CASE e = "ErrMatchNotFound"     -> "NotFound"
    [] e = "ErrSourceUnavailable" -> "Unavailable"
    [] e \in {"deadline", "canceled"} -> CtxCode(e)
    [] OTHER -> "Internal"

\* Mutant: whatever the adapter refuses is taken for a missing match.
MatchClientErrLenient(code) ==
  CASE code \in {"NotFound", "Internal"} -> "ErrMatchNotFound"
    [] code \in {"Unavailable", "DeadlineExceeded"} -> "ErrSourceTemporary"
    [] OTHER -> "wrapped"

\* Mutant: a late adapter is no temporary failure.
MatchClientErrStrict(code) ==
  CASE code = "NotFound"    -> "ErrMatchNotFound"
    [] code = "Unavailable" -> "ErrSourceTemporary"
    [] OTHER -> "wrapped"

\* What the provider's client makes of the adapter's code. A status of gRPC is
\* no context error for errors.Is, so a canceled call is wrapped.
MatchClientErr(code) ==
  CASE code = "NotFound" -> "ErrMatchNotFound"
    [] code \in {"Unavailable", "DeadlineExceeded"} -> "ErrSourceTemporary"
    [] OTHER -> "wrapped"

\* What the provider makes of an error of GetAirfareByMatch.
ProviderCode(e) ==
  CASE e = "ErrInvalidRoute"   -> "InvalidArgument"
    [] e = "ErrMatchNotFound"  -> "NotFound"
    [] e = "ErrSourceTemporary" -> "Unavailable"
    [] e \in {"deadline", "canceled"} -> CtxCode(e)
    [] OTHER -> "Internal"

\* What the gateway makes of the provider's code.
HTTPStatus(code) ==
  CASE code = "OK" -> 200
    [] code = "InvalidArgument"  -> 400
    [] code = "NotFound"         -> 404
    [] code = "Unavailable"      -> 503
    [] code = "DeadlineExceeded" -> 504
    [] OTHER -> 502
-----------------------------------------------------------------------------
ChainInit ==
  /\ gw = "idle" /\ http = 0 /\ gwCtx = "live"
  /\ pv = "idle" /\ pvCtx = "live" /\ toGw = None /\ callExpired = FALSE
  /\ ad = "idle" /\ adCtx = "live" /\ toPv = None
  /\ facts = {}

(***************************************************************************)
(* The gateway.                                                            *)
(***************************************************************************)
Receive ==
  /\ gw = "idle"
  /\ \/ /\ gw' = "answered" /\ http' \in {400, 405}
        /\ facts' = {"bad_request"}
        /\ UNCHANGED pvVars
     \/ /\ gw' = "waiting" /\ pv' = "called"
        /\ UNCHANGED <<http, pvCtx, toGw, callExpired, facts>>
  /\ UNCHANGED <<gwCtx, adVars>>

AnswerWith(code) == gw' = "answered" /\ http' = HTTPStatus(code)

TakeReply ==
  /\ gw = "waiting" /\ toGw # None
  /\ AnswerWith(toGw)
  /\ UNCHANGED <<gwCtx, pvVars, adVars, facts>>

\* Mutant: only a client that hangs up ends the wait.
GiveUpOnDisconnect ==
  /\ gw = "waiting" /\ gwCtx = "canceled"
  /\ AnswerWith(CtxCode(gwCtx))
  /\ UNCHANGED <<gwCtx, pvVars, adVars, facts>>

GiveUp ==
  /\ gw = "waiting" /\ gwCtx # "live"
  /\ AnswerWith(CtxCode(gwCtx))
  /\ UNCHANGED <<gwCtx, pvVars, adVars, facts>>

\* The provider cannot be reached, or the connection breaks or the provider
\* stops in the middle of the call.
LoseProvider ==
  /\ gw = "waiting" /\ gwCtx = "live" /\ toGw = None
  /\ AnswerWith("Unavailable")
  /\ facts' = facts \cup {"unreachable"}
  /\ pv' \in {pv, "idle"}
  /\ UNCHANGED <<gwCtx, pvCtx, toGw, callExpired, adVars>>

GatewayDeadline ==
  /\ gw = "waiting" /\ gwCtx = "live"
  /\ gwCtx' = "deadline"
  /\ UNCHANGED <<gw, http, pvVars, adVars, facts>>

Disconnect ==
  /\ gw = "waiting" /\ gwCtx = "live"
  /\ gwCtx' = "canceled"
  /\ UNCHANGED <<gw, http, pvVars, adVars, facts>>

\* The next request, once nothing of this one is left.
Return ==
  /\ gw = "answered" /\ pv = "idle" /\ ad = "idle"
  /\ gw' = "idle" /\ http' = 0 /\ gwCtx' = "live"
  /\ pvCtx' = "live" /\ toGw' = None /\ callExpired' = FALSE
  /\ adCtx' = "live" /\ toPv' = None
  /\ facts' = {}
  /\ UNCHANGED <<pv, ad>>

(***************************************************************************)
(* The airfare provider.  Its context has the gateway's deadline, and ends *)
(* when the gateway leaves the call.                                       *)
(***************************************************************************)
ProviderCtxEnds ==
  /\ pv # "idle" /\ pvCtx = "live"
  /\ \/ gwCtx = "deadline" /\ pvCtx' = "deadline"
     \/ gw # "waiting" /\ pvCtx' = "canceled"
  /\ UNCHANGED <<pv, toGw, callExpired, gwVars, adVars, facts>>

ProviderReplies(code) == pv' = "idle" /\ toGw' = code

ReadAirfareCache ==
  /\ pv = "called"
  /\ \/ /\ pvCtx = "live" /\ ProviderReplies("OK")
        /\ UNCHANGED ad
     \/ /\ pv' = "match" /\ ad' = IF pvCtx = "live" THEN "called" ELSE ad
        /\ UNCHANGED toGw
  /\ UNCHANGED <<pvCtx, callExpired, adCtx, toPv, gwVars, facts>>

CallDeadline ==
  /\ pv = "match" /\ ~callExpired
  /\ callExpired' = TRUE
  /\ UNCHANGED <<pv, pvCtx, toGw, gwVars, adVars, facts>>

CallCtx == IF callExpired THEN "deadline" ELSE pvCtx

FailMatch(code) == ProviderReplies(ProviderCode(MatchClientErr(code)))

\* With a match in hand the provider goes on, unless it is played in the city of
\* departure.
TakeMatch ==
  /\ toPv = "OK"
  /\ \/ pv' = "search" /\ UNCHANGED <<toGw, facts>>
     \/ /\ ProviderReplies(ProviderCode("ErrInvalidRoute"))
        /\ facts' = facts \cup {"same_city"}

TakeError == toPv \notin {None, "OK"} /\ FailMatch(toPv) /\ UNCHANGED facts

\* Mutant: the call waits for the adapter alone.
LoadMatchPatient ==
  /\ pv = "match"
  /\ TakeMatch \/ TakeError
  /\ UNCHANGED <<pvCtx, callExpired, adVars, gwVars>>

\* The call to the adapter ends with its answer or with the context.
LoadMatch ==
  /\ pv = "match"
  /\ \/ TakeMatch
     \/ TakeError
     \/ CallCtx # "live" /\ FailMatch(CtxCode(CallCtx)) /\ UNCHANGED facts
  /\ UNCHANGED <<pvCtx, callExpired, adVars, gwVars>>

\* The adapter cannot be reached, or stops in the middle of the call.
LoseAdapter ==
  /\ pv = "match" /\ toPv = None
  /\ FailMatch("Unavailable")
  /\ ad' \in {ad, "idle"}
  /\ facts' = facts \cup {"unreachable"}
  /\ UNCHANGED <<pvCtx, callExpired, adCtx, toPv, gwVars>>

\* AirfareService looks inside: failure only if every call failed, as they do
\* once the context has ended.
SearchFares ==
  /\ pv = "search"
  /\ \/ ProviderReplies("OK") /\ UNCHANGED facts
     \/ /\ ProviderReplies(ProviderCode("ErrSourceTemporary"))
        /\ facts' = IF pvCtx = "live" THEN facts \cup {"no_fares"} ELSE facts
  /\ UNCHANGED <<pvCtx, callExpired, gwVars, adVars>>

(***************************************************************************)
(* The match adapter.                                                      *)
(***************************************************************************)
AdapterCtxEnds ==
  /\ ad # "idle" /\ adCtx = "live"
  /\ \/ (callExpired \/ pvCtx = "deadline") /\ adCtx' = "deadline"
     \/ pv # "match" /\ adCtx' = "canceled"
  /\ UNCHANGED <<ad, toPv, gwVars, pvVars, facts>>

AdapterReplies(code) == ad' = "idle" /\ toPv' = code

FailGet(e, fact) ==
  /\ AdapterReplies(AdapterCode(e))
  /\ facts' = facts \cup {fact}

\* A call of the adapter to a store or the site fails with the context.
FailCtx ==
  /\ adCtx # "live"
  /\ AdapterReplies(AdapterCode(adCtx)) /\ UNCHANGED facts

ReadMatchCache ==
  /\ ad = "called"
  /\ \/ adCtx = "live" /\ AdapterReplies("OK")
     \/ ad' = "repo" /\ UNCHANGED toPv
  /\ UNCHANGED <<adCtx, gwVars, pvVars, facts>>

ReadRepo ==
  /\ ad = "repo"
  /\ \/ /\ adCtx = "live"
        /\ \/ AdapterReplies("OK") /\ UNCHANGED facts
           \/ /\ ad' = "source" /\ facts' = facts \cup {"no_row"}
              /\ UNCHANGED toPv
           \/ FailGet("db error", "db")
     \/ FailCtx
  /\ UNCHANGED <<adCtx, gwVars, pvVars>>

\* The HTTP client's own timeout is a deadline for errors.Is.
FetchSource ==
  /\ ad = "source"
  /\ \/ /\ adCtx = "live"
        /\ \/ ad' = "save" /\ UNCHANGED <<toPv, facts>>
           \/ FailGet("ErrMatchNotFound", "not_at_site")
           \/ FailGet("ErrSourceUnavailable", "site_down")
           \/ FailGet("deadline", "site_slow")
           \/ FailGet("status or body", "site_broken")
     \/ FailCtx
  /\ UNCHANGED <<adCtx, gwVars, pvVars>>

EnrichAndUpsert ==
  /\ ad = "save"
  /\ \/ /\ adCtx = "live"
        /\ \/ AdapterReplies("OK") /\ UNCHANGED facts
           \/ FailGet("ErrCityIATANotFound", "no_city")
           \/ FailGet("db error", "db")
     \/ FailCtx
  /\ UNCHANGED <<adCtx, gwVars, pvVars>>

Gateway  == Receive \/ TakeReply \/ GiveUp \/ Return
Provider == ReadAirfareCache \/ LoadMatch \/ SearchFares
Adapter  == ReadMatchCache \/ ReadRepo \/ FetchSource \/ EnrichAndUpsert
Timers   == GatewayDeadline \/ ProviderCtxEnds \/ CallDeadline \/ AdapterCtxEnds

Faults   == Disconnect \/ LoseProvider \/ LoseAdapter

ChainNext == Gateway \/ Provider \/ Adapter \/ Timers \/ Faults

ChainSpec == ChainInit /\ [][ChainNext]_chainVars

\* The gateway's timer fires, and the gateway takes an answer or gives up.
FairChainSpec ==
  ChainSpec /\ WF_chainVars(GatewayDeadline) /\ WF_chainVars(TakeReply \/ GiveUp)

\* The provider's timer for the adapter fires, and its calls to Redis and to the
\* fare source have timeouts.  The adapter may hang for ever.
ProviderFairness == WF_chainVars(CallDeadline) /\ WF_chainVars(Provider)
-----------------------------------------------------------------------------
ChainTypeOK ==
  /\ gw \in {"idle", "waiting", "answered"}
  /\ http \in {0, 200, 400, 404, 405, 502, 503, 504}
  /\ gwCtx \in Ctx /\ pvCtx \in Ctx /\ adCtx \in Ctx
  /\ pv \in {"idle", "called", "match", "search"}
  /\ ad \in {"idle", "called", "repo", "source", "save"}
  /\ toGw \in Codes \cup {None} /\ toPv \in Codes \cup {None}
  /\ callExpired \in BOOLEAN
  /\ gw = "idle" => /\ pv = "idle" /\ ad = "idle"
                    /\ toGw = None /\ toPv = None /\ facts = {}

\* The client is told that a match does not exist when neither the table nor the
\* site has it, and only then: no other failure on the way turns into a 404, and
\* only a deadline or a lost connection keeps a 404 from arriving.
NotFoundIsGenuine ==
  /\ http = 404 => {"no_row", "not_at_site"} \subseteq facts
  /\ "not_at_site" \in facts /\ gw = "answered" =>
       http = 404 \/ gwCtx # "live" \/ callExpired \/ "unreachable" \in facts

\* 504 is about the gateway's own deadline: whatever times out behind the
\* provider is a 503. 502 is for a fault of the adapter's own data or stores, or
\* for a client that is gone; 503 for something that may be over at the next try;
\* 400 for a request that cannot be right.
StatusHasItsCause ==
  /\ ChainTypeOK
  /\ http = 504 => gwCtx = "deadline"
  /\ http = 502 => gwCtx = "canceled" \/ facts \cap {"db", "no_city", "site_broken"} # {}
  /\ http = 503 => \/ gwCtx = "deadline" \/ callExpired
                   \/ facts \cap {"unreachable", "site_down", "site_slow", "no_fares"} # {}
  /\ http = 400 => facts \cap {"bad_request", "same_city"} # {}

\* The gateway answers whatever the services behind it do, the provider included.
GatewayAnswers == gw = "waiting" ~> gw = "answered"

\* The provider ends its work on a request even if the adapter never answers.
ProviderEnds == ProviderFairness => (pv # "idle" ~> pv = "idle")
=============================================================================
