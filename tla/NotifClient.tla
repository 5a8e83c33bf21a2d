---------------------------- MODULE NotifClient -----------------------------
(***************************************************************************)
(* The one-shot side of the Rust SDK (src/sdk/rust/src/client.rs and      *)
(* error.rs): Notif::emit, the HTTP POST every app command uses to        *)
(* publish, and the NotifError it returns.  emit is a function of how the *)
(* exchange with the broker went, so it is an operator; the modules of   *)
(* the apps take the outcome of an emit from here.  An HTTP status is one *)
(* of a few representatives; a response body either decodes as an        *)
(* EmitResponse or not.                                                   *)
(***************************************************************************)
EXTENDS Naturals

(* NotifError's variants (error.rs); a Result is Ok or one of them.       *)
ErrorKinds == {"auth", "api", "connection", "serialization", "http", "websocket", "url"}
NoStatus == 0

(* NotifError::auth / api / connection / websocket and the #[from]        *)
(* conversions: an error is its variant and, for Api, the HTTP status.    *)
Failure(kind, status) == [kind |-> kind, status |-> status]
Success == [kind |-> "ok", status |-> NoStatus]

-----------------------------------------------------------------------------
(* Notif::emit.                                                          *)

(* Representative HTTP statuses: success, unauthorised, any other error.  *)
Statuses == {200, 401, 500}
IsSuccess(st) == st \in 200..299

(* How the POST to /api/v1/emit can go.  "unsent": the request never got  *)
(* to the broker (refused, DNS, a timeout before it was read); "unanswered":*)
(* the broker took it but no response came back (the timeout, a reset);  *)
(* "answered": a response with a status and a body that does or does not *)
(* decode as EmitResponse.  "taken" says whether the broker published the *)
(* event: always for a success, either way for an error status (a proxy  *)
(* can fail the request after the broker took it).                        *)
EmitExchanges ==
    [stage : {"unsent"}, status : {NoStatus}, decodes : {FALSE}, taken : {FALSE}]
    \cup [stage : {"unanswered"}, status : {NoStatus}, decodes : {FALSE}, taken : {TRUE}]
    \cup {x \in [stage : {"answered"}, status : Statuses, decodes : BOOLEAN, taken : BOOLEAN] :
            IsSuccess(x.status) => x.taken}

Published(x) == x.taken

(* What emit returns: send().await? turns a transport error into Http;    *)
(* a non-success status is Auth for 401 and Api(status, body text)      *)
(* otherwise; a success whose body does not decode is Http (json() is    *)
(* reqwest's); else Ok(EmitResponse).                                     *)
EmitResult(x) ==
    CASE x.stage # "answered"  -> Failure("http", NoStatus)
      [] ~IsSuccess(x.status)  -> IF x.status = 401 THEN Failure("auth", NoStatus)
                                  ELSE Failure("api", x.status)
      [] ~x.decodes            -> Failure("http", NoStatus)
      [] OTHER                 -> Success

(* What a caller of emit can tell apart, and what it did at the broker:   *)
(* "ok" (Ok, published), "late" (Err, but published), "lost" (Err, not   *)
(* published).                                                             *)
Outcome(x) ==
    CASE EmitResult(x) = Success -> "ok"
      [] Published(x)            -> "late"
      [] OTHER                   -> "lost"

EmitOutcomes == {Outcome(x) : x \in EmitExchanges}
Delivered(o) == o \in {"ok", "late"}
EmitOk(o) == o = "ok"

=============================================================================
