--------------------------------- MODULE Auth ---------------------------------
(***************************************************************************)
(* Authentication of the gateway's requests: the HTTP middleware of        *)
(* src/auth/core/http.go with one of the plugins src/auth/insecure or      *)
(* src/auth/oauth/google.go.  Every handler goroutine serves one request   *)
(* at a time in two steps: the middleware authenticates the request and    *)
(* checks its session key (ServeHTTP), and the core, before it executes    *)
(* the request, has the plugin verify the payload against the AAD the      *)
(* middleware found (Verify).                                              *)
(*                                                                         *)
(* A request is abstracted to its credentials, whether it carries a        *)
(* session key, the AAD in its payload and its API.  The insecure plugin's *)
(* credential is the X-OASIS-INSECURE-AUTH header, a user name or empty    *)
(* (NoUser); Google's is an ID token, valid or not, for a user whose email *)
(* is verified or not.  A payload with no data has the AAD NoUser.         *)
(***************************************************************************)
EXTENDS Naturals

CONSTANTS
    Users,      \* the users, by the AAD (email or header value) they stand for
    Handlers,   \* the net/http goroutines serving requests
    Plugin,     \* the configured plugin: "insecure" or "google"
    NoUser      \* an empty header or AAD

ASSUME AuthAssumption ==
    /\ Plugin \in {"insecure", "google"}
    /\ NoUser \notin Users

Credentials ==
    IF Plugin = "insecure"
    THEN Users \cup {NoUser}
    ELSE [user : Users, valid : BOOLEAN, verified : BOOLEAN]

Requests ==
    [cred : Credentials, session : BOOLEAN, aad : Users \cup {NoUser},
     api : {"Execute", "Deploy"}]

\* The user the credentials prove, independent of the plugin's code: the
\* insecure plugin takes the header's word for it by design; a Google ID
\* token proves its user when it verifies and the email is verified.
ProvenUser(rq) ==
    IF Plugin = "insecure" THEN rq.cred
    ELSE IF rq.cred.valid /\ rq.cred.verified THEN rq.cred.user ELSE NoUser

Results == {"Forbidden", "DataTooShort", "DeployDenied", "AADMismatch", "Executed"}

VARIABLES
    stage,      \* stage[h]: "idle", "authenticated" (in the core), "done"
    req,        \* req[h]: the request handler h serves
    expected,   \* expected[h]: the AAD the middleware found
    result      \* result[h]: how handler h's request ended

vars == <<stage, req, expected, result>>

-----------------------------------------------------------------------------

\* InsecureAuth.Authenticate: the header's value, an error when empty.
InsecureAuthenticate(rq) == rq.cred

\* A plausible slip in GoogleOauth.Authenticate: no EmailVerified test.
GoogleAuthenticateUnverified(rq) ==
    IF rq.cred.valid THEN rq.cred.user ELSE NoUser

\* GoogleOauth.Authenticate: verify the ID token, read its claims, refuse
\* an unverified email; the AAD is the email.
GoogleAuthenticate(rq) ==
    IF rq.cred.valid /\ rq.cred.verified THEN rq.cred.user ELSE NoUser

\* The configured plugin's Authenticate; NoUser stands for its error.
Authenticate(rq) ==
    IF Plugin = "insecure" THEN InsecureAuthenticate(rq) ELSE GoogleAuthenticate(rq)

\* InsecureAuth.Verify: only the data's length is checked.
InsecureVerify(rq, aad) ==
    IF rq.aad = NoUser THEN "DataTooShort" ELSE "Executed"

\* A plausible slip in GoogleOauth.Verify: no AAD comparison.
GoogleVerifyNoAAD(rq, aad) ==
    IF rq.api = "Deploy" THEN "DeployDenied" ELSE "Executed"

\* GoogleOauth.Verify: a deploy is refused; the payload's AAD must be the
\* one Authenticate put in the context.
GoogleVerify(rq, aad) ==
    CASE rq.api = "Deploy" -> "DeployDenied"
      [] rq.aad # aad      -> "AADMismatch"
      [] OTHER             -> "Executed"

Verify(rq, aad) ==
    IF Plugin = "insecure" THEN InsecureVerify(rq, aad) ELSE GoogleVerify(rq, aad)

\* NewHttpMiddlewareAuth has built the middleware around the plugin; every
\* handler goroutine is idle.
Init ==
    /\ stage = [h \in Handlers |-> "idle"]
    /\ req = [h \in Handlers |-> CHOOSE rq \in Requests : TRUE]
    /\ expected = [h \in Handlers |-> NoUser]
    /\ result = [h \in Handlers |-> "Forbidden"]

\* HttpMiddlewareAuth.ServeHTTP: Forbidden when Authenticate fails or the
\* session key is empty; otherwise the request goes on to the core with
\* the AAD in its context.
ServeHTTP(h, rq) ==
    /\ stage[h] = "idle"
    /\ req' = [req EXCEPT ![h] = rq]
    /\ expected' = [expected EXCEPT ![h] = Authenticate(rq)]
    /\ IF Authenticate(rq) = NoUser \/ ~rq.session
       THEN /\ stage' = [stage EXCEPT ![h] = "done"]
            /\ result' = [result EXCEPT ![h] = "Forbidden"]
       ELSE /\ stage' = [stage EXCEPT ![h] = "authenticated"]
            /\ UNCHANGED result

\* The core verifies the payload before it executes the request.
VerifyPayload(h) ==
    /\ stage[h] = "authenticated"
    /\ stage' = [stage EXCEPT ![h] = "done"]
    /\ result' = [result EXCEPT ![h] = Verify(req[h], expected[h])]
    /\ UNCHANGED <<req, expected>>

\* The handler goroutine is free for the next request.
Finish(h) ==
    /\ stage[h] = "done"
    /\ stage' = [stage EXCEPT ![h] = "idle"]
    /\ UNCHANGED <<req, expected, result>>

Next ==
    \E h \in Handlers :
        \/ \E rq \in Requests : ServeHTTP(h, rq)
        \/ VerifyPayload(h)
        \/ Finish(h)

Spec == Init /\ [][Next]_vars

-----------------------------------------------------------------------------

\* A request is executed only on behalf of the user its credentials
\* prove, with a session key, and with that user's AAD in its payload.
\* It takes both the middleware (http.go:38-58) and the plugin's Verify
\* to get right; the specification (section 6) says a payload whose AAD
\* is not the expected AAD yields AADMismatch.
ExecutedAsProvenUser ==
    \A h \in Handlers :
        stage[h] = "done" /\ result[h] = "Executed" =>
            /\ req[h].session
            /\ ProvenUser(req[h]) # NoUser
            /\ req[h].aad = ProvenUser(req[h])

=============================================================================
