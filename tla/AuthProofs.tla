------------------------------ MODULE AuthProofs ------------------------------
(***************************************************************************)
(* Proofs about Auth: with the Google plugin, for any sets of users and    *)
(* handler goroutines, a request is executed only for the user its ID      *)
(* token proves, with that user's AAD and a session key.                  *)
(* ExecutedAsProvenUser is not inductive: a handler in the core            *)
(* ("authenticated") must already hold a request that passed ServeHTTP and *)
(* the AAD Authenticate found for it, which AuthInv records.               *)
(***************************************************************************)
EXTENDS Auth, TLAPS

\* What ServeHTTP established for a request that went on to the core.
PassedMiddleware(h) ==
    /\ req[h] \in Requests
    /\ req[h].session
    /\ expected[h] = Authenticate(req[h])
    /\ expected[h] # NoUser

AuthInv ==
    /\ stage \in [Handlers -> {"idle", "authenticated", "done"}]
    /\ DOMAIN req = Handlers
    /\ DOMAIN expected = Handlers
    /\ DOMAIN result = Handlers
    /\ \A h \in Handlers : stage[h] = "authenticated" => PassedMiddleware(h)
    /\ \A h \in Handlers :
           stage[h] = "done" /\ result[h] = "Executed" =>
               /\ PassedMiddleware(h)
               /\ Verify(req[h], expected[h]) = "Executed"

LEMMA InitAuthInv == Init => AuthInv
BY DEF Init, AuthInv

LEMMA NextAuthInv == AuthInv /\ [Next]_vars => AuthInv'
<1> SUFFICES ASSUME AuthInv, [Next]_vars PROVE AuthInv'
    OBVIOUS
<1>1. ASSUME NEW h \in Handlers, NEW rq \in Requests, ServeHTTP(h, rq)
      PROVE AuthInv'
    <2>1. CASE Authenticate(rq) = NoUser \/ ~rq.session
        BY <1>1, <2>1 DEF AuthInv, ServeHTTP, PassedMiddleware
    <2>2. CASE ~(Authenticate(rq) = NoUser \/ ~rq.session)
        BY <1>1, <2>2 DEF AuthInv, ServeHTTP, PassedMiddleware
    <2> QED BY <2>1, <2>2
<1>2. ASSUME NEW h \in Handlers, VerifyPayload(h) PROVE AuthInv'
    BY <1>2 DEF AuthInv, VerifyPayload, PassedMiddleware
<1>3. ASSUME NEW h \in Handlers, Finish(h) PROVE AuthInv'
    BY <1>3 DEF AuthInv, Finish, PassedMiddleware
<1>4. CASE UNCHANGED vars
    BY <1>4 DEF AuthInv, vars, PassedMiddleware
<1> QED BY <1>1, <1>2, <1>3, <1>4 DEF Next

\* With the Google plugin the invariant gives the property: Verify
\* answered Executed, so the payload carries the AAD that
\* GoogleOauth.Authenticate found, which is the user the token proves.
LEMMA GoogleAuthInvSafe ==
    ASSUME Plugin = "google"
    PROVE  AuthInv => ExecutedAsProvenUser
<1> SUFFICES ASSUME AuthInv, NEW h \in Handlers,
                    stage[h] = "done", result[h] = "Executed"
             PROVE  /\ req[h].session
                    /\ ProvenUser(req[h]) # NoUser
                    /\ req[h].aad = ProvenUser(req[h])
    BY DEF ExecutedAsProvenUser
<1>1. PassedMiddleware(h) /\ GoogleVerify(req[h], expected[h]) = "Executed"
    BY DEF AuthInv, Verify
<1>2. expected[h] = ProvenUser(req[h])
    BY <1>1 DEF PassedMiddleware, Authenticate, GoogleAuthenticate, ProvenUser
<1>3. req[h].aad = expected[h]
    BY <1>1 DEF GoogleVerify
<1> QED BY <1>1, <1>2, <1>3 DEF PassedMiddleware

\* For every set of users and of handler goroutines, the middleware of
\* http.go with GoogleOauth's Authenticate and Verify executes a request
\* only as the user its ID token proves, with a verified email, a session
\* key and that user's AAD in the payload (ExecutedAsProvenUser).
THEOREM GoogleExecutesOnlyProvenUsers ==
    ASSUME Plugin = "google"
    PROVE  Spec => []ExecutedAsProvenUser
<1>1. Init => AuthInv
    BY InitAuthInv
<1>2. AuthInv /\ [Next]_vars => AuthInv'
    BY NextAuthInv
<1>3. AuthInv => ExecutedAsProvenUser
    BY GoogleAuthInvSafe
<1> QED BY <1>1, <1>2, <1>3, PTL DEF Spec

=============================================================================
