---------------------------- MODULE WebApiSession ----------------------------
(***************************************************************************)
(* The API session a browser holds in the Streamlit application.           *)
(*                                                                         *)
(* One browser signs in, asks for protected results, and signs out; one    *)
(* script runs at a time, so its steps are sequential.  The server, the    *)
(* clock and administrators move between any two of them: an access token  *)
(* expires, a session is revoked, an answer is lost after the server did   *)
(* the work.  request_with_one_refresh rotates the refresh token once      *)
(* after a 401 and repeats the request once.  A server session stands for  *)
(* its organization too: both are fixed by the sign-in.                    *)
(***************************************************************************)
EXTENDS Integers, Sequences

CONSTANTS
    Reports,     \* utility results: budget, cash flow, FX and market sync
    Files,       \* scenario plans a user may upload
    Unreadable,  \* those that do not parse
    TooLarge,    \* those over the upload limit
    NoFile,
    MaxSessions, MaxTokens   \* bounds: sign-ins, and token pairs issued

ASSUME WebAssumption ==
    /\ Unreadable \subseteq Files /\ TooLarge \subseteq Files /\ NoFile \notin Files
    /\ "plan" \notin Reports
    /\ MaxSessions \in Nat /\ MaxTokens \in Nat

VARIABLES
    webServer,   \* server sessions: alive, and the refresh token in force
    webIssued,   \* token pairs issued so far
    webAccess,   \* access tokens that have not expired
    webState,    \* the browser's credentials
    webResults,  \* the protected results it keeps, by the session they are of
    webUpload,   \* the plan file it keeps, and the one last previewed
    webCall,     \* the request its script is in
    webApplied,  \* history: how often the server has executed that request
    webReused    \* history: the server has been shown a consumed token

webVars == <<webServer, webIssued, webAccess, webState, webResults, webUpload,
             webCall, webApplied, webReused>>

Panels == Reports \cup {"plan"}
SignedOut == [sid |-> 0, access |-> 0, refresh |-> 0, warned |-> FALSE]
NoWebCall == [phase |-> "idle", panel |-> "plan"]

WebInit ==
    /\ webServer = <<>>
    /\ webIssued = 0
    /\ webAccess = {}
    /\ webState = SignedOut
    /\ webResults = [p \in Panels |-> 0]
    /\ webUpload = [file |-> NoFile, previewed |-> NoFile]
    /\ webCall = NoWebCall
    /\ webApplied = 0
    /\ webReused = FALSE

-----------------------------------------------------------------------------
(* The state kept between scripts.                                         *)

ClearProtected ==
    /\ webResults' = [p \in Panels |-> 0]
    /\ webUpload' = [webUpload EXCEPT !.previewed = NoFile]

\* A slip: the results shown stay.
WebForgetCredentials ==
    /\ webState' = SignedOut
    /\ UNCHANGED <<webResults, webUpload>>

(* clear_api_session: credentials and everything protected.                *)
WebForget ==
    /\ webState' = SignedOut
    /\ ClearProtected

(* The script that asked stores the result or the error, never both.       *)
WebSettle(p, result) ==
    /\ webResults' = [webResults EXCEPT ![p] = result]
    /\ webUpload' = IF p # "plan" THEN webUpload
                    ELSE [webUpload EXCEPT !.previewed = IF result = 0 THEN NoFile ELSE webUpload.file]

\* A slip: every step of a call is a retry.
HangMisspelled(panel, phase) == webCall' = [phase |-> "retry", panel |-> panel]

Hang(panel, phase) == webCall' = [phase |-> phase, panel |-> panel]
HangUp == webCall' = NoWebCall

-----------------------------------------------------------------------------
(* Signing in: only a signed-out browser offers it.                        *)

WebSignIn ==
    /\ webCall.phase = "idle" /\ webState.sid = 0
    /\ Len(webServer) < MaxSessions /\ webIssued < MaxTokens
    /\ webIssued' = webIssued + 1
    /\ webServer' = Append(webServer, [alive |-> TRUE, token |-> webIssued'])
    /\ webAccess' = webAccess \cup {webIssued'}
    /\ \/ /\ webState' = [sid |-> Len(webServer) + 1, access |-> webIssued',
                          refresh |-> webIssued', warned |-> FALSE]
          /\ ClearProtected
       \/ WebForget                            \* the answer is lost
    /\ UNCHANGED <<webCall, webApplied, webReused>>

(* The server answers a bearer of an access token that has not expired and *)
(* whose session is alive; otherwise 401.                                  *)
Admitted == webState.access \in webAccess /\ webServer[webState.sid].alive

\* A slip: an answer that arrives is taken for a revocation.
WebSignOutAssured ==
    /\ webCall.phase = "idle" /\ webState.sid # 0
    /\ \E delivered \in BOOLEAN :
          /\ webServer' = IF Admitted
                          THEN [webServer EXCEPT ![webState.sid].alive = FALSE] ELSE webServer
          /\ webState' = [SignedOut EXCEPT !.warned = ~delivered]
    /\ ClearProtected
    /\ UNCHANGED <<webIssued, webAccess, webCall, webApplied, webReused>>

WebSignOut ==
    /\ webCall.phase = "idle" /\ webState.sid # 0
    /\ \E delivered \in BOOLEAN :
          /\ webServer' = IF Admitted
                          THEN [webServer EXCEPT ![webState.sid].alive = FALSE] ELSE webServer
          /\ webState' = [SignedOut EXCEPT !.warned = ~(Admitted /\ delivered)]
    /\ ClearProtected
    /\ UNCHANGED <<webIssued, webAccess, webCall, webApplied, webReused>>

-----------------------------------------------------------------------------
(* Protected requests.                                                     *)

WebReady == webCall.phase = "idle" /\ webState.sid # 0

WebAsk(p) ==
    /\ WebReady
    /\ Hang(p, "first")
    /\ webApplied' = 0
    /\ UNCHANGED <<webServer, webIssued, webAccess, webState, webResults, webUpload,
                   webReused>>

WebAskReport(p) == p \in Reports /\ WebAsk(p)

(* A plan that does not parse drops the preview without a request.         *)
WebAskPreview ==
    /\ webUpload.file # NoFile
    /\ IF webUpload.file \in Unreadable
       THEN /\ WebReady
            /\ WebSettle("plan", 0)
            /\ UNCHANGED <<webServer, webIssued, webAccess, webState, webCall,
                           webApplied, webReused>>
       ELSE WebAsk("plan")

\* A slip: the preview of the file before stays.
WebUploadPlanQuietly(f) ==
    /\ webCall.phase = "idle" /\ webUpload.file # f
    /\ webUpload' = [webUpload EXCEPT !.file = f]
    /\ UNCHANGED <<webServer, webIssued, webAccess, webState, webResults, webCall,
                   webApplied, webReused>>

(* A file too large is refused and clears what was kept; a new one drops   *)
(* the preview of the old.                                                 *)
WebUploadPlan(f) ==
    /\ webCall.phase = "idle" /\ webUpload.file # f
    /\ webUpload' = [file |-> IF f \in TooLarge THEN NoFile ELSE f, previewed |-> NoFile]
    /\ webResults' = [webResults EXCEPT !["plan"] = 0]
    /\ UNCHANGED <<webServer, webIssued, webAccess, webState, webCall, webApplied,
                   webReused>>

\* A slip: a request that fails is sent again.
WebServeRetrying ==
    LET p == webCall.panel
    IN  /\ webCall.phase \in {"first", "again"}
        /\ Admitted
        /\ webApplied' = webApplied + 1
        /\ \E result \in {0, webState.sid} :
              /\ WebSettle(p, result)
              /\ IF result = 0 /\ webCall.phase = "first" THEN Hang(p, "again") ELSE HangUp
        /\ UNCHANGED <<webServer, webIssued, webAccess, webState, webReused>>

(* The answer may be an error, or be lost after the request was executed.  *)
WebServe ==
    LET p == webCall.panel
    IN  /\ webCall.phase \in {"first", "again"}
        /\ Admitted
        /\ webApplied' = webApplied + 1
        /\ \E result \in {0, webState.sid} : WebSettle(p, result)
        /\ HangUp
        /\ UNCHANGED <<webServer, webIssued, webAccess, webState, webReused>>

WebRefuse ==
    /\ webCall.phase \in {"first", "again"}
    /\ ~Admitted
    /\ IF webCall.phase = "first"
       THEN /\ Hang(webCall.panel, "rotate")
            /\ UNCHANGED <<webState, webResults, webUpload>>
       ELSE HangUp /\ WebForget
    /\ UNCHANGED <<webServer, webIssued, webAccess, webApplied, webReused>>

(* The request never arrived.                                              *)
WebUnreachable ==
    /\ webCall.phase \in {"first", "again"}
    /\ WebSettle(webCall.panel, 0)
    /\ HangUp
    /\ UNCHANGED <<webServer, webIssued, webAccess, webState, webApplied, webReused>>

\* A slip: the credentials stay.
WebGiveUpKeeping ==
    /\ HangUp
    /\ UNCHANGED <<webState, webResults, webUpload>>

(* The rotation: whatever goes wrong with it, the credentials are dropped. *)
WebGiveUp ==
    /\ WebForget
    /\ HangUp

InForce == /\ webServer[webState.sid].alive
           /\ webServer[webState.sid].token = webState.refresh

WebRotate ==
    /\ webCall.phase = "rotate" /\ InForce /\ webIssued < MaxTokens
    /\ webIssued' = webIssued + 1
    /\ webServer' = [webServer EXCEPT ![webState.sid].token = webIssued']
    /\ webAccess' = webAccess \cup {webIssued'}
    /\ \/ /\ webState' = [webState EXCEPT !.access = webIssued', !.refresh = webIssued']
          /\ ClearProtected
          /\ Hang(webCall.panel, "again")
       \/ WebGiveUp                            \* the answer is lost
    /\ UNCHANGED <<webApplied, webReused>>

(* A consumed token that is shown again costs the session.                 *)
WebRotationRefused ==
    /\ webCall.phase = "rotate" /\ ~InForce
    /\ webServer' = [webServer EXCEPT ![webState.sid].alive = FALSE]
    /\ webReused' = (webReused \/ webServer[webState.sid].token # webState.refresh)
    /\ WebGiveUp
    /\ UNCHANGED <<webIssued, webAccess, webApplied>>

-----------------------------------------------------------------------------
WebExpire(t) ==
    /\ t \in webAccess
    /\ webAccess' = webAccess \ {t}
    /\ UNCHANGED <<webServer, webIssued, webState, webResults, webUpload, webCall,
                   webApplied, webReused>>

WebRevoke(s) ==
    /\ webServer[s].alive
    /\ webServer' = [webServer EXCEPT ![s].alive = FALSE]
    /\ UNCHANGED <<webIssued, webAccess, webState, webResults, webUpload, webCall,
                   webApplied, webReused>>

WebNext ==
    \/ WebSignIn \/ WebSignOut
    \/ \E p \in Reports : WebAskReport(p)
    \/ WebAskPreview
    \/ \E f \in Files : WebUploadPlan(f)
    \/ WebServe \/ WebRefuse \/ WebUnreachable
    \/ WebRotate \/ WebRotationRefused
    \/ \E t \in webAccess : WebExpire(t)
    \/ \E s \in DOMAIN webServer : WebRevoke(s)

WebSpec == WebInit /\ [][WebNext]_webVars

-----------------------------------------------------------------------------
(* The types of all variables.                                             *)
WebTypeOK ==
    /\ webServer \in Seq([alive: BOOLEAN, token: 1..MaxTokens])
    /\ webIssued \in 0..MaxTokens
    /\ webAccess \subseteq 1..webIssued
    /\ webState \in [sid: 0..Len(webServer), access: 0..webIssued,
                     refresh: 0..webIssued, warned: BOOLEAN]
    /\ webResults \in [Panels -> 0..MaxSessions]
    /\ webUpload \in [file: Files \cup {NoFile}, previewed: Files \cup {NoFile}]
    /\ webCall \in [phase: {"idle", "first", "rotate", "again"}, panel: Panels]
    /\ webApplied \in Nat
    /\ webReused \in BOOLEAN

(* Every protected result the browser keeps was answered to the session it *)
(* is signed in with: none survives a sign-out, an expiry or a sign-in to  *)
(* another organization.                                                   *)
ResultsAreOfSession ==
    \A p \in Panels : webResults[p] # 0 => webResults[p] = webState.sid

(* The browser never shows the server a refresh token it has consumed:     *)
(* after a lost answer it drops it, so the reuse detection never strikes   *)
(* an honest user.                                                         *)
NeverReplaysToken == ~webReused

(* One click executes a request at most once, refresh and retry included.  *)
AppliedAtMostOnce == webApplied <= 1

(* A sign-out without a warning has revoked the session: the browser       *)
(* never claims a logout that did not happen.                              *)
SignedOutMeansRevoked ==
    [][webState.sid # 0 /\ webState'.sid = 0 /\ webCall.phase = "idle" /\ ~webState'.warned
          => ~webServer'[webState.sid].alive]_webVars

(* The plan preview on the page is of the file the page holds.             *)
PreviewIsOfUpload ==
    webResults["plan"] # 0 => webUpload.previewed = webUpload.file
=============================================================================
