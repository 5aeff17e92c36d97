------------------------------ MODULE Runtime_proofs ------------------------------
(***************************************************************************)
(* Proofs about the web client's session, startup with the extension       *)
(* registry, and the login throttle, and about the instance that runs all  *)
(* parts that live by the scheduler, the clock and the network (MCRuntime),*)
(* for any values of their constants.                                      *)
(***************************************************************************)
EXTENDS MCRuntime, ForecastAudit_proofs

-----------------------------------------------------------------------------
(* The web client's session.  While a browser is signed in it holds the    *)
(* refresh token in force: every answer that would move the token and is   *)
(* lost costs the browser its credentials (TokenHeld).  So it never shows  *)
(* a consumed one.  A request under way belongs to a session and was not   *)
(* yet carried out (CallStands).                                           *)

WebSessionRows == [alive: BOOLEAN, token: 1..MaxTokens]
WebBrowsers == [sid: 0..Len(webServer), access: 0..webIssued, refresh: 0..webIssued, warned: BOOLEAN]

\* A browser that is signed in holds the refresh token in force.
TokenHeld == webState.sid # 0 => webServer[webState.sid].token = webState.refresh

\* A request under way is of a session and was not yet carried out.
CallStands == webCall.phase # "idle" => webState.sid # 0 /\ webApplied = 0

WebInv == /\ WebTypeOK /\ Len(webServer) <= MaxSessions
        /\ ResultsAreOfSession /\ PreviewIsOfUpload
        /\ TokenHeld /\ CallStands /\ AppliedAtMostOnce /\ NeverReplaysToken

-----------------------------------------------------------------------------
(* The server and the browser.                                             *)

LEMMA WebParts ==
    ASSUME WebInv
    PROVE  /\ webServer \in Seq(WebSessionRows) /\ Len(webServer) \in Nat /\ Len(webServer) <= MaxSessions
           /\ webIssued \in Nat /\ webIssued <= MaxTokens
           /\ MaxSessions \in Nat /\ MaxTokens \in Nat
           /\ webState.sid \in 0..Len(webServer)
           /\ webState.access \in 0..webIssued /\ webState.refresh \in 0..webIssued
           /\ webState.warned \in BOOLEAN
           /\ webAccess \subseteq 1..webIssued
           /\ webCall.panel \in Panels /\ webCall.phase \in {"idle", "first", "rotate", "again"}
           /\ webResults \in [Panels -> 0..MaxSessions]
           /\ webUpload.file \in Files \cup {NoFile}
  BY WebAssumption, LenProperties DEF WebInv, WebTypeOK, WebSessionRows

\* A session ends, and nothing else of the server changes.
LEMMA WebKills ==
    ASSUME webServer \in Seq(WebSessionRows), NEW s \in 1..Len(webServer)
    PROVE  LET after == [webServer EXCEPT ![s].alive = FALSE]
           IN  /\ after \in Seq(WebSessionRows) /\ Len(after) = Len(webServer)
               /\ ~after[s].alive
               /\ \A i \in 1..Len(webServer) : after[i].token = webServer[i].token
<1>1. webServer[s] \in WebSessionRows
  BY ElementOfSeq
<1>2. [webServer[s] EXCEPT !.alive = FALSE] \in WebSessionRows
  BY <1>1 DEF WebSessionRows
<1> DEFINE e == [webServer[s] EXCEPT !.alive = FALSE]
<1>3. ~e.alive /\ e.token = webServer[s].token
  BY <1>1 DEF WebSessionRows
<1>4. [webServer EXCEPT ![s].alive = FALSE] = [webServer EXCEPT ![s] = e]
  OBVIOUS
<1>5. e \in WebSessionRows
  BY <1>2
<1> HIDE DEF e
<1>6. /\ [webServer EXCEPT ![s] = e] \in Seq(WebSessionRows)
      /\ Len([webServer EXCEPT ![s] = e]) = Len(webServer)
      /\ \A i \in 1..Len(webServer) :
             [webServer EXCEPT ![s] = e][i] = IF i = s THEN e ELSE webServer[i]
  BY <1>5, ExceptSeq
<1> QED BY <1>3, <1>4, <1>6

\* A step of anybody but the browser: the parts it may touch.
LEMMA ServerMoves ==
    ASSUME WebInv, webServer' \in Seq(WebSessionRows), Len(webServer') = Len(webServer),
           \A i \in 1..Len(webServer) : webServer'[i].token = webServer[i].token,
           webAccess' \subseteq webAccess,
           UNCHANGED <<webIssued, webState, webResults, webUpload, webCall, webApplied, webReused>>
    PROVE  WebInv'
<1>1. WebTypeOK' /\ Len(webServer') <= MaxSessions
  BY DEF WebInv, WebTypeOK, WebSessionRows
<1>2. TokenHeld'
  BY WebParts DEF WebInv, TokenHeld
<1> QED BY <1>1, <1>2 DEF WebInv, ResultsAreOfSession, PreviewIsOfUpload, CallStands, AppliedAtMostOnce,
                          NeverReplaysToken

LEMMA WebExpires == ASSUME WebInv, NEW t \in webAccess, WebExpire(t) PROVE WebInv'
<1>1. webServer' \in Seq(WebSessionRows) /\ Len(webServer') = Len(webServer)
  BY WebParts DEF WebExpire
<1> QED BY <1>1, ServerMoves DEF WebExpire

LEMMA WebRevokes == ASSUME WebInv, NEW s \in DOMAIN webServer, WebRevoke(s) PROVE WebInv'
<1>1. s \in 1..Len(webServer) /\ webServer \in Seq(WebSessionRows)
  BY WebParts, LenProperties
<1> QED BY <1>1, WebKills, ServerMoves DEF WebRevoke

-----------------------------------------------------------------------------
(* The browser drops what it holds.                                        *)

\* Credentials and results are dropped together, and the request with them.
LEMMA Forgets ==
    ASSUME WebInv, webState'.sid = 0, webState' \in WebBrowsers', ClearProtected,
           webServer' \in Seq(WebSessionRows), Len(webServer') <= MaxSessions,
           webIssued' \in 0..MaxTokens, webAccess' \subseteq 1..webIssued',
           webCall' \in [phase: {"idle"}, panel: Panels], webApplied' = webApplied, webReused' = webReused
    PROVE  WebInv'
<1>1. webResults' = [p \in Panels |-> 0] /\ webUpload' = [webUpload EXCEPT !.previewed = NoFile]
  BY DEF ClearProtected
<1>2. "plan" \in Panels /\ 0 \in 0..MaxSessions
  BY WebParts DEF Panels
<1>3. WebTypeOK'
  BY <1>1, <1>2 DEF WebInv, WebTypeOK, WebSessionRows, WebBrowsers
<1>4. ResultsAreOfSession' /\ PreviewIsOfUpload' /\ TokenHeld' /\ CallStands'
  BY <1>1, <1>2 DEF ResultsAreOfSession, PreviewIsOfUpload, TokenHeld, CallStands
<1> QED BY <1>3, <1>4 DEF WebInv, AppliedAtMostOnce, NeverReplaysToken

LEMMA SignedOutType ==
    ASSUME NEW w \in BOOLEAN, NEW n \in Nat, NEW m \in Nat
    PROVE  /\ [SignedOut EXCEPT !.warned = w] \in
                  [sid: 0..n, access: 0..m, refresh: 0..m, warned: BOOLEAN]
           /\ SignedOut \in [sid: 0..n, access: 0..m, refresh: 0..m, warned: BOOLEAN]
           /\ [SignedOut EXCEPT !.warned = w].sid = 0 /\ SignedOut.sid = 0
           /\ [SignedOut EXCEPT !.warned = w].warned = w
  BY DEF SignedOut

LEMMA SignsOut == ASSUME WebInv, WebSignOut PROVE WebInv'
<1>1. /\ webServer' \in Seq(WebSessionRows) /\ Len(webServer') = Len(webServer)
  <2>1. webState.sid \in 1..Len(webServer)
    BY WebParts DEF WebSignOut
  <2> QED BY <2>1, WebParts, WebKills DEF WebSignOut
<1>2. PICK w \in BOOLEAN : webState' = [SignedOut EXCEPT !.warned = w]
  BY DEF WebSignOut
<1>3. webState' \in WebBrowsers' /\ webState'.sid = 0
  BY <1>1, <1>2, WebParts, SignedOutType DEF WebSignOut, WebBrowsers
<1>4. UNCHANGED <<webIssued, webAccess, webCall, webApplied, webReused>> /\ webCall.phase = "idle"
      /\ ClearProtected
  BY DEF WebSignOut
<1>5. webCall' \in [phase: {"idle"}, panel: Panels]
  BY <1>4, WebParts DEF WebInv, WebTypeOK
<1> QED BY <1>1, <1>3, <1>4, <1>5, WebParts, Forgets

LEMMA SignsIn == ASSUME WebInv, WebSignIn PROVE WebInv'
<1> DEFINE new == [alive |-> TRUE, token |-> webIssued']
<1>1. /\ webCall.phase = "idle" /\ Len(webServer) < MaxSessions /\ webIssued < MaxTokens
      /\ webIssued' = webIssued + 1 /\ webServer' = Append(webServer, new)
      /\ webAccess' = webAccess \cup {webIssued'}
      /\ UNCHANGED <<webCall, webApplied, webReused>>
  BY DEF WebSignIn
<1>2. new \in WebSessionRows /\ new.token = webIssued'
  BY <1>1, WebParts DEF WebSessionRows
<1> HIDE DEF new
<1>3. /\ webServer' \in Seq(WebSessionRows) /\ Len(webServer') = Len(webServer) + 1
      /\ webServer'[Len(webServer) + 1] = new
  BY <1>1, <1>2, WebParts, AppendProperties
<1>4. webIssued' \in 0..MaxTokens /\ webIssued' \in Nat /\ webAccess' \subseteq 1..webIssued'
  BY <1>1, WebParts
<1>5. webCall' \in [phase: {"idle"}, panel: Panels]
  BY <1>1 DEF WebInv, WebTypeOK
<1>6. CASE WebForget
  <2>1. webState' = SignedOut /\ Len(webServer') \in Nat
    BY <1>3, <1>6, WebParts DEF WebForget
  <2>2. webState' \in WebBrowsers' /\ webState'.sid = 0
    BY <1>4, <2>1, SignedOutType DEF WebBrowsers
  <2>3. ClearProtected /\ Len(webServer') <= MaxSessions
    BY <1>1, <1>3, <1>6, WebParts DEF WebForget
  <2> QED BY <1>1, <1>3, <1>4, <1>5, <2>2, <2>3, Forgets
<1>7. CASE /\ webState' = [sid |-> Len(webServer) + 1, access |-> webIssued',
                           refresh |-> webIssued', warned |-> FALSE]
           /\ ClearProtected
  <2>1. webResults' = [p \in Panels |-> 0] /\ webUpload' = [webUpload EXCEPT !.previewed = NoFile]
    BY <1>7 DEF ClearProtected
  <2>2. "plan" \in Panels /\ 0 \in 0..MaxSessions
    BY WebParts DEF Panels
  <2>3. webState' \in [sid: 0..Len(webServer'), access: 0..webIssued',
                       refresh: 0..webIssued', warned: BOOLEAN]
    BY <1>3, <1>4, <1>7, WebParts
  <2>4. WebTypeOK'
    BY <1>1, <1>3, <1>4, <1>5, <2>1, <2>2, <2>3 DEF WebInv, WebTypeOK, WebSessionRows
  <2>5. ResultsAreOfSession' /\ PreviewIsOfUpload' /\ CallStands'
    BY <1>1, <2>1, <2>2 DEF ResultsAreOfSession, PreviewIsOfUpload, CallStands
  <2>6. TokenHeld'
    BY <1>2, <1>3, <1>7 DEF TokenHeld
  <2>7. Len(webServer') <= MaxSessions
    BY <1>1, <1>3, WebParts
  <2> QED BY <1>1, <2>4, <2>5, <2>6, <2>7 DEF WebInv, AppliedAtMostOnce, NeverReplaysToken
<1> QED BY <1>6, <1>7 DEF WebSignIn

-----------------------------------------------------------------------------
(* Requests.                                                               *)

\* A step that changes only the request and how often it was carried out.
LEMMA WebCallMoves ==
    ASSUME WebInv, UNCHANGED <<webServer, webIssued, webAccess, webState, webResults, webUpload, webReused>>,
           webState.sid # 0, webCall' \in [phase: {"first", "rotate", "again"}, panel: Panels],
           webApplied' = 0
    PROVE  WebInv'
<1>1. WebTypeOK'
  BY DEF WebInv, WebTypeOK
<1> QED BY <1>1 DEF WebInv, ResultsAreOfSession, PreviewIsOfUpload, TokenHeld, CallStands,
                    AppliedAtMostOnce, NeverReplaysToken

\* What a script stores is of the session it asked for, and a plan's is of its file.
LEMMA WebSettles ==
    ASSUME WebInv, NEW p \in Panels, NEW result \in {0, webState.sid}, WebSettle(p, result),
           UNCHANGED <<webServer, webIssued, webAccess, webState, webReused>>,
           webCall' \in [phase: {"idle"}, panel: Panels], webApplied' \in {0, 1}
    PROVE  WebInv'
<1>1. result \in 0..MaxSessions
  BY WebParts
<1>2. webResults' = [webResults EXCEPT ![p] = result]
  BY DEF WebSettle
<1>3. webUpload' = IF p # "plan" THEN webUpload
                   ELSE [webUpload EXCEPT !.previewed = IF result = 0 THEN NoFile ELSE webUpload.file]
  BY DEF WebSettle
<1>4. /\ webUpload \in [file: Files \cup {NoFile}, previewed: Files \cup {NoFile}]
      /\ webResults \in [Panels -> 0..MaxSessions]
      /\ "plan" \in Panels
  BY DEF WebInv, WebTypeOK, Panels
<1>5. /\ webUpload' \in [file: Files \cup {NoFile}, previewed: Files \cup {NoFile}]
      /\ p = "plan" /\ result # 0 => webUpload'.previewed = webUpload'.file
      /\ p # "plan" => webUpload' = webUpload
  BY <1>3, <1>4
<1>6. WebTypeOK'
  BY <1>1, <1>2, <1>4, <1>5 DEF WebInv, WebTypeOK
<1>7. ResultsAreOfSession'
  BY <1>2, <1>4 DEF WebInv, ResultsAreOfSession
<1>8. PreviewIsOfUpload'
  BY <1>2, <1>4, <1>5 DEF WebInv, PreviewIsOfUpload
<1> QED BY <1>6, <1>7, <1>8 DEF WebInv, TokenHeld, CallStands, AppliedAtMostOnce, NeverReplaysToken

LEMMA WebAsks == ASSUME WebInv, NEW p \in Panels, WebAsk(p) PROVE WebInv'
  BY WebCallMoves DEF WebAsk, WebReady, Hang

LEMMA AsksPreview == ASSUME WebInv, WebAskPreview PROVE WebInv'
<1>1. "plan" \in Panels
  BY DEF Panels
<1>2. CASE webUpload.file \in Unreadable
  <2>1. webCall' \in [phase: {"idle"}, panel: Panels] /\ webApplied' \in {0, 1}
    BY <1>2 DEF WebAskPreview, WebReady, WebInv, WebTypeOK, AppliedAtMostOnce
  <2> QED BY <1>1, <1>2, <2>1, WebSettles DEF WebAskPreview
<1>3. CASE webUpload.file \notin Unreadable
  BY <1>1, <1>3, WebAsks DEF WebAskPreview
<1> QED BY <1>2, <1>3

LEMMA WebUploads == ASSUME WebInv, NEW f \in Files, WebUploadPlan(f) PROVE WebInv'
<1>1. /\ webUpload' \in [file: Files \cup {NoFile}, previewed: Files \cup {NoFile}]
      /\ webResults' = [webResults EXCEPT !["plan"] = 0]
      /\ UNCHANGED <<webServer, webIssued, webAccess, webState, webCall, webApplied, webReused>>
  BY DEF WebUploadPlan
<1>2. webResults \in [Panels -> 0..MaxSessions] /\ "plan" \in Panels /\ 0 \in 0..MaxSessions
  BY WebParts DEF Panels
<1>3. WebTypeOK'
  BY <1>1, <1>2 DEF WebInv, WebTypeOK
<1>4. ResultsAreOfSession' /\ PreviewIsOfUpload'
  BY <1>1, <1>2 DEF WebInv, ResultsAreOfSession, PreviewIsOfUpload
<1> QED BY <1>1, <1>3, <1>4 DEF WebInv, TokenHeld, CallStands, AppliedAtMostOnce, NeverReplaysToken

LEMMA HangsUp == HangUp => webCall' \in [phase: {"idle"}, panel: Panels]
  BY DEF HangUp, NoWebCall, Panels

LEMMA WebAnswers == ASSUME WebInv, WebServe \/ WebUnreachable PROVE WebInv'
<1>1. webApplied = 0 /\ webCall.panel \in Panels
  BY WebParts DEF WebServe, WebUnreachable, WebInv, CallStands
<1>2. CASE WebServe
  BY <1>1, <1>2, HangsUp, WebSettles DEF WebServe
<1>3. CASE WebUnreachable
  BY <1>1, <1>3, HangsUp, WebSettles DEF WebUnreachable
<1> QED BY <1>2, <1>3

LEMMA GivesUp ==
    ASSUME WebInv, WebGiveUp, webServer' \in Seq(WebSessionRows), Len(webServer') <= MaxSessions,
           webIssued' \in 0..MaxTokens, webAccess' \subseteq 1..webIssued',
           webApplied' = webApplied, webReused' = webReused
    PROVE  WebInv'
<1>1. Len(webServer') \in Nat /\ webIssued' \in Nat
  BY LenProperties, WebParts
<1>2. webState' \in WebBrowsers' /\ webState'.sid = 0
  BY <1>1, SignedOutType DEF WebGiveUp, WebForget, WebBrowsers
<1> QED BY <1>2, HangsUp, Forgets DEF WebGiveUp, WebForget

LEMMA IsRefused == ASSUME WebInv, WebRefuse PROVE WebInv'
<1>1. CASE webCall.phase = "first"
  <2>1. webCall' \in [phase: {"rotate"}, panel: Panels] /\ webState.sid # 0 /\ webApplied = 0
    BY <1>1, WebParts DEF WebRefuse, Hang, WebInv, CallStands
  <2> QED BY <1>1, <2>1, WebCallMoves DEF WebRefuse
<1>2. CASE webCall.phase # "first"
  BY <1>2, WebParts, GivesUp DEF WebRefuse, WebGiveUp
<1> QED BY <1>1, <1>2

LEMMA RotationRefused == ASSUME WebInv, WebRotationRefused PROVE WebInv'
<1>1. webState.sid \in 1..Len(webServer) /\ webState.sid # 0
  BY WebParts DEF WebRotationRefused, WebInv, CallStands
<1>2. webServer' \in Seq(WebSessionRows) /\ Len(webServer') = Len(webServer)
  BY <1>1, WebParts, WebKills DEF WebRotationRefused
<1>3. webReused' = webReused
  BY <1>1 DEF WebRotationRefused, WebInv, TokenHeld, WebTypeOK, NeverReplaysToken
<1> QED BY <1>2, <1>3, WebParts, GivesUp DEF WebRotationRefused

LEMMA WebRotates == ASSUME WebInv, WebRotate PROVE WebInv'
<1> DEFINE i == webState.sid
           e == [webServer[i] EXCEPT !.token = webIssued']
<1>1. i \in 1..Len(webServer) /\ i # 0 /\ webApplied = 0
  BY WebParts DEF WebRotate, WebInv, CallStands
<1>2. /\ webIssued' = webIssued + 1 /\ webIssued' \in 1..MaxTokens
      /\ webAccess' = webAccess \cup {webIssued'} /\ webAccess' \subseteq 1..webIssued'
      /\ UNCHANGED <<webApplied, webReused>>
  BY WebParts DEF WebRotate
<1>3. webServer[i] \in WebSessionRows
  BY <1>1, WebParts, ElementOfSeq
<1>4. e \in WebSessionRows /\ e.token = webIssued'
  BY <1>2, <1>3 DEF WebSessionRows
<1>5. webServer' = [webServer EXCEPT ![i] = e]
  BY DEF WebRotate
<1> HIDE DEF e
<1>6. /\ webServer' \in Seq(WebSessionRows) /\ Len(webServer') = Len(webServer)
      /\ webServer'[i].token = webIssued'
  BY <1>1, <1>4, <1>5, WebParts, ExceptSeq
<1>7. CASE WebGiveUp
  BY <1>2, <1>6, <1>7, WebParts, GivesUp
<1>8. CASE /\ webState' = [webState EXCEPT !.access = webIssued', !.refresh = webIssued']
           /\ ClearProtected
           /\ Hang(webCall.panel, "again")
  <2>1. webResults' = [p \in Panels |-> 0] /\ webUpload' = [webUpload EXCEPT !.previewed = NoFile]
    BY <1>8 DEF ClearProtected
  <2>2. "plan" \in Panels /\ 0 \in 0..MaxSessions
    BY WebParts DEF Panels
  <2>3. /\ webState' \in [sid: 0..Len(webServer'), access: 0..webIssued',
                          refresh: 0..webIssued', warned: BOOLEAN]
        /\ webState'.sid = i /\ webState'.refresh = webIssued'
    <3>1. webState \in [sid: 0..Len(webServer), access: 0..webIssued,
                        refresh: 0..webIssued, warned: BOOLEAN]
      BY DEF WebInv, WebTypeOK
    <3>2. webIssued' \in 0..webIssued'
      BY <1>2
    <3> QED BY <1>6, <1>8, <3>1, <3>2
  <2>4. webCall' \in [phase: {"again"}, panel: Panels]
    BY <1>8, WebParts DEF Hang
  <2>5. WebTypeOK'
    <3>1. webIssued' \in 0..MaxTokens /\ webApplied' \in Nat /\ webReused' \in BOOLEAN
      BY <1>1, <1>2 DEF WebInv, WebTypeOK
    <3>2. /\ webResults' \in [Panels -> 0..MaxSessions]
          /\ webUpload' \in [file: Files \cup {NoFile}, previewed: Files \cup {NoFile}]
      BY <2>1, <2>2 DEF WebInv, WebTypeOK
    <3> QED BY <1>2, <1>6, <2>3, <2>4, <3>1, <3>2 DEF WebTypeOK, WebSessionRows
  <2>6. ResultsAreOfSession' /\ PreviewIsOfUpload' /\ CallStands' /\ TokenHeld'
    BY <1>1, <1>2, <1>6, <2>1, <2>2, <2>3, <2>4
       DEF ResultsAreOfSession, PreviewIsOfUpload, CallStands, TokenHeld
  <2> QED BY <1>2, <1>6, <2>5, <2>6, WebParts DEF WebInv, AppliedAtMostOnce, NeverReplaysToken
<1> QED BY <1>7, <1>8 DEF WebRotate

-----------------------------------------------------------------------------
LEMMA WebInitInv == WebInit => WebInv
<1> SUFFICES ASSUME WebInit PROVE WebInv
  OBVIOUS
<1>1. webServer \in Seq(WebSessionRows) /\ Len(webServer) = 0
  BY EmptySeq DEF WebInit
<1>2. /\ webState \in [sid: 0..0, access: 0..0, refresh: 0..0, warned: BOOLEAN]
      /\ webState.sid = 0
  BY DEF WebInit, SignedOut
<1>3. webCall \in [phase: {"idle"}, panel: Panels]
  BY DEF WebInit, NoWebCall, Panels
<1>4. /\ webIssued = 0 /\ webAccess = {} /\ webResults = [p \in Panels |-> 0]
      /\ webUpload = [file |-> NoFile, previewed |-> NoFile] /\ webApplied = 0 /\ webReused = FALSE
      /\ "plan" \in Panels
  BY DEF WebInit, Panels
<1>5. WebTypeOK
  <2>1. webIssued \in 0..MaxTokens /\ webAccess \subseteq 1..webIssued /\ 0 \in 0..MaxSessions
    BY <1>4, WebAssumption
  <2>2. webState \in [sid: 0..Len(webServer), access: 0..webIssued, refresh: 0..webIssued, warned: BOOLEAN]
    BY <1>1, <1>2, <1>4
  <2>3. /\ webResults \in [Panels -> 0..MaxSessions]
        /\ webUpload \in [file: Files \cup {NoFile}, previewed: Files \cup {NoFile}]
        /\ webApplied \in Nat /\ webReused \in BOOLEAN
    BY <1>4, <2>1
  <2> QED BY <1>1, <1>3, <2>1, <2>2, <2>3 DEF WebTypeOK, WebSessionRows
<1>6. ResultsAreOfSession /\ PreviewIsOfUpload /\ TokenHeld /\ CallStands
  BY <1>2, <1>3, <1>4 DEF ResultsAreOfSession, PreviewIsOfUpload, TokenHeld, CallStands
<1> QED BY <1>1, <1>4, <1>5, <1>6, WebAssumption DEF WebInv, AppliedAtMostOnce, NeverReplaysToken

LEMMA WebNextInv == WebInv /\ [WebNext]_webVars => WebInv'
<1> SUFFICES ASSUME WebInv, [WebNext]_webVars PROVE WebInv'
  OBVIOUS
<1>1. CASE UNCHANGED webVars
  BY <1>1 DEF webVars, WebInv, WebTypeOK, ResultsAreOfSession, PreviewIsOfUpload, TokenHeld, CallStands,
              AppliedAtMostOnce, NeverReplaysToken
<1>2. ASSUME NEW p \in Reports, WebAskReport(p) PROVE WebInv'
  BY <1>2, WebAsks DEF WebAskReport, Panels
<1> QED BY <1>1, <1>2, SignsIn, SignsOut, AsksPreview, WebUploads, WebAnswers, IsRefused, WebRotates,
           RotationRefused, WebExpires, WebRevokes DEF WebNext

LEMMA WebKept == WebSpec => []WebInv
  BY WebInitInv, WebNextInv, PTL DEF WebSpec

\* Every variable keeps its type.
THEOREM WebTypesHold == WebSpec => []WebTypeOK
<1>1. WebInv => WebTypeOK
  BY DEF WebInv
<1> QED BY <1>1, WebKept, PTL

\* No result outlives the session it was answered to, and no preview its file.
THEOREM NothingShownOutlives == WebSpec => [](ResultsAreOfSession /\ PreviewIsOfUpload)
<1>1. WebInv => ResultsAreOfSession /\ PreviewIsOfUpload
  BY DEF WebInv
<1> QED BY <1>1, WebKept, PTL

\* Whatever answers are lost, a consumed refresh token is never shown, and a click is
\* carried out at most once.
THEOREM RetriesAreSafe == WebSpec => [](NeverReplaysToken /\ AppliedAtMostOnce)
<1>1. WebInv => NeverReplaysToken /\ AppliedAtMostOnce
  BY DEF WebInv
<1> QED BY <1>1, WebKept, PTL

\* A sign-out that shows no warning has ended the session on the server.
THEOREM SignOutIsHonest == WebSpec => SignedOutMeansRevoked
<1> DEFINE Honest == webState.sid # 0 /\ webState'.sid = 0 /\ webCall.phase = "idle" /\ ~webState'.warned
                     => ~webServer'[webState.sid].alive
<1>1. WebInv /\ [WebNext]_webVars => [Honest]_webVars
  <2> SUFFICES ASSUME WebInv, WebNext, webState.sid # 0, webState'.sid = 0, webCall.phase = "idle",
                      ~webState'.warned
               PROVE  ~webServer'[webState.sid].alive
    OBVIOUS
  <2>1. WebSignOut
    BY DEF WebNext, WebSignIn, WebAskReport, WebAsk, WebAskPreview, WebUploadPlan, WebServe, WebRefuse,
           WebUnreachable, WebRotate, WebRotationRefused, WebExpire, WebRevoke
  <2>2. Admitted /\ webServer' = [webServer EXCEPT ![webState.sid].alive = FALSE]
    BY <2>1, SignedOutType DEF WebSignOut, SignedOut
  <2>3. webState.sid \in 1..Len(webServer) /\ webServer \in Seq(WebSessionRows)
    BY WebParts
  <2> QED BY <2>2, <2>3, WebKills
<1> QED BY <1>1, WebKept, PTL DEF WebSpec, SignedOutMeansRevoked

-----------------------------------------------------------------------------
(* The login throttle.  Attempts that are dropped or registered late only  *)
(* shorten the list, so it never holds more than the failures since the    *)
(* last success, and a lockout is earned.  A request's time is not after   *)
(* the clock's: whoever asks during a lockout finds it, so the requests    *)
(* that still fail were past the check when it began, and each fails once  *)
(* (WaitForTheEnd).                                                        *)

LtCallType == [step: {"idle", "check", "verify"}, now: 0..LtMaxTime]
LtVerifying == {l \in Logins : LtAt(l, "verify")}

\* A request at work began when the clock showed a time it has reached.
BeganBefore ==
    \A l \in Logins : ltCalls[l].now <= ltClock /\ (~LtAt(l, "idle") => ltCalls[l].now > 0)

\* A lockout, and every attempt counted towards one, is of a failure.
Earned == /\ Len(ltAttempts) <= ltFailed
          /\ ltLockout # 0 => ltFailed = LoginAttempts

LtInv == LtTypeOK /\ BeganBefore /\ Earned

\* Those that fail during a lockout were past the check, and one made the lockout.
WaitForTheEnd ==
    /\ ltAfter <= Cardinality(Logins) - 1
    /\ LockedAt(ltClock) => ltAfter + Cardinality(LtVerifying) <= Cardinality(Logins) - 1

-----------------------------------------------------------------------------
\* Dropping old attempts keeps the others.
LEMMA PrunedShorter ==
    ASSUME NEW S, NEW attempts \in Seq(S), NEW time
    PROVE  /\ Pruned(attempts, time) \in Seq(S)
           /\ Len(Pruned(attempts, time)) <= Len(attempts)
<1> DEFINE old == {i \in DOMAIN attempts : \A j \in 1..i : attempts[j] + LoginWindow < time}
           n == Len(attempts)
           m == Cardinality(old) + 1
<1>1. n \in Nat /\ DOMAIN attempts = 1..n
  BY LenProperties
<1>2. IsFiniteSet(1..n) /\ Cardinality(1..n) = n
  BY <1>1, FS_Interval
<1>3. IsFiniteSet(old) /\ Cardinality(old) <= n
  BY <1>1, <1>2, FS_Subset
<1>4. m \in Nat /\ m >= 1
  BY <1>3, FS_CardinalityType
<1> HIDE DEF old, m
<1>5. \A i \in m..n : attempts[i] \in S
  BY <1>1, <1>4, ElementOfSeq
<1>6. SubSeq(attempts, m, n) \in Seq(S) /\ Len(SubSeq(attempts, m, n)) = IF m <= n THEN n - m + 1 ELSE 0
  BY <1>1, <1>4, <1>5, SubSeqProperties
<1>7. Pruned(attempts, time) = SubSeq(attempts, m, n)
  BY DEF Pruned, old, m
<1> QED BY <1>1, <1>4, <1>6, <1>7

LEMMA LtInitInv == LtInit => LtInv
<1> SUFFICES ASSUME LtInit PROVE LtInv
  OBVIOUS
<1>1. ltAttempts \in Seq(1..LtMaxTime) /\ Len(ltAttempts) = 0
  BY EmptySeq DEF LtInit
<1> QED BY <1>1, ThrottleAssumption DEF LtInit, LtRests, LtInv, LtTypeOK, BeganBefore, Earned, LtAt

LEMMA LtParts ==
    ASSUME LtInv
    PROVE  /\ LtMaxTime \in Nat \ {0} /\ LoginAttempts \in Nat \ {0} /\ LoginWindow \in Nat
           /\ LockoutDuration \in Nat \ {0}
           /\ ltClock \in 1..LtMaxTime /\ ltAttempts \in Seq(1..LtMaxTime)
           /\ Len(ltAttempts) \in Nat /\ Len(ltAttempts) < LoginAttempts
           /\ ltLockout \in 0..(LtMaxTime + LockoutDuration)
           /\ ltCalls \in [Logins -> LtCallType] /\ ltFailed \in 0..LoginAttempts /\ ltAfter \in Nat
           /\ \A l \in Logins : ltCalls[l] \in LtCallType /\ ltCalls[l].now \in Nat
                                /\ ltCalls[l].now <= ltClock
  BY ThrottleAssumption, LenProperties DEF LtInv, LtTypeOK, BeganBefore, LtCallType

\* A request goes on or ends: it keeps the time it began, or begins now.
LEMMA LtCallsMove ==
    ASSUME LtInv, NEW l \in Logins, NEW c \in LtCallType, ltCalls' = [ltCalls EXCEPT ![l] = c],
           c.now <= ltClock, c.step = "idle" \/ c.now > 0, UNCHANGED ltClock
    PROVE  /\ ltCalls' \in [Logins -> LtCallType]
           /\ BeganBefore'
  BY LtParts DEF LtInv, BeganBefore, LtAt

LEMMA LtResting == LtRests \in LtCallType /\ LtRests.now = 0 /\ LtRests.step = "idle"
  BY ThrottleAssumption DEF LtRests, LtCallType

LEMMA LtTicks == ASSUME LtInv, LtTick PROVE LtInv'
  BY LtParts DEF LtTick, LtInv, LtTypeOK, BeganBefore, Earned, LtCallType, LtAt

LEMMA LtAsks == ASSUME LtInv, NEW l \in Logins, LtAsk(l) PROVE LtInv'
<1> DEFINE c == [step |-> "check", now |-> ltClock]
<1>1. c \in LtCallType /\ c.now <= ltClock /\ c.now > 0
  BY LtParts DEF LtCallType
<1>2. ltCalls' = [ltCalls EXCEPT ![l] = c] /\ UNCHANGED <<ltClock, ltAttempts, ltLockout, ltFailed, ltAfter>>
  BY DEF LtAsk
<1> HIDE DEF c
<1> QED BY <1>1, <1>2, LtCallsMove DEF LtInv, LtTypeOK, Earned, LtCallType

LEMMA LtChecks == ASSUME LtInv, NEW l \in Logins, LtCheck(l) PROVE LtInv'
<1>1. CASE LockedAt(ltCalls[l].now)
  <2>1. ltCalls' = [ltCalls EXCEPT ![l] = LtRests]
        /\ UNCHANGED <<ltClock, ltAttempts, ltLockout, ltFailed, ltAfter>>
    BY <1>1 DEF LtCheck
  <2>2. ltCalls' \in [Logins -> LtCallType] /\ BeganBefore'
    <3>1. LtRests.now <= ltClock /\ UNCHANGED ltClock
      BY <2>1, LtResting, LtParts
    <3> QED BY <2>1, <3>1, LtCallsMove, LtResting
  <2> QED BY <2>1, <2>2 DEF LtInv, LtTypeOK, Earned, LtCallType
<1>2. CASE ~LockedAt(ltCalls[l].now)
  <2> DEFINE c == [ltCalls[l] EXCEPT !.step = "verify"]
  <2>1. c \in LtCallType /\ c.now <= ltClock /\ c.now > 0
    BY LtParts DEF LtCallType, LtCheck, LtAt, LtInv, BeganBefore
  <2>2. /\ ltCalls' = [ltCalls EXCEPT ![l] = c]
        /\ ltAttempts' = Pruned(ltAttempts, ltCalls[l].now)
        /\ UNCHANGED <<ltClock, ltLockout, ltFailed, ltAfter>>
    BY <1>2 DEF LtCheck
  <2> HIDE DEF c
  <2>3. ltCalls' \in [Logins -> LtCallType] /\ BeganBefore'
    BY <2>1, <2>2, LtCallsMove
  <2>4. ltAttempts' \in Seq(1..LtMaxTime) /\ Len(ltAttempts') <= Len(ltAttempts)
    BY <2>2, PrunedShorter, LtParts
  <2>5. Len(ltAttempts') \in Nat
    BY <2>4, LenProperties
  <2> QED BY <2>2, <2>3, <2>4, <2>5, LtParts DEF LtInv, LtTypeOK, Earned, LtCallType
<1> QED BY <1>1, <1>2

LEMMA LtFails == ASSUME LtInv, NEW l \in Logins, LtFail(l) PROVE LtInv'
<1> DEFINE attempts == Append(ltAttempts, ltCalls[l].now)
           full == Len(attempts) >= LoginAttempts
<1>1. ltCalls' \in [Logins -> LtCallType] /\ BeganBefore'
  <2>1. ltCalls' = [ltCalls EXCEPT ![l] = LtRests] /\ UNCHANGED ltClock /\ LtRests.now <= ltClock
    BY LtResting, LtParts DEF LtFail
  <2> QED BY <2>1, LtCallsMove, LtResting
<1>2. ltCalls[l].now \in 1..LtMaxTime
  <2>1. ltCalls[l].step = "verify"
    BY DEF LtFail, LtAt
  <2>2. BeganBefore
    BY DEF LtInv
  <2> QED BY <2>1, <2>2, LtParts DEF BeganBefore, LtAt
<1>3. attempts \in Seq(1..LtMaxTime) /\ Len(attempts) = Len(ltAttempts) + 1
  BY <1>2, LtParts, AppendProperties
<1>4. << >> \in Seq(1..LtMaxTime) /\ Len(<< >>) = 0
  BY EmptySeq
<1>5. /\ ltAttempts' = IF full THEN <<>> ELSE attempts
      /\ ltLockout' = IF full THEN ltCalls[l].now + LockoutDuration ELSE ltLockout
      /\ ltFailed' = IF ltFailed < LoginAttempts THEN ltFailed + 1 ELSE ltFailed
      /\ ltAfter' = IF LockedAt(ltClock) THEN ltAfter + 1 ELSE 0
      /\ UNCHANGED ltClock
  BY DEF LtFail
<1>6. Len(ltAttempts) <= ltFailed /\ (ltLockout # 0 => ltFailed = LoginAttempts)
  BY DEF LtInv, Earned
<1> HIDE DEF attempts
<1>7. ltAttempts' \in Seq(1..LtMaxTime) /\ Len(ltAttempts') < LoginAttempts
  <2>1. CASE full
    BY <1>4, <1>5, <2>1, LtParts
  <2>2. CASE ~full
    BY <1>3, <1>5, <2>2, LtParts
  <2> QED BY <2>1, <2>2
<1>8. ltLockout' \in 0..(LtMaxTime + LockoutDuration) /\ ltFailed' \in 0..LoginAttempts /\ ltAfter' \in Nat
  <2>1. ltCalls[l].now + LockoutDuration \in 0..(LtMaxTime + LockoutDuration)
    BY <1>2, LtParts
  <2>2. ltLockout' \in 0..(LtMaxTime + LockoutDuration)
    <3>1. ltLockout \in 0..(LtMaxTime + LockoutDuration)
      BY LtParts
    <3> HIDE DEF full
    <3> QED BY <1>5, <2>1, <3>1
  <2>3. ltFailed' \in 0..LoginAttempts
    BY <1>5, LtParts
  <2>4. ltAfter' \in Nat
    BY <1>5, LtParts
  <2> QED BY <2>2, <2>3, <2>4
<1>9. Earned'
  <2>1. CASE full
    BY <1>2, <1>3, <1>4, <1>5, <1>6, <2>1, LtParts DEF Earned
  <2>2. CASE ~full
    <3>1. ltAttempts' = attempts /\ ltLockout' = ltLockout
      BY <1>5, <2>2
    <3>2. Len(ltAttempts') <= ltFailed'
      <4>1. /\ Len(ltAttempts) \in Nat /\ LoginAttempts \in Nat /\ ltFailed \in 0..LoginAttempts
            /\ Len(ltAttempts') = Len(ltAttempts) + 1
        BY <1>3, <3>1, LtParts
      <4>2. Len(ltAttempts') < LoginAttempts
        BY <2>2, <3>1, <4>1
      <4>3. ltFailed' = IF ltFailed < LoginAttempts THEN ltFailed + 1 ELSE ltFailed
        BY <1>5
      <4> QED BY <1>6, <4>1, <4>2, <4>3
    <3>3. ltLockout' # 0 => ltFailed' = LoginAttempts
      BY <1>5, <1>6, <3>1, LtParts
    <3> QED BY <3>2, <3>3 DEF Earned
  <2> QED BY <2>1, <2>2
<1> QED BY <1>1, <1>5, <1>7, <1>8, <1>9, LtParts DEF LtInv, LtTypeOK, LtCallType

LEMMA LtSucceeds == ASSUME LtInv, NEW l \in Logins, LtSucceed(l) PROVE LtInv'
<1>1. ltCalls' \in [Logins -> LtCallType] /\ BeganBefore'
  <2>1. ltCalls' = [ltCalls EXCEPT ![l] = LtRests] /\ UNCHANGED ltClock /\ LtRests.now <= ltClock
    BY LtResting, LtParts DEF LtSucceed
  <2> QED BY <2>1, LtCallsMove, LtResting
<1>2. << >> \in Seq(1..LtMaxTime) /\ Len(<< >>) = 0
  BY EmptySeq
<1> QED BY <1>1, <1>2, LtParts DEF LtSucceed, LtInv, LtTypeOK, Earned, LtCallType

LEMMA LtNextInv == LtInv /\ [LtNext]_ltVars => LtInv'
<1> SUFFICES ASSUME LtInv, [LtNext]_ltVars PROVE LtInv'
  OBVIOUS
<1>1. CASE UNCHANGED ltVars
  BY <1>1 DEF ltVars, LtInv, LtTypeOK, BeganBefore, Earned, LtAt
<1> QED BY <1>1, LtTicks, LtAsks, LtChecks, LtFails, LtSucceeds DEF LtNext

LEMMA LtKept == LtSpec => []LtInv
  BY LtInitInv, LtNextInv, PTL DEF LtSpec

\* Every variable keeps its type; the list of attempts stays below the limit.
THEOREM ThrottleTypes == LtSpec => []LtTypeOK
<1>1. LtInv => LtTypeOK
  BY DEF LtInv
<1> QED BY <1>1, LtKept, PTL

\* Whoever is locked out has failed to the limit since the last success, however
\* requests overlap and whatever attempts were dropped as too old.
THEOREM LockoutsAreEarned == LtSpec => []LockoutIsEarned
<1>1. LtInv => LockoutIsEarned
  BY LtParts DEF LtInv, Earned, LockoutIsEarned, LockedAt
<1> QED BY <1>1, LtKept, PTL

-----------------------------------------------------------------------------
(* Counting the requests past the check.                                   *)

LEMMA WaitInit == ASSUME IsFiniteSet(Logins), Logins # {}, LtInit PROVE WaitForTheEnd
<1>1. Cardinality(Logins) \in Nat /\ Cardinality(Logins) # 0
  BY FS_CardinalityType, FS_EmptySet
<1> QED BY <1>1 DEF LtInit, WaitForTheEnd, LockedAt

LEMMA WaitKept ==
    ASSUME IsFiniteSet(Logins), Logins # {}, LtInv, LtInv', WaitForTheEnd, [LtNext]_ltVars
    PROVE  WaitForTheEnd'
<1> DEFINE N == Cardinality(Logins)
<1>1. /\ N \in Nat /\ IsFiniteSet(LtVerifying) /\ Cardinality(LtVerifying) \in Nat
      /\ IsFiniteSet(LtVerifying') /\ Cardinality(LtVerifying') \in Nat
  <2>1. LtVerifying \in SUBSET Logins /\ LtVerifying' \in SUBSET Logins
    BY DEF LtVerifying
  <2> QED BY <2>1, FS_Subset, FS_CardinalityType
<1>2. N >= 1
  BY <1>1, FS_EmptySet, FS_CardinalityType
<1>3. ASSUME LtVerifying' \subseteq LtVerifying
      PROVE  Cardinality(LtVerifying') <= Cardinality(LtVerifying)
  BY <1>1, <1>3, FS_Subset
<1>4. ltAfter \in Nat /\ ltClock \in Nat /\ ltLockout \in Nat
      /\ ltAfter' \in Nat /\ ltClock' \in Nat /\ ltLockout' \in Nat
  BY LtParts DEF LtInv, LtTypeOK
<1>5. CASE UNCHANGED ltVars
  BY <1>5 DEF ltVars, WaitForTheEnd, LtVerifying, LtAt, LockedAt
<1>6. CASE LtTick
  <2>1. LtVerifying' = LtVerifying
    BY <1>6 DEF LtTick, LtVerifying, LtAt
  <2> QED BY <1>1, <1>2, <1>4, <1>6, <2>1 DEF LtTick, WaitForTheEnd, LockedAt
<1>7. ASSUME NEW l \in Logins, LtAsk(l) PROVE WaitForTheEnd'
  <2>1. LtVerifying' \subseteq LtVerifying
    BY <1>7, LtParts DEF LtAsk, LtVerifying, LtAt
  <2> QED BY <1>1, <1>3, <1>4, <1>7, <2>1 DEF LtAsk, WaitForTheEnd, LockedAt
<1>8. ASSUME NEW l \in Logins, LtCheck(l) PROVE WaitForTheEnd'
  <2>1. CASE LockedAt(ltClock)
    <3>1. LockedAt(ltCalls[l].now)
      BY <1>4, <2>1, LtParts DEF LockedAt
    <3>2. LtVerifying' \subseteq LtVerifying
      BY <1>8, <3>1, LtParts, LtResting DEF LtCheck, LtVerifying, LtAt
    <3> QED BY <1>1, <1>3, <1>4, <1>8, <3>2 DEF LtCheck, WaitForTheEnd, LockedAt
  <2>2. CASE ~LockedAt(ltClock)
    BY <1>8, <2>2 DEF LtCheck, WaitForTheEnd, LockedAt
  <2> QED BY <2>1, <2>2
<1>9. ASSUME NEW l \in Logins, LtFail(l) PROVE WaitForTheEnd'
  <2>1. l \in LtVerifying /\ LtVerifying' = LtVerifying \ {l}
    BY <1>9, LtParts, LtResting DEF LtFail, LtVerifying, LtAt
  <2>2. Cardinality(LtVerifying') = Cardinality(LtVerifying) - 1 /\ Cardinality(LtVerifying) <= N
    <3>1. LtVerifying \in SUBSET Logins
      BY DEF LtVerifying
    <3> QED BY <1>1, <2>1, <3>1, FS_RemoveElement, FS_Subset
  <2>3. ltAfter' = IF LockedAt(ltClock) THEN ltAfter + 1 ELSE 0
    BY <1>9 DEF LtFail
  <2> QED BY <1>1, <1>2, <1>4, <2>2, <2>3 DEF WaitForTheEnd
<1>10. ASSUME NEW l \in Logins, LtSucceed(l) PROVE WaitForTheEnd'
  BY <1>1, <1>2, <1>4, <1>10 DEF LtSucceed, WaitForTheEnd, LockedAt
<1> QED BY <1>5, <1>6, <1>7, <1>8, <1>9, <1>10 DEF LtNext

\* While an identifier is locked out only requests past the check when the lockout
\* began still fail, each once, and the one that made it is not among them.
THEOREM LockoutHolds ==
    ASSUME IsFiniteSet(Logins), Logins # {}
    PROVE  LtSpec => []OnlyEarlierFail(Cardinality(Logins) - 1)
<1>1. LtInit => LtInv /\ WaitForTheEnd
  BY LtInitInv, WaitInit
<1>2. LtInv /\ WaitForTheEnd /\ [LtNext]_ltVars => LtInv' /\ WaitForTheEnd'
  BY LtNextInv, WaitKept
<1>3. WaitForTheEnd => OnlyEarlierFail(Cardinality(Logins) - 1)
  BY DEF WaitForTheEnd, OnlyEarlierFail
<1> QED BY <1>1, <1>2, <1>3, PTL DEF LtSpec

-----------------------------------------------------------------------------
(* Startup and health.  Whatever a load has cleared and not yet registered *)
(* is still to come in some thread: so when all are done, the registry is  *)
(* whole, and while it is not, some thread excuses the probe (RegistryFits).*)
(* A load that overlaps no other finds each contract as often as it has    *)
(* registered it (AloneFits).                                              *)

HsStep == {"idle", "clear", "forget", "disable", "load", "contract", "enable", "read",
           "answered", "failed"}
HsLoadType == [step: HsStep, left: Seq(Extensions),
               answer: Seq([key: Extensions, contracts: Nat]), alone: BOOLEAN]
HsCheck == {"database", "scheduler", "extensions"} \cup Extensions
HsSeverity == {"info", "warning", "critical"}
HsReport ==
    [check: HsCheck, healthy: BOOLEAN, severity: HsSeverity]
        \cup [check: HsCheck, healthy: BOOLEAN, severity: HsSeverity, excused: BOOLEAN]

HsTypes ==
    /\ hsRecords \in Seq({"success", "error"}) /\ Len(hsRecords) <= 7
    /\ hsPhase \in {"starting", "aborted", "serving", "stopped"}
    /\ hsScheduler \in BOOLEAN /\ hsDatabase \in BOOLEAN /\ hsFailures \in BOOLEAN
    /\ hsContracts \in [Extensions -> Nat]
    /\ hsLoads \in [Loaders -> HsLoadType]
    /\ hsProbe \in [left: Seq(HsCheck), reports: Seq(HsReport)]

\* The extensions a load has still to register ...
Registers(load) ==
    CASE load.step \in {"clear", "forget", "disable"} -> Enabled
      [] load.step = "load" -> EntriesOf(load.left)
      [] load.step \in {"contract", "enable"} -> EntriesOf(Tail(load.left))
      [] OTHER -> {}

\* ... to give a contract and a health check ...
Contracts(load) ==
    CASE load.step \in {"clear", "forget", "disable"} -> Enabled
      [] load.step \in {"load", "contract"} -> EntriesOf(load.left)
      [] load.step = "enable" -> EntriesOf(Tail(load.left))
      [] OTHER -> {}

\* ... and to set the gauge of.
Enables(load) ==
    CASE load.step \in {"clear", "forget", "disable"} -> Enabled
      [] load.step \in {"load", "contract", "enable"} -> EntriesOf(load.left)
      [] OTHER -> {}

Listed(e) == IF e \in Enabled \cap WithContract THEN 1 ELSE 0

\* What is left to a load.
LoadFits(load) ==
    /\ load.step \in {"clear", "forget", "disable"} => EntriesOf(load.left) = Enabled
    /\ load.step \in {"load", "contract", "enable"} =>
           load.left # <<>> /\ EntriesOf(load.left) \subseteq Enabled
    /\ load.step \in {"clear", "forget", "disable", "load", "contract", "enable"} =>
           NoneTwice(load.left) /\ load.answer = <<>>

\* The steps of the startup, and what each has brought.
StartupFits ==
    /\ hsPhase # "aborted" =>
           \A n \in DOMAIN hsRecords : n # 7 => hsRecords[n] = "success"
    /\ hsScheduler <=> hsPhase = "serving"
    /\ hsPhase \in {"serving", "stopped"} => Len(hsRecords) = 7
    /\ hsLoads[Main].step # "idle" =>
           /\ hsPhase = "starting" /\ Len(hsRecords) = 5
           /\ hsLoads[Main].step = "failed" \/ Enabled \subseteq hsChecks \cup Contracts(hsLoads[Main])
    /\ hsChecks \subseteq Enabled
    /\ Len(hsRecords) >= 6 /\ hsRecords[6] = "success" => hsChecks = Enabled

\* Once the startup has loaded the extensions and none has failed, each is in the
\* registry, or a thread that has emptied it is going to register it.
RegistryFits ==
    /\ hsManifests \subseteq Enabled /\ hsGauges \subseteq Enabled
    /\ ~hsFailures /\ (Len(hsRecords) >= 6 \/ hsLoads[Main].step # "idle") =>
           \A e \in Enabled :
               /\ e \in hsManifests \/ \E t \in Loaders : e \in Registers(hsLoads[t])
               /\ e \in hsGauges \/ \E t \in Loaders : e \in Enables(hsLoads[t])
    /\ hsLoads[Main].step = "failed" => hsFailures

\* A load that overlaps no other is the only one, and finds each contract as often
\* as it has registered it.
AloneFits(t) ==
    LET load == hsLoads[t]
    IN  load.alone =>
            /\ Loading(t) => \A u \in Loaders : Loading(u) => u = t
            /\ load.step \in {"disable", "load", "contract", "enable", "read"} =>
                   \A e \in Extensions :
                       hsContracts[e] = IF e \in Contracts(load) THEN 0 ELSE Listed(e)
            /\ load.step \in {"read", "answered"} =>
                   \A n \in DOMAIN load.answer : load.answer[n].contracts = Listed(load.answer[n].key)

\* A probe begins when the startup is over.
ProbeFits ==
    /\ hsProbe.left # <<>> => Len(hsRecords) = 7
    /\ \A n \in DOMAIN hsProbe.reports :
           hsProbe.reports[n].check = "extensions" /\ ~hsProbe.reports[n].healthy
               => hsProbe.reports[n].excused

HsInv ==
    /\ HsTypes /\ StartupFits /\ RegistryFits /\ ProbeFits
    /\ \A t \in Loaders : LoadFits(hsLoads[t]) /\ AloneFits(t)


LEMMA HsStart ==
    /\ NoLoad \in HsLoadType /\ NoLoad.step = "idle" /\ NoLoad.answer = <<>>
    /\ Registers(NoLoad) = {} /\ Enables(NoLoad) = {} /\ LoadFits(NoLoad)
    /\ NoProbe \in [left: Seq(HsCheck), reports: Seq(HsReport)]
    /\ Enabled \subseteq Extensions
  BY DEF NoLoad, HsLoadType, HsStep, Registers, Enables, LoadFits, NoProbe, Enabled

\* The sequence of a finite set has each element once.
LEMMA SequenceOfSet ==
    ASSUME NEW S, IsFiniteSet(S)
    PROVE  /\ SetToSeq(S) \in Seq(S) /\ EntriesOf(SetToSeq(S)) = S /\ NoneTwice(SetToSeq(S))
           /\ S # {} => SetToSeq(S) # <<>>
<1>1. PICK n : n = Cardinality(S) /\ n \in Nat
  BY FS_CardinalityType
<1>2. \E f \in [1..n -> S] : IsInjective(f)
  <2>1. ExistsBijection(1..n, S)
    BY <1>1, FS_CardinalityType
  <2>2. PICK f : f \in Bijection(1..n, S)
    BY <2>1 DEF ExistsBijection
  <2> QED BY <2>2 DEF Bijection, Injection
<1>3. PICK s : s = SetToSeq(S) /\ s \in [1..n -> S] /\ IsInjective(s)
  BY <1>1, <1>2 DEF SetToSeq
<1>4. s \in Injection(1..n, S)
  BY <1>3 DEF Injection
<1>5. Cardinality(1..n) = Cardinality(S)
  BY <1>1, Upward
<1>6. s \in Surjection(1..n, S)
  BY <1>4, <1>5, FS_Injection
<1>7. s \in Seq(S) /\ DOMAIN s = 1..n
  BY <1>1, <1>3
<1>8. EntriesOf(s) = S /\ NoneTwice(s)
  BY <1>3, <1>6, <1>7 DEF EntriesOf, NoneTwice, Surjection, IsInjective
<1>9. s = <<>> => EntriesOf(s) = {}
  BY DEF EntriesOf
<1> QED BY <1>3, <1>7, <1>8, <1>9

\* What is left when the first of a sequence is done.
LEMMA RestOfSequence ==
    ASSUME NEW S, NEW s \in Seq(S), s # <<>>
    PROVE  /\ Head(s) \in S /\ Tail(s) \in Seq(S) /\ Head(s) \in EntriesOf(s)
           /\ EntriesOf(s) = EntriesOf(Tail(s)) \cup {Head(s)}
           /\ NoneTwice(s) => NoneTwice(Tail(s)) /\ Head(s) \notin EntriesOf(Tail(s))
           /\ Tail(s) = <<>> => EntriesOf(Tail(s)) = {}
<1>1. PICK n, rest : n = Len(s) /\ rest = Tail(s)
  OBVIOUS
<1>2. /\ n \in Nat \ {0} /\ DOMAIN s = 1..n
      /\ Head(s) \in S /\ rest \in Seq(S) /\ Len(rest) = n - 1
      /\ \A i \in 1..(n - 1) : rest[i] = s[i + 1]
  BY <1>1, EmptySeq, LenProperties, HeadTailProperties
<1>3. Head(s) = s[1] /\ DOMAIN rest = 1..(n - 1)
  BY <1>2, LenProperties
<1>4. EntriesOf(s) = EntriesOf(rest) \cup {Head(s)}
  <2>1. \A i \in 1..n : i = 1 \/ (i - 1 \in 1..(n - 1) /\ s[i] = rest[i - 1])
    BY <1>2
  <2>2. \A i \in 1..(n - 1) : i + 1 \in 1..n /\ 1 \in 1..n
    BY <1>2
  <2>3. 1 \in 1..n
    BY <1>2
  <2>4. ASSUME NEW e \in EntriesOf(s) PROVE e \in EntriesOf(rest) \cup {Head(s)}
    <3>1. PICK i \in 1..n : s[i] = e
      BY <1>2 DEF EntriesOf
    <3> QED BY <1>3, <2>1, <3>1 DEF EntriesOf
  <2>5. ASSUME NEW e \in EntriesOf(rest) PROVE e \in EntriesOf(s)
    <3>1. PICK i \in 1..(n - 1) : rest[i] = e
      BY <1>3 DEF EntriesOf
    <3> QED BY <1>2, <2>2, <3>1 DEF EntriesOf
  <2>6. Head(s) \in EntriesOf(s)
    BY <1>2, <1>3, <2>3 DEF EntriesOf
  <2> QED BY <2>4, <2>5, <2>6
<1>5. ASSUME NoneTwice(s) PROVE NoneTwice(rest) /\ Head(s) \notin EntriesOf(rest)
  <2>1. ASSUME NEW i \in 1..(n - 1), NEW k \in 1..(n - 1), rest[i] = rest[k] PROVE i = k
    <3>1. i + 1 \in 1..n /\ k + 1 \in 1..n /\ s[i + 1] = s[k + 1]
      BY <1>2, <2>1
    <3>2. i + 1 = k + 1
      BY <1>2, <1>5, <3>1 DEF NoneTwice
    <3> QED BY <3>2
  <2>2. ASSUME NEW i \in 1..(n - 1), rest[i] = s[1] PROVE FALSE
    <3>1. i + 1 \in 1..n /\ 1 \in 1..n /\ s[i + 1] = s[1]
      BY <1>2, <2>2
    <3>2. i + 1 = 1
      BY <1>2, <1>5, <3>1 DEF NoneTwice
    <3> QED BY <3>2
  <2> QED BY <1>3, <2>1, <2>2 DEF NoneTwice, EntriesOf
<1>6. rest = <<>> => EntriesOf(rest) = {}
  BY DEF EntriesOf
<1>7. Head(s) \in EntriesOf(s)
  BY <1>4
<1> QED BY <1>1, <1>2, <1>4, <1>5, <1>6, <1>7

LEMMA HsFinite == IsFiniteSet(Extensions) /\ IsFiniteSet(Enabled)
  BY HealthAssumption, FS_Subset DEF Enabled

LEMMA HsLoadOf ==
    ASSUME HsInv, NEW t \in Loaders
    PROVE  hsLoads[t] \in HsLoadType /\ LoadFits(hsLoads[t])
  BY DEF HsInv, HsTypes

\* A thread goes on with its load.
LEMMA LoadMoves ==
    ASSUME HsInv, NEW t \in Loaders, NEW o, o = hsLoads[t], o.step \notin {"idle", "answered", "failed"},
           NEW new \in HsLoadType, hsLoads' = [hsLoads EXCEPT ![t] = new],
           new.step # "idle", LoadFits(new), new.alone = o.alone,
           UNCHANGED hsElsewhere,
           hsManifests' \subseteq Enabled, hsGauges' \subseteq Enabled,
           hsChecks \subseteq hsChecks', hsChecks' \subseteq Enabled,
           hsContracts' \in [Extensions -> Nat],
           hsFailures' \in BOOLEAN, hsFailures => hsFailures',
           new.step = "failed" => hsFailures',
           ~hsFailures' => /\ hsManifests \cup Registers(o) \subseteq hsManifests' \cup Registers(new)
                           /\ hsGauges \cup Enables(o) \subseteq hsGauges' \cup Enables(new),
           new.step = "failed" \/ Contracts(o) \subseteq hsChecks' \cup Contracts(new),
           o.alone /\ new.step \in {"disable", "load", "contract", "enable", "read"} =>
               \A e \in Extensions :
                   hsContracts'[e] = IF e \in Contracts(new) THEN 0 ELSE Listed(e),
           o.alone /\ new.step \in {"read", "answered"} =>
               \A n \in DOMAIN new.answer : new.answer[n].contracts = Listed(new.answer[n].key)
    PROVE  HsInv'
<1> USE DEF HsInv
<1>1. \A u \in Loaders : hsLoads'[u] = IF u = t THEN new ELSE hsLoads[u]
  BY DEF HsTypes
<1>2. Main \in Loaders /\ Loading(t)
  BY DEF Loaders, Loading
<1>3. UNCHANGED <<hsRecords, hsPhase, hsScheduler, hsDatabase, hsProbe>>
  BY DEF hsElsewhere
<1>4. HsTypes'
  BY <1>3 DEF HsTypes
<1>5. StartupFits'
  <2>1. CASE t = Main
    BY <1>1, <1>2, <1>3, <2>1 DEF StartupFits
  <2>2. CASE t # Main
    BY <1>1, <1>2, <1>3, <2>2 DEF StartupFits
  <2> QED BY <2>1, <2>2
<1>6. RegistryFits'
  <2>1. hsLoads'[Main].step # "idle" => hsLoads[Main].step # "idle"
    BY <1>1, <1>2
  <2>2. ASSUME ~hsFailures', Len(hsRecords') >= 6 \/ hsLoads'[Main].step # "idle", NEW e \in Enabled
        PROVE  /\ e \in hsManifests' \/ \E u \in Loaders : e \in Registers(hsLoads'[u])
               /\ e \in hsGauges' \/ \E u \in Loaders : e \in Enables(hsLoads'[u])
    <3>1. /\ e \in hsManifests \/ \E u \in Loaders : e \in Registers(hsLoads[u])
          /\ e \in hsGauges \/ \E u \in Loaders : e \in Enables(hsLoads[u])
      BY <1>3, <2>1, <2>2 DEF RegistryFits
    <3>2. \A u \in Loaders : u # t => hsLoads'[u] = hsLoads[u]
      BY <1>1
    <3>3. hsLoads'[t] = new
      BY <1>1
    <3>4. e \in hsManifests' \/ \E u \in Loaders : e \in Registers(hsLoads'[u])
      <4>1. CASE e \in hsManifests \cup Registers(o)
        BY <2>2, <3>3, <4>1
      <4>2. CASE e \notin hsManifests \cup Registers(o)
        <5>1. PICK u \in Loaders : e \in Registers(hsLoads[u])
          BY <3>1, <4>2
        <5>2. u # t
          BY <4>2, <5>1
        <5> QED BY <3>2, <5>1, <5>2
      <4> QED BY <4>1, <4>2
    <3>5. e \in hsGauges' \/ \E u \in Loaders : e \in Enables(hsLoads'[u])
      <4>1. CASE e \in hsGauges \cup Enables(o)
        BY <2>2, <3>3, <4>1
      <4>2. CASE e \notin hsGauges \cup Enables(o)
        <5>1. PICK u \in Loaders : e \in Enables(hsLoads[u])
          BY <3>1, <4>2
        <5>2. u # t
          BY <4>2, <5>1
        <5> QED BY <3>2, <5>1, <5>2
      <4> QED BY <4>1, <4>2
    <3> QED BY <3>4, <3>5
  <2>3. hsLoads'[Main].step = "failed" => hsFailures'
    BY <1>1, <1>2 DEF RegistryFits
  <2> QED BY <2>2, <2>3 DEF RegistryFits
<1>7. ProbeFits'
  BY <1>3 DEF ProbeFits
<1>8. ASSUME NEW u \in Loaders PROVE LoadFits(hsLoads[u])' /\ AloneFits(u)'
  <2>1. CASE u = t
    <3>1. AloneFits(t)'
      <4>1. o.alone => \A w \in Loaders : w # t => ~Loading(w)
        BY <1>2 DEF AloneFits
      <4>2. \A w \in Loaders : w # t => (Loading(w)' <=> Loading(w))
        BY <1>1 DEF Loading
      <4> QED BY <1>1, <4>1, <4>2 DEF AloneFits
    <3> QED BY <1>1, <2>1, <3>1 DEF LoadFits
  <2>2. CASE u # t
    <3>1. hsLoads'[u] = hsLoads[u]
      BY <1>1, <2>2
    <3>2. hsLoads[u].alone => ~Loading(u)
      BY <1>2, <2>2 DEF AloneFits
    <3>3. AloneFits(u)'
      BY <3>1, <3>2 DEF AloneFits, Loading
    <3> QED BY <3>1, <3>3 DEF LoadFits
  <2> QED BY <2>1, <2>2
<1> QED BY <1>4, <1>5, <1>6, <1>7, <1>8

\* A thread that has registered everything reads what the registry lists.
LEMMA LoadReads ==
    ASSUME HsInv, NEW t \in Loaders, Reads(t), hsLoads[t].step # "idle"
    PROVE  LET o == hsLoads[t]
               new == [o EXCEPT !.step = "read", !.left = SetToSeq(Extensions)]
           IN  /\ o \in HsLoadType /\ new \in HsLoadType
               /\ hsLoads' = [hsLoads EXCEPT ![t] = new] /\ new.step = "read"
               /\ new.answer = o.answer /\ new.alone = o.alone
<1>1. SetToSeq(Extensions) \in Seq(Extensions)
  BY HsFinite, SequenceOfSet
<1>2. PICK o : o = hsLoads[t] /\ o \in HsLoadType
  BY HsLoadOf
<1>3. PICK s : s = SetToSeq(Extensions) /\ s \in Seq(Extensions)
  BY <1>1
<1>4. hsLoads \in [Loaders -> HsLoadType]
  BY DEF HsInv, HsTypes
<1>5. hsLoads' = [hsLoads EXCEPT ![t] = [o EXCEPT !.step = "read", !.left = s]]
  BY <1>2, <1>3, <1>4 DEF Reads, HsLoadType
<1>6. [o EXCEPT !.step = "read", !.left = s] \in HsLoadType
  BY <1>2, <1>3 DEF HsLoadType, HsStep
<1> QED BY <1>2, <1>3, <1>5, <1>6 DEF HsLoadType

LEMMA HsClearHolds ==
    ASSUME HsInv, NEW t \in Loaders, HsClear(t)
    PROVE  HsInv'
<1>1. PICK o : o = hsLoads[t] /\ o \in HsLoadType
  BY HsLoadOf
<1>2. "forget" \in HsStep /\ hsLoads' = [hsLoads EXCEPT ![t].step = "forget"]
  BY DEF HsStep, HsClear, Goes
<1>3a. PICK new : new = [o EXCEPT !.step = "forget"]
  OBVIOUS
<1>3. /\ new \in HsLoadType /\ hsLoads' = [hsLoads EXCEPT ![t] = new]
      /\ new.step = "forget"
      /\ new.left = o.left /\ new.answer = o.answer /\ new.alone = o.alone
  BY <1>1, <1>2, <1>3a DEF HsInv, HsTypes, HsLoadType
<1>4. o.step = "clear"
  BY <1>1 DEF HsClear, LoadAt
<1>5. Registers(new) = Enabled /\ Contracts(new) = Enabled /\ Enables(new) = Enabled
  BY <1>3 DEF Registers, Contracts, Enables
<1>6. Registers(o) = Enabled /\ Contracts(o) = Enabled /\ Enables(o) = Enabled
  BY <1>4 DEF Registers, Contracts, Enables
<1>7. LoadFits(new)
  BY <1>1, <1>3, <1>4, HsLoadOf DEF LoadFits
<1>8. hsManifests \subseteq Enabled /\ hsGauges \subseteq Enabled /\ hsChecks \subseteq Enabled
  BY DEF HsInv, RegistryFits, StartupFits
<1>9. hsContracts' \in [Extensions -> Nat] /\ hsFailures' \in BOOLEAN
  BY DEF HsInv, HsTypes, HsClear
<1> QED
  <2>1. /\ hsManifests' = {} /\ hsGauges' = hsGauges /\ hsChecks' = hsChecks
        /\ hsFailures' = hsFailures /\ UNCHANGED hsElsewhere
    BY DEF HsClear
  <2> QED BY <1>1, <1>3, <1>4, <1>5, <1>6, <1>7, <1>8, <1>9, <2>1, LoadMoves

LEMMA HsForgetHolds ==
    ASSUME HsInv, NEW t \in Loaders, HsForget(t)
    PROVE  HsInv'
<1>1. PICK o : o = hsLoads[t] /\ o \in HsLoadType
  BY HsLoadOf
<1>2. "disable" \in HsStep /\ hsLoads' = [hsLoads EXCEPT ![t].step = "disable"]
  BY DEF HsStep, HsForget, Goes
<1>3a. PICK new : new = [o EXCEPT !.step = "disable"]
  OBVIOUS
<1>3. /\ new \in HsLoadType /\ hsLoads' = [hsLoads EXCEPT ![t] = new]
      /\ new.step = "disable"
      /\ new.left = o.left /\ new.answer = o.answer /\ new.alone = o.alone
  BY <1>1, <1>2, <1>3a DEF HsInv, HsTypes, HsLoadType
<1>4. o.step = "forget"
  BY <1>1 DEF HsForget, LoadAt
<1>5. Registers(new) = Enabled /\ Contracts(new) = Enabled /\ Enables(new) = Enabled
  BY <1>3 DEF Registers, Contracts, Enables
<1>6. Registers(o) = Enabled /\ Contracts(o) = Enabled /\ Enables(o) = Enabled
  BY <1>4 DEF Registers, Contracts, Enables
<1>7. LoadFits(new)
  BY <1>1, <1>3, <1>4, HsLoadOf DEF LoadFits
<1>8. hsManifests \subseteq Enabled /\ hsGauges \subseteq Enabled /\ hsChecks \subseteq Enabled
  BY DEF HsInv, RegistryFits, StartupFits
<1>9. /\ hsContracts' = [e \in Extensions |-> 0] /\ hsContracts' \in [Extensions -> Nat]
      /\ hsFailures' \in BOOLEAN
  BY DEF HsInv, HsTypes, HsForget
<1>10. \A e \in Extensions : hsContracts'[e] = IF e \in Contracts(new) THEN 0 ELSE Listed(e)
  BY <1>5, <1>9 DEF Listed
<1> QED
  <2>1. /\ hsManifests' = hsManifests /\ hsGauges' = hsGauges /\ hsChecks' = hsChecks
        /\ hsFailures' = hsFailures /\ UNCHANGED hsElsewhere
    BY DEF HsForget
  <2> QED BY <1>1, <1>3, <1>4, <1>5, <1>6, <1>7, <1>8, <1>9, <1>10, <2>1, LoadMoves

\* What a load that overlaps no other finds.
LEMMA AloneFinds ==
    ASSUME HsInv, NEW t \in Loaders, hsLoads[t].alone,
           hsLoads[t].step \in {"disable", "load", "contract", "enable", "read"}
    PROVE  \A e \in Extensions :
               hsContracts[e] = IF e \in Contracts(hsLoads[t]) THEN 0 ELSE Listed(e)
  BY DEF HsInv, AloneFits

LEMMA HsDisableHolds ==
    ASSUME HsInv, NEW t \in Loaders, HsDisable(t)
    PROVE  HsInv'
<1>1. PICK o : o = hsLoads[t] /\ o \in HsLoadType
  BY HsLoadOf
<1>2. o.step = "disable" /\ LoadFits(o) /\ o \in HsLoadType
  BY <1>1, HsLoadOf DEF HsDisable, LoadAt
<1>3. Registers(o) = Enabled /\ Contracts(o) = Enabled /\ Enables(o) = Enabled
  BY <1>2 DEF Registers, Contracts, Enables
<1>4. o.answer = <<>> /\ EntriesOf(o.left) = Enabled /\ NoneTwice(o.left)
  BY <1>2 DEF LoadFits
<1>5. hsManifests \subseteq Enabled /\ hsChecks \subseteq Enabled
  BY DEF HsInv, RegistryFits, StartupFits
<1>6. /\ hsManifests' = hsManifests /\ hsGauges' = {} /\ hsChecks' = hsChecks
      /\ hsFailures' = hsFailures /\ hsContracts' = hsContracts /\ UNCHANGED hsElsewhere
  BY DEF HsDisable, hsRegistry
<1>7. hsContracts' \in [Extensions -> Nat] /\ hsFailures' \in BOOLEAN
  BY <1>6 DEF HsInv, HsTypes
<1>8. hsGauges \subseteq Enabled
  BY DEF HsInv, RegistryFits
<1>9. CASE Enabled = {}
  <2>1. PICK new : /\ new = [o EXCEPT !.step = "read", !.left = SetToSeq(Extensions)]
                   /\ new \in HsLoadType
                   /\ hsLoads' = [hsLoads EXCEPT ![t] = new] /\ new.step = "read"
                   /\ new.answer = o.answer /\ new.alone = o.alone
    BY <1>1, <1>2, <1>9, LoadReads DEF HsDisable
  <2>2. Registers(new) = {} /\ Contracts(new) = {} /\ Enables(new) = {}
    BY <2>1 DEF Registers, Contracts, Enables
  <2>3. LoadFits(new)
    BY <2>1 DEF LoadFits
  <2>4. o.alone => \A e \in Extensions :
            hsContracts'[e] = IF e \in Contracts(new) THEN 0 ELSE Listed(e)
    BY <1>1, <1>2, <1>3, <1>6, <1>9, <2>2, AloneFinds
  <2>5. \A n \in DOMAIN new.answer : new.answer[n].contracts = Listed(new.answer[n].key)
    BY <1>4, <2>1
  <2> QED
    BY <1>1, <1>2, <1>3, <1>5, <1>6, <1>7, <1>8, <1>9, <2>1, <2>2, <2>3, <2>4, <2>5, LoadMoves
<1>10. CASE Enabled # {}
  <2>1. "load" \in HsStep
    BY DEF HsStep
  <2>1a. hsLoads' = [hsLoads EXCEPT ![t].step = "load"]
    BY <1>10 DEF HsDisable, Goes
  <2>1b. PICK new : new = [o EXCEPT !.step = "load"]
    OBVIOUS
  <2>2. /\ new \in HsLoadType /\ hsLoads' = [hsLoads EXCEPT ![t] = new]
        /\ new.step = "load"
        /\ new.left = o.left /\ new.answer = o.answer /\ new.alone = o.alone
    BY <1>1, <2>1, <2>1a, <2>1b DEF HsInv, HsTypes, HsLoadType
  <2>3. Registers(new) = Enabled /\ Contracts(new) = Enabled /\ Enables(new) = Enabled
    BY <1>4, <2>2 DEF Registers, Contracts, Enables
  <2>4. o.left # <<>>
    BY <1>4, <1>10 DEF EntriesOf
  <2>5. LoadFits(new)
    BY <1>4, <2>2, <2>4 DEF LoadFits
  <2>6. o.alone => \A e \in Extensions :
            hsContracts'[e] = IF e \in Contracts(new) THEN 0 ELSE Listed(e)
    BY <1>1, <1>2, <1>3, <1>6, <2>3, AloneFinds
  <2> QED BY <1>1, <1>2, <1>3, <1>5, <1>6, <1>7, <1>8, <2>2, <2>3, <2>5, <2>6, LoadMoves
<1> QED BY <1>9, <1>10

\* What is left to a load that registers, and the extension it is at.
LEMMA LoadIsAt ==
    ASSUME HsInv, NEW t \in Loaders, hsLoads[t].step \in {"load", "contract", "enable"}
    PROVE  LET o == hsLoads[t]
               e == Head(o.left)
               rest == EntriesOf(Tail(o.left))
           IN  /\ o \in HsLoadType /\ o.left # <<>> /\ e \in Enabled /\ e \in Extensions
               /\ EntriesOf(o.left) = rest \cup {e} /\ e \notin rest
               /\ EntriesOf(o.left) \subseteq Enabled /\ o.answer = <<>>
               /\ NoneTwice(o.left) /\ NoneTwice(Tail(o.left)) /\ Tail(o.left) \in Seq(Extensions)
               /\ Tail(o.left) = <<>> => rest = {}
<1>1. PICK o : o = hsLoads[t] /\ o \in HsLoadType /\ LoadFits(o)
  BY HsLoadOf
<1>2. /\ o.left # <<>> /\ EntriesOf(o.left) \subseteq Enabled /\ NoneTwice(o.left)
      /\ o.answer = <<>>
  BY <1>1 DEF LoadFits
<1>3. o.left \in Seq(Extensions)
  BY <1>1 DEF HsLoadType
<1> QED BY <1>1, <1>2, <1>3, RestOfSequence

LEMMA HsRegisterHolds ==
    ASSUME HsInv, NEW t \in Loaders, HsRegister(t)
    PROVE  HsInv'
<1>1. PICK o : o = hsLoads[t] /\ o \in HsLoadType
  BY HsLoadOf
<1>2. "contract" \in HsStep /\ hsLoads' = [hsLoads EXCEPT ![t].step = "contract"]
  BY DEF HsStep, HsRegister, Goes
<1>3a. PICK new : new = [o EXCEPT !.step = "contract"]
  OBVIOUS
<1>3. /\ new \in HsLoadType /\ hsLoads' = [hsLoads EXCEPT ![t] = new]
      /\ new.step = "contract"
      /\ new.left = o.left /\ new.answer = o.answer /\ new.alone = o.alone
  BY <1>1, <1>2, <1>3a DEF HsInv, HsTypes, HsLoadType
<1>4. o.step = "load"
  BY <1>1 DEF HsRegister, LoadAt
<1>5. PICK e, rest : /\ e = Head(o.left) /\ rest = EntriesOf(Tail(o.left))
                     /\ e \in Enabled /\ EntriesOf(o.left) = rest \cup {e}
  BY <1>1, <1>4, LoadIsAt
<1>6. /\ Registers(new) = rest /\ Registers(o) = rest \cup {e}
      /\ Contracts(new) = Contracts(o) /\ Enables(new) = Enables(o)
  BY <1>3, <1>4, <1>5 DEF Registers, Contracts, Enables
<1>7. LoadFits(new)
  BY <1>1, <1>3, <1>4, HsLoadOf DEF LoadFits
<1>8. hsManifests \subseteq Enabled /\ hsGauges \subseteq Enabled /\ hsChecks \subseteq Enabled
  BY DEF HsInv, RegistryFits, StartupFits
<1>9. /\ hsManifests' = hsManifests \cup {e} /\ hsGauges' = hsGauges /\ hsChecks' = hsChecks
      /\ hsFailures' = hsFailures /\ hsContracts' = hsContracts /\ UNCHANGED hsElsewhere
  BY <1>1, <1>5 DEF HsRegister
<1>10. hsContracts' \in [Extensions -> Nat] /\ hsFailures' \in BOOLEAN
  BY <1>9 DEF HsInv, HsTypes
<1>11. o.alone => \A x \in Extensions :
           hsContracts'[x] = IF x \in Contracts(new) THEN 0 ELSE Listed(x)
  BY <1>1, <1>4, <1>6, <1>9, AloneFinds
<1>12. hsChecks \subseteq hsChecks' /\ hsManifests \cup Registers(o) \subseteq hsManifests' \cup Registers(new)
  BY <1>6, <1>9
<1>13. new.step = "failed" \/ Contracts(o) \subseteq hsChecks' \cup Contracts(new)
  BY <1>6
<1>14. hsManifests' \subseteq Enabled /\ hsGauges' \subseteq Enabled /\ hsChecks' \subseteq Enabled
  BY <1>5, <1>8, <1>9
<1>15. hsGauges \cup Enables(o) \subseteq hsGauges' \cup Enables(new)
  BY <1>6, <1>9
<1> QED
  BY <1>1, <1>3, <1>4, <1>7, <1>9, <1>10, <1>11, <1>12, <1>13, <1>14, <1>15, LoadMoves

LEMMA HsRegisterContractHolds ==
    ASSUME HsInv, NEW t \in Loaders, HsRegisterContract(t)
    PROVE  HsInv'
<1>1. PICK o : o = hsLoads[t] /\ o \in HsLoadType
  BY HsLoadOf
<1>2. "enable" \in HsStep /\ hsLoads' = [hsLoads EXCEPT ![t].step = "enable"]
  BY DEF HsStep, HsRegisterContract, Goes
<1>3a. PICK new : new = [o EXCEPT !.step = "enable"]
  OBVIOUS
<1>3. /\ new \in HsLoadType /\ hsLoads' = [hsLoads EXCEPT ![t] = new]
      /\ new.step = "enable"
      /\ new.left = o.left /\ new.answer = o.answer /\ new.alone = o.alone
  BY <1>1, <1>2, <1>3a DEF HsInv, HsTypes, HsLoadType
<1>4. o.step = "contract"
  BY <1>1 DEF HsRegisterContract, LoadAt
<1>5. PICK e, rest : /\ e = Head(o.left) /\ rest = EntriesOf(Tail(o.left)) /\ e \notin rest
                     /\ e \in Enabled /\ e \in Extensions /\ EntriesOf(o.left) = rest \cup {e}
  BY <1>1, <1>4, LoadIsAt
<1>6. /\ Registers(new) = Registers(o) /\ Enables(new) = Enables(o)
      /\ Contracts(new) = rest /\ Contracts(o) = rest \cup {e}
  BY <1>3, <1>4, <1>5 DEF Registers, Contracts, Enables
<1>7. LoadFits(new)
  BY <1>1, <1>3, <1>4, HsLoadOf DEF LoadFits
<1>8. hsManifests \subseteq Enabled /\ hsGauges \subseteq Enabled /\ hsChecks \subseteq Enabled
  BY DEF HsInv, RegistryFits, StartupFits
<1>9. /\ hsManifests' = hsManifests /\ hsGauges' = hsGauges /\ hsChecks' = hsChecks \cup {e}
      /\ hsFailures' = hsFailures /\ UNCHANGED hsElsewhere
      /\ hsContracts' = [hsContracts EXCEPT ![e] = IF e \in WithContract THEN @ + 1 ELSE @]
  BY <1>1, <1>5 DEF HsRegisterContract
<1>10. hsContracts \in [Extensions -> Nat] /\ hsFailures \in BOOLEAN
  BY DEF HsInv, HsTypes
<1>11. /\ hsContracts'[e] = IF e \in WithContract THEN hsContracts[e] + 1 ELSE hsContracts[e]
       /\ \A x \in Extensions : x # e => hsContracts'[x] = hsContracts[x]
       /\ hsContracts' \in [Extensions -> Nat] /\ hsFailures' \in BOOLEAN
  BY <1>5, <1>9, <1>10
<1>12. ASSUME o.alone
       PROVE  \A x \in Extensions :
           hsContracts'[x] = IF x \in Contracts(new) THEN 0 ELSE Listed(x)
  <2>1. \A x \in Extensions : hsContracts[x] = IF x \in Contracts(o) THEN 0 ELSE Listed(x)
    BY <1>1, <1>4, <1>12, AloneFinds
  <2>2. hsContracts[e] = 0
    BY <1>5, <1>6, <2>1
  <2>3. hsContracts'[e] = Listed(e)
    BY <1>5, <1>11, <2>2 DEF Listed
  <2> QED BY <1>5, <1>6, <1>11, <2>1, <2>3
<1>13. new.step = "failed" \/ Contracts(o) \subseteq hsChecks' \cup Contracts(new)
  BY <1>6, <1>9
<1>14. hsManifests' \subseteq Enabled /\ hsGauges' \subseteq Enabled /\ hsChecks' \subseteq Enabled
  BY <1>5, <1>8, <1>9
<1>15. /\ hsManifests \cup Registers(o) \subseteq hsManifests' \cup Registers(new)
       /\ hsGauges \cup Enables(o) \subseteq hsGauges' \cup Enables(new)
  BY <1>6, <1>9
<1>16. hsChecks \subseteq hsChecks'
  BY <1>9
<1> QED
  BY <1>1, <1>3, <1>4, <1>7, <1>9, <1>11, <1>12, <1>13, <1>14, <1>15, <1>16, LoadMoves

LEMMA HsEnableHolds ==
    ASSUME HsInv, NEW t \in Loaders, HsEnable(t)
    PROVE  HsInv'
<1>1. PICK o : o = hsLoads[t] /\ o \in HsLoadType
  BY HsLoadOf
<1>2. o.step = "enable"
  BY <1>1 DEF HsEnable, LoadAt
<1>3. PICK e, tail, rest :
          /\ e = Head(o.left) /\ tail = Tail(o.left) /\ rest = EntriesOf(tail)
          /\ e \in Enabled /\ EntriesOf(o.left) = rest \cup {e}
          /\ EntriesOf(o.left) \subseteq Enabled /\ NoneTwice(tail) /\ tail \in Seq(Extensions)
          /\ tail = <<>> => rest = {}
          /\ o \in HsLoadType /\ o.answer = <<>>
  BY <1>1, <1>2, LoadIsAt
<1>4. Registers(o) = rest /\ Contracts(o) = rest /\ Enables(o) = rest \cup {e}
  BY <1>2, <1>3 DEF Registers, Contracts, Enables
<1>5. hsManifests \subseteq Enabled /\ hsGauges \subseteq Enabled /\ hsChecks \subseteq Enabled
  BY DEF HsInv, RegistryFits, StartupFits
<1>6. /\ hsManifests' = hsManifests /\ hsGauges' = hsGauges \cup {e} /\ hsChecks' = hsChecks
      /\ hsFailures' = hsFailures /\ hsContracts' = hsContracts /\ UNCHANGED hsElsewhere
  BY <1>1, <1>3 DEF HsEnable, hsRegistry
<1>7. hsContracts' \in [Extensions -> Nat] /\ hsFailures' \in BOOLEAN
  BY <1>6 DEF HsInv, HsTypes
<1>8. hsManifests' \subseteq Enabled /\ hsGauges' \subseteq Enabled /\ hsChecks' \subseteq Enabled
  BY <1>3, <1>5, <1>6
<1>9. PICK new : /\ new \in HsLoadType /\ LoadFits(new) /\ new.alone = o.alone
                 /\ hsLoads' = [hsLoads EXCEPT ![t] = new] /\ new.step \in {"read", "load"}
                 /\ new.answer = <<>> /\ Contracts(new) = rest
                 /\ Registers(new) = rest /\ Enables(new) = rest
  <2>1. CASE tail = <<>>
    <3>1. PICK new : /\ new = [o EXCEPT !.step = "read", !.left = SetToSeq(Extensions)]
                     /\ new \in HsLoadType
                     /\ hsLoads' = [hsLoads EXCEPT ![t] = new] /\ new.step = "read"
                     /\ new.answer = o.answer /\ new.alone = o.alone
      BY <1>1, <1>2, <1>3, <2>1, LoadReads DEF HsEnable
    <3>2. Registers(new) = {} /\ Contracts(new) = {} /\ Enables(new) = {} /\ LoadFits(new)
      BY <3>1 DEF Registers, Contracts, Enables, LoadFits
    <3> QED BY <1>3, <2>1, <3>1, <3>2
  <2>2. CASE tail # <<>>
    <3>1. PICK new : new = [o EXCEPT !.left = tail, !.step = "load"]
      OBVIOUS
    <3>2. /\ new \in HsLoadType /\ new.step = "load" /\ new.left = tail
          /\ new.answer = <<>> /\ new.alone = o.alone
      BY <1>3, <3>1 DEF HsLoadType, HsStep
    <3>3. hsLoads \in [Loaders -> HsLoadType]
      BY DEF HsInv, HsTypes
    <3>4. hsLoads' = [hsLoads EXCEPT ![t] = new]
      BY <1>1, <1>3, <2>2, <3>1, <3>3 DEF HsEnable, HsLoadType
    <3>5. Registers(new) = rest /\ Contracts(new) = rest /\ Enables(new) = rest
      BY <1>3, <3>2 DEF Registers, Contracts, Enables
    <3>6. LoadFits(new)
      BY <1>3, <2>2, <3>2 DEF LoadFits
    <3> QED BY <3>2, <3>4, <3>5, <3>6
  <2> QED BY <2>1, <2>2
<1>10. o.alone => \A x \in Extensions :
           hsContracts'[x] = IF x \in Contracts(new) THEN 0 ELSE Listed(x)
  BY <1>1, <1>2, <1>4, <1>6, <1>9, AloneFinds
<1>11. /\ hsManifests \cup Registers(o) \subseteq hsManifests' \cup Registers(new)
       /\ hsGauges \cup Enables(o) \subseteq hsGauges' \cup Enables(new)
       /\ Contracts(o) \subseteq hsChecks' \cup Contracts(new)
  BY <1>4, <1>6, <1>9
<1>12. \A n \in DOMAIN new.answer : new.answer[n].contracts = Listed(new.answer[n].key)
  BY <1>9
<1> QED
  BY <1>1, <1>2, <1>6, <1>7, <1>8, <1>9, <1>10, <1>11, <1>12, LoadMoves

LEMMA HsLoadFailsHolds ==
    ASSUME HsInv, NEW t \in Loaders, HsLoadFails(t)
    PROVE  HsInv'
<1>1. PICK o : o = hsLoads[t] /\ o \in HsLoadType
  BY HsLoadOf
<1>2. "failed" \in HsStep /\ hsLoads' = [hsLoads EXCEPT ![t].step = "failed"]
  BY DEF HsStep, HsLoadFails, Goes
<1>3a. PICK new : new = [o EXCEPT !.step = "failed"]
  OBVIOUS
<1>3. /\ new \in HsLoadType /\ hsLoads' = [hsLoads EXCEPT ![t] = new]
      /\ new.step = "failed"
      /\ new.left = o.left /\ new.answer = o.answer /\ new.alone = o.alone
  BY <1>1, <1>2, <1>3a DEF HsInv, HsTypes, HsLoadType
<1>4. o.step \in {"load", "contract"}
  BY <1>1 DEF HsLoadFails
<1>5. LoadFits(new)
  BY <1>3 DEF LoadFits
<1>6. hsManifests \subseteq Enabled /\ hsGauges \subseteq Enabled /\ hsChecks \subseteq Enabled
  BY DEF HsInv, RegistryFits, StartupFits
<1>7. /\ hsManifests' = hsManifests /\ hsGauges' \subseteq hsGauges /\ hsChecks' = hsChecks
      /\ hsFailures' = TRUE /\ hsContracts' = hsContracts /\ UNCHANGED hsElsewhere
  BY DEF HsLoadFails, hsRegistry
<1>8. hsContracts' \in [Extensions -> Nat] /\ hsFailures' \in BOOLEAN
  BY <1>7 DEF HsInv, HsTypes
<1> QED BY <1>1, <1>3, <1>4, <1>5, <1>6, <1>7, <1>8, LoadMoves

LEMMA HsReadHolds ==
    ASSUME HsInv, NEW t \in Loaders, HsRead(t)
    PROVE  HsInv'
<1>1. PICK o, e, rest : /\ o = hsLoads[t] /\ e = Head(o.left) /\ rest = Tail(o.left)
                        /\ o \in HsLoadType
  BY HsLoadOf
<1>2. o.step = "read" /\ o.left # <<>> /\ o.left \in Seq(Extensions)
  BY <1>1 DEF HsRead, LoadAt, HsLoadType
<1>3. e \in Extensions /\ rest \in Seq(Extensions)
  BY <1>1, <1>2, RestOfSequence
<1>4. PICK entry : entry = [key |-> e, contracts |-> hsContracts[e]]
  OBVIOUS
<1>5. hsContracts \in [Extensions -> Nat] /\ hsFailures \in BOOLEAN
  BY DEF HsInv, HsTypes
<1>6. /\ entry \in [key: Extensions, contracts: Nat]
      /\ entry.key = e /\ entry.contracts = hsContracts[e]
  BY <1>3, <1>4, <1>5
<1>7. PICK a : a = Append(o.answer, entry)
  OBVIOUS
<1>8. o.answer \in Seq([key: Extensions, contracts: Nat])
  BY <1>1 DEF HsLoadType
<1>9. /\ a \in Seq([key: Extensions, contracts: Nat])
      /\ \A n \in DOMAIN a : (n \in DOMAIN o.answer /\ a[n] = o.answer[n]) \/ a[n] = entry
  <2>1. PICK s : s = o.answer /\ s \in Seq([key: Extensions, contracts: Nat])
    BY <1>8
  <2>2. PICK m : m = Len(s) /\ m \in Nat
    BY <2>1, LenProperties
  <2>3. /\ Len(Append(s, entry)) = m + 1 /\ Append(s, entry) \in Seq([key: Extensions, contracts: Nat])
        /\ \A n \in 1..m : Append(s, entry)[n] = s[n]
        /\ Append(s, entry)[m + 1] = entry
    BY <1>6, <2>1, <2>2, AppendProperties
  <2>4. DOMAIN s = 1..m /\ DOMAIN Append(s, entry) = 1..(m + 1)
    BY <2>1, <2>2, <2>3, LenProperties
  <2>5. \A n \in 1..(m + 1) : n \in 1..m \/ n = m + 1
    BY <2>2
  <2> QED BY <1>7, <2>1, <2>3, <2>4, <2>5
<1>10. PICK new : new = [o EXCEPT !.left = rest, !.answer = a,
                                  !.step = IF rest = <<>> THEN "answered" ELSE "read"]
  OBVIOUS
<1>11. /\ new \in HsLoadType /\ new.step \in {"answered", "read"}
       /\ new.answer = a /\ new.alone = o.alone
  BY <1>1, <1>3, <1>9, <1>10 DEF HsLoadType, HsStep
<1>12. hsLoads' = [hsLoads EXCEPT ![t] = new]
  BY <1>1, <1>2, <1>4, <1>7, <1>10 DEF HsRead, HsLoadType
<1>13. Registers(new) = {} /\ Contracts(new) = {} /\ Enables(new) = {} /\ LoadFits(new)
  BY <1>11 DEF Registers, Contracts, Enables, LoadFits
<1>14. Registers(o) = {} /\ Contracts(o) = {} /\ Enables(o) = {}
  BY <1>2 DEF Registers, Contracts, Enables
<1>15. hsManifests \subseteq Enabled /\ hsGauges \subseteq Enabled /\ hsChecks \subseteq Enabled
  BY DEF HsInv, RegistryFits, StartupFits
<1>16. /\ hsManifests' = hsManifests /\ hsGauges' = hsGauges /\ hsChecks' = hsChecks
       /\ hsFailures' = hsFailures /\ hsContracts' = hsContracts /\ UNCHANGED hsElsewhere
  BY DEF HsRead, hsRegistry
<1>17. o.alone => \A x \in Extensions : hsContracts[x] = Listed(x)
  BY <1>1, <1>2, <1>14, AloneFinds
<1>18. o.alone => \A n \in DOMAIN o.answer : o.answer[n].contracts = Listed(o.answer[n].key)
  BY <1>1, <1>2 DEF HsInv, AloneFits
<1>19. o.alone => \A n \in DOMAIN a : a[n].contracts = Listed(a[n].key)
  BY <1>3, <1>6, <1>9, <1>17, <1>18
<1>20. o.alone => \A x \in Extensions :
           hsContracts'[x] = IF x \in Contracts(new) THEN 0 ELSE Listed(x)
  BY <1>13, <1>16, <1>17
<1> QED
  BY <1>1, <1>2, <1>5, <1>11, <1>12, <1>13, <1>14, <1>15, <1>16, <1>19, <1>20, LoadMoves

\* The sixth step of the startup loads the extensions, and only the seventh may fail.
LEMMA StartupNames ==
    /\ Len(StartupSteps) = 7 /\ DOMAIN StartupSteps = 1..7
    /\ \A n \in 1..7 : /\ StartupSteps[n] = "load_extensions" <=> n = 6
                       /\ Fatal(StartupSteps[n]) <=> n # 7
<1>1. Len(StartupSteps) = 7 /\ DOMAIN StartupSteps = 1..7
  BY DEF StartupSteps
<1>2. \A n \in 1..7 : n = 1 \/ n = 2 \/ n = 3 \/ n = 4 \/ n = 5 \/ n = 6 \/ n = 7
  OBVIOUS
<1>3. /\ StartupSteps[1] = "configure_logging" /\ StartupSteps[2] = "configure_tracing"
      /\ StartupSteps[3] = "initialise_database" /\ StartupSteps[4] = "reconcile_provider_catalog"
      /\ StartupSteps[5] = "register_health_checks" /\ StartupSteps[6] = "load_extensions"
      /\ StartupSteps[7] = "warn_ephemeral_secret"
  BY DEF StartupSteps
<1> QED BY <1>1, <1>2, <1>3 DEF Fatal

LEMMA HsBeginHolds ==
    ASSUME HsInv, NEW t \in Loaders, HsBegin(t)
    PROVE  HsInv'
<1> USE DEF HsInv
<1>1. PICK others : others = {u \in Loaders : Loading(u)}
  OBVIOUS
<1>2. PICK s : /\ s = SetToSeq(Enabled) /\ s \in Seq(Extensions)
               /\ EntriesOf(s) = Enabled /\ NoneTwice(s)
  <2>1. SetToSeq(Enabled) \in Seq(Enabled) /\ Enabled \subseteq Extensions
    BY HsFinite, SequenceOfSet DEF Enabled
  <2>2. SetToSeq(Enabled) \in Seq(Extensions)
    BY <2>1
  <2> QED BY <2>2, HsFinite, SequenceOfSet
<1>3. hsLoads' = [u \in Loaders |->
          CASE u = t -> [NoLoad EXCEPT !.step = "clear", !.left = SetToSeq(Enabled),
                                       !.alone = {w \in Loaders : Loading(w)} = {}]
            [] u \in {w \in Loaders : Loading(w)} -> [hsLoads[u] EXCEPT !.alone = FALSE]
            [] OTHER -> hsLoads[u]]
  BY DEF HsBegin
<1>4. PICK new : new = hsLoads'[t]
  OBVIOUS
<1>5. PICK lone \in BOOLEAN :
          /\ new \in HsLoadType /\ new.step = "clear" /\ new.left = s /\ new.answer = <<>>
          /\ new.alone = lone /\ (lone => others = {})
  <2>1. new = [NoLoad EXCEPT !.step = "clear", !.left = SetToSeq(Enabled),
                             !.alone = {w \in Loaders : Loading(w)} = {}]
    <3>1. ~Loading(t)
      BY DEF HsBegin, Loading
    <3> QED BY <1>3, <1>4, <3>1
  <2>2. new \in HsLoadType /\ new.step = "clear" /\ new.left = s /\ new.answer = <<>>
    <3>1. ({w \in Loaders : Loading(w)} = {}) \in BOOLEAN
      OBVIOUS
    <3>2. PICK b \in BOOLEAN : b = ({w \in Loaders : Loading(w)} = {})
      BY <3>1
    <3>3. new = [NoLoad EXCEPT !.step = "clear", !.left = s, !.alone = b]
      BY <1>2, <2>1, <3>2
    <3>4. new = [step |-> "clear", left |-> s, answer |-> <<>>, alone |-> b]
      BY <3>3 DEF NoLoad
    <3> QED BY <1>2, <3>4 DEF HsLoadType, HsStep
  <2>3. new.alone \in BOOLEAN
    BY <2>2 DEF HsLoadType
  <2>4. new.alone = ({w \in Loaders : Loading(w)} = {})
    BY <2>1 DEF NoLoad
  <2>5. new.alone => others = {}
    BY <1>1, <2>4
  <2> QED BY <2>2, <2>3, <2>5
<1>6. t \notin others /\ hsLoads[t].step \in {"idle", "answered", "failed"}
  BY <1>1 DEF HsBegin, Loading
<1>7. /\ hsLoads'[t] = new
      /\ \A u \in others : hsLoads'[u] = [hsLoads[u] EXCEPT !.alone = FALSE]
      /\ \A u \in Loaders : u # t /\ u \notin others => hsLoads'[u] = hsLoads[u]
      /\ DOMAIN hsLoads' = Loaders
      /\ hsLoads' = [u \in Loaders |-> hsLoads'[u]]
  <2>3. \A u \in others : u \in Loaders /\ u # t
    BY <1>1, <1>6
  <2> QED BY <1>1, <1>3, <1>4, <2>3
<1>8. \A u \in Loaders : u \in others =>
          /\ hsLoads'[u] \in HsLoadType /\ hsLoads'[u].step = hsLoads[u].step
          /\ hsLoads'[u].left = hsLoads[u].left /\ hsLoads'[u].answer = hsLoads[u].answer
          /\ hsLoads'[u].alone = FALSE
  <2> SUFFICES ASSUME NEW u \in Loaders, u \in others
               PROVE  /\ hsLoads'[u] \in HsLoadType /\ hsLoads'[u].step = hsLoads[u].step
                      /\ hsLoads'[u].left = hsLoads[u].left
                      /\ hsLoads'[u].answer = hsLoads[u].answer /\ hsLoads'[u].alone = FALSE
    OBVIOUS
  <2>1. PICK load : load = hsLoads[u] /\ load \in HsLoadType
    BY DEF HsTypes
  <2>2. hsLoads'[u] = [load EXCEPT !.alone = FALSE]
    BY <1>7, <2>1
  <2> QED BY <2>1, <2>2 DEF HsLoadType
<1>9. UNCHANGED <<hsElsewhere, hsRegistry, hsGauges, hsChecks, hsFailures>>
  BY DEF HsBegin
<1>10. UNCHANGED <<hsRecords, hsPhase, hsScheduler, hsDatabase, hsProbe, hsManifests, hsContracts,
                   hsGauges, hsChecks, hsFailures>>
  BY <1>9 DEF hsElsewhere, hsRegistry
<1>11. \A u \in Loaders : u # t =>
           /\ hsLoads'[u].step = hsLoads[u].step /\ hsLoads'[u].left = hsLoads[u].left
           /\ hsLoads'[u].answer = hsLoads[u].answer
  BY <1>7, <1>8
<1>12. HsTypes'
  <2>1. \A u \in Loaders : hsLoads'[u] \in HsLoadType
    BY <1>5, <1>7, <1>8 DEF HsTypes
  <2>2. hsLoads' \in [Loaders -> HsLoadType]
    BY <1>7, <2>1
  <2> QED BY <1>10, <2>2 DEF HsTypes
<1>13. /\ Registers(new) = Enabled /\ Contracts(new) = Enabled /\ Enables(new) = Enabled
       /\ Registers(hsLoads[t]) = {} /\ Enables(hsLoads[t]) = {}
  BY <1>5, <1>6 DEF Registers, Contracts, Enables
<1>14. \A u \in Loaders : u # t =>
           /\ Registers(hsLoads'[u]) = Registers(hsLoads[u])
           /\ Contracts(hsLoads'[u]) = Contracts(hsLoads[u])
           /\ Enables(hsLoads'[u]) = Enables(hsLoads[u])
  BY <1>11 DEF Registers, Contracts, Enables
<1>15. Main \in Loaders
  BY DEF Loaders
<1>16. StartupFits' /\ (t # Main => hsLoads'[Main].step = "idle" /\ hsLoads[Main].step = "idle")
  <2>1. CASE t = Main
    <3>1. hsPhase = "starting" /\ Len(hsRecords) = 5
      <4>1. /\ hsPhase = "starting" /\ Len(hsRecords) < Len(StartupSteps)
            /\ NextStep = "load_extensions"
        BY <2>1, HealthAssumption DEF HsBegin
      <4>2. Len(hsRecords) \in Nat
        BY DEF HsTypes
      <4>3. Len(hsRecords) + 1 \in 1..7
        BY <4>1, <4>2, StartupNames
      <4>4. Len(hsRecords) + 1 = 6
        BY <4>1, <4>3, StartupNames DEF NextStep
      <4>5. \A k \in Nat : k + 1 = 6 => k = 5
        OBVIOUS
      <4> QED BY <4>1, <4>2, <4>4, <4>5
    <3> QED BY <1>7, <1>10, <1>13, <2>1, <3>1 DEF StartupFits
  <2>2. CASE t # Main
    <3>1. hsPhase = "serving"
      BY <2>2 DEF HsBegin
    <3>2. hsLoads[Main].step = "idle"
      BY <3>1 DEF StartupFits
    <3>3. hsLoads'[Main].step = "idle"
      BY <1>11, <1>15, <2>2, <3>2
    <3> QED BY <1>10, <2>2, <3>2, <3>3 DEF StartupFits
  <2> QED BY <2>1, <2>2
<1>17. RegistryFits'
  <2>1. hsLoads'[Main].step = "failed" => hsFailures'
    BY <1>5, <1>7, <1>16
  <2>2. ASSUME ~hsFailures', Len(hsRecords') >= 6 \/ hsLoads'[Main].step # "idle", NEW e \in Enabled
        PROVE  /\ e \in hsManifests' \/ \E u \in Loaders : e \in Registers(hsLoads'[u])
               /\ e \in hsGauges' \/ \E u \in Loaders : e \in Enables(hsLoads'[u])
    BY <1>5, <1>7, <1>13
  <2> QED BY <1>10, <2>1, <2>2 DEF RegistryFits
<1>18. ProbeFits'
  BY <1>10 DEF ProbeFits
<1>19. ASSUME NEW u \in Loaders PROVE LoadFits(hsLoads[u])' /\ AloneFits(u)'
  <2>1. CASE u = t
    <3>1. LoadFits(new)
      BY <1>2, <1>5 DEF LoadFits
    <3>2. lone => \A w \in Loaders : ~Loading(w)
      BY <1>1, <1>5
    <3>3. \A w \in Loaders : w # t => (Loading(w)' <=> Loading(w))
      BY <1>11 DEF Loading
    <3>4. AloneFits(t)'
      BY <1>5, <1>7, <3>2, <3>3 DEF AloneFits
    <3> QED BY <1>7, <2>1, <3>1, <3>4 DEF LoadFits
  <2>2. CASE u \in others
    <3>1. AloneFits(u)'
      BY <1>8, <2>2 DEF AloneFits
    <3>2. LoadFits(hsLoads[u]) /\ LoadFits(hsLoads'[u])
      BY <1>8, <2>2 DEF LoadFits
    <3> QED BY <3>1, <3>2 DEF LoadFits
  <2>3. CASE u # t /\ u \notin others
    <3>1. hsLoads'[u] = hsLoads[u] /\ ~Loading(u)
      BY <1>1, <1>7, <2>3
    <3>2. AloneFits(u)'
      BY <3>1 DEF AloneFits, Loading
    <3> QED BY <3>1, <3>2 DEF LoadFits
  <2> QED BY <2>1, <2>2, <2>3
<1> QED BY <1>12, <1>16, <1>17, <1>18, <1>19

\* A record more.
LEMMA OneRecordMore ==
    ASSUME HsTypes, Len(hsRecords) < 7, NEW status \in {"success", "error"},
           hsRecords' = Append(hsRecords, status)
    PROVE  /\ hsRecords' \in Seq({"success", "error"}) /\ Len(hsRecords) \in Nat
           /\ Len(hsRecords') = Len(hsRecords) + 1
           /\ \A n \in DOMAIN hsRecords' :
                  \/ n \in DOMAIN hsRecords /\ n <= Len(hsRecords) /\ hsRecords'[n] = hsRecords[n]
                  \/ n = Len(hsRecords) + 1 /\ hsRecords'[n] = status
           /\ \A n \in 1..Len(hsRecords) : hsRecords'[n] = hsRecords[n]
           /\ hsRecords'[Len(hsRecords) + 1] = status
<1>1. PICK s, m : s = hsRecords /\ s \in Seq({"success", "error"}) /\ m = Len(s) /\ m \in Nat
  BY LenProperties DEF HsTypes
<1>2. PICK r : r = Append(s, status)
  OBVIOUS
<1>3. /\ r \in Seq({"success", "error"}) /\ Len(r) = m + 1 /\ r[m + 1] = status
      /\ \A n \in 1..m : r[n] = s[n]
  BY <1>1, <1>2, AppendProperties
<1>4. DOMAIN s = 1..m /\ DOMAIN r = 1..(m + 1)
  BY <1>1, <1>3, LenProperties
<1>5. \A n \in 1..(m + 1) : n \in 1..m \/ n = m + 1
  BY <1>1
<1>6. \A n \in 1..m : n <= m
  BY <1>1
<1>7. \A n \in DOMAIN r : (n \in DOMAIN s /\ n <= m /\ r[n] = s[n]) \/ (n = m + 1 /\ r[n] = status)
  BY <1>3, <1>4, <1>5, <1>6
<1>8. hsRecords' = r
  BY <1>1, <1>2
<1> QED BY <1>1, <1>3, <1>7, <1>8

LEMMA HsStartupStepHolds ==
    ASSUME HsInv, HsStartupStep
    PROVE  HsInv'
<1> USE DEF HsInv
<1>1. PICK status \in {"success", "error"} : StepRecorded(status)
  BY DEF HsStartupStep
<1>2. PICK m : m = Len(hsRecords) /\ m \in Nat /\ m < 7
  <2>1. Len(hsRecords) \in Nat
    BY LenProperties DEF HsTypes
  <2>2. Len(hsRecords) < 7
    BY StartupNames DEF HsStartupStep
  <2> QED BY <2>1, <2>2
<1>3. m # 5
  <2>1. NextStep # "load_extensions"
    BY DEF HsStartupStep
  <2>2. m + 1 \in 1..7 /\ NextStep = StartupSteps[m + 1]
    BY <1>2 DEF NextStep
  <2>3. m + 1 # 6
    BY <2>1, <2>2, StartupNames
  <2> QED BY ONLY <2>3
<1>4. /\ hsPhase = "starting" /\ ~hsScheduler /\ hsLoads[Main].step = "idle"
      /\ hsProbe.left = <<>>
  <2>1. hsPhase = "starting"
    BY DEF HsStartupStep
  <2>2. hsLoads[Main].step = "idle"
    BY <1>2, <1>3 DEF StartupFits
  <2>3. hsProbe.left = <<>>
    BY <1>2 DEF ProbeFits
  <2> QED BY <2>1, <2>2, <2>3 DEF StartupFits
<1>5. UNCHANGED <<hsScheduler, hsDatabase, hsManifests, hsContracts, hsGauges, hsChecks, hsLoads,
                  hsProbe, hsFailures>>
  BY DEF HsStartupStep, hsRegistry
<1>6. /\ hsRecords' = Append(hsRecords, status)
      /\ hsPhase' \in {"starting", "aborted"}
      /\ hsPhase' # "aborted" => status = "success" \/ m + 1 = 7
  <2>1. m + 1 \in 1..7 /\ NextStep = StartupSteps[m + 1]
    BY <1>2 DEF NextStep
  <2>2. Fatal(NextStep) <=> m + 1 # 7
    BY <2>1, StartupNames
  <2> QED BY <1>1, <1>4, <2>2 DEF StepRecorded
<1>7. /\ hsRecords' \in Seq({"success", "error"}) /\ Len(hsRecords') = m + 1
      /\ \A n \in DOMAIN hsRecords' :
             \/ n \in DOMAIN hsRecords /\ n <= m /\ hsRecords'[n] = hsRecords[n]
             \/ n = m + 1 /\ hsRecords'[n] = status
      /\ \A n \in 1..m : hsRecords'[n] = hsRecords[n]
  BY <1>2, <1>6, OneRecordMore
<1>8. HsTypes'
  BY <1>2, <1>5, <1>6, <1>7 DEF HsTypes
<1>9. StartupFits'
  <2>1. hsPhase' # "aborted" => \A n \in DOMAIN hsRecords' : n # 7 => hsRecords'[n] = "success"
    BY <1>4, <1>6, <1>7 DEF StartupFits
  <2>2. (hsScheduler' <=> hsPhase' = "serving") /\ hsPhase' \notin {"serving", "stopped"}
    BY <1>4, <1>5, <1>6
  <2>3. hsLoads'[Main].step = "idle" /\ hsChecks' \subseteq Enabled
    BY <1>4, <1>5 DEF StartupFits
  <2>4. ASSUME Len(hsRecords') >= 6, hsRecords'[6] = "success" PROVE hsChecks' = Enabled
    <3>1. m >= 6 /\ 6 \in 1..m
      BY <1>2, <1>3, <1>7, <2>4
    <3>2. hsRecords[6] = "success"
      BY <1>7, <2>4, <3>1
    <3> QED BY <1>2, <1>5, <3>1, <3>2 DEF StartupFits
  <2> QED BY <2>1, <2>2, <2>3, <2>4 DEF StartupFits
<1>10. RegistryFits'
  <2>1. Len(hsRecords') >= 6 => Len(hsRecords) >= 6
    BY <1>2, <1>3, <1>7
  <2> QED BY <1>4, <1>5, <2>1 DEF RegistryFits
<1>11. ProbeFits'
  BY <1>4, <1>5 DEF ProbeFits
<1>12. ASSUME NEW u \in Loaders PROVE LoadFits(hsLoads[u])' /\ AloneFits(u)'
  BY <1>5 DEF LoadFits, AloneFits, Loading
<1> QED BY <1>8, <1>9, <1>10, <1>11, <1>12

LEMMA HsStartupLoadedHolds ==
    ASSUME HsInv, HsStartupLoaded
    PROVE  HsInv'
<1> USE DEF HsInv
<1>1. PICK o : o = hsLoads[Main] /\ o.step \in {"read", "failed"}
  BY DEF HsStartupLoaded
<1>2. PICK status \in {"success", "error"} :
          /\ status = IF o.step = "read" THEN "success" ELSE "error"
          /\ StepRecorded(status)
  BY <1>1 DEF HsStartupLoaded
<1>3. /\ hsPhase = "starting" /\ ~hsScheduler /\ Len(hsRecords) = 5 /\ hsProbe.left = <<>>
  <2>1. hsPhase = "starting"
    BY DEF HsStartupLoaded
  <2>2. Len(hsRecords) = 5
    BY <1>1 DEF StartupFits
  <2> QED BY <2>1, <2>2 DEF StartupFits, ProbeFits
<1>4. UNCHANGED <<hsScheduler, hsDatabase, hsManifests, hsContracts, hsGauges, hsChecks,
                  hsProbe, hsFailures>>
  BY DEF HsStartupLoaded, hsRegistry
<1>5. Main \in Loaders
  BY DEF Loaders
<1>6. hsLoads' \in [Loaders -> HsLoadType] /\ hsLoads'[Main] = NoLoad
      /\ \A u \in Loaders : u # Main => hsLoads'[u] = hsLoads[u]
  BY <1>5, HsStart DEF HsStartupLoaded, HsTypes
<1>7. /\ hsRecords' = Append(hsRecords, status)
      /\ hsPhase' = IF status = "error" THEN "aborted" ELSE "starting"
  <2>1. Fatal(NextStep)
    BY <1>3, StartupNames DEF NextStep
  <2> QED BY <1>2, <1>3, <2>1 DEF StepRecorded
<1>8. /\ hsRecords' \in Seq({"success", "error"}) /\ Len(hsRecords') = 6
      /\ \A n \in DOMAIN hsRecords' :
             \/ n \in DOMAIN hsRecords /\ n <= 5 /\ hsRecords'[n] = hsRecords[n]
             \/ n = 6 /\ hsRecords'[n] = status
      /\ hsRecords'[6] = status
  <2>1. HsTypes /\ Len(hsRecords) < 7
    BY <1>3
  <2>2. /\ hsRecords' \in Seq({"success", "error"}) /\ Len(hsRecords') = Len(hsRecords) + 1
        /\ \A n \in DOMAIN hsRecords' :
             \/ n \in DOMAIN hsRecords /\ n <= Len(hsRecords) /\ hsRecords'[n] = hsRecords[n]
             \/ n = Len(hsRecords) + 1 /\ hsRecords'[n] = status
        /\ hsRecords'[Len(hsRecords) + 1] = status
    BY <1>7, <2>1, OneRecordMore
  <2>3. Len(hsRecords) + 1 = 6
    BY <1>3
  <2> QED BY <1>3, <2>2, <2>3
<1>9. HsTypes'
  BY <1>4, <1>6, <1>7, <1>8 DEF HsTypes
<1>10. NoLoad.step = "idle" /\ Registers(NoLoad) = {} /\ Enables(NoLoad) = {} /\ LoadFits(NoLoad)
  BY HsStart
<1>11. Registers(o) = {} /\ Contracts(o) = {} /\ Enables(o) = {}
  BY <1>1 DEF Registers, Contracts, Enables
<1>12. StartupFits'
  <2>1. hsPhase' # "aborted" => \A n \in DOMAIN hsRecords' : n # 7 => hsRecords'[n] = "success"
    BY <1>3, <1>7, <1>8 DEF StartupFits
  <2>2. (hsScheduler' <=> hsPhase' = "serving") /\ hsPhase' \notin {"serving", "stopped"}
    BY <1>3, <1>4, <1>7
  <2>3. hsLoads'[Main].step = "idle" /\ hsChecks' \subseteq Enabled
    BY <1>4, <1>6, <1>10 DEF StartupFits
  <2>4. ASSUME hsRecords'[6] = "success" PROVE hsChecks' = Enabled
    <3>1. o.step = "read"
      BY <1>1, <1>2, <1>8, <2>4
    <3>2. Enabled \subseteq hsChecks
      BY <1>1, <1>11, <3>1 DEF StartupFits
    <3> QED BY <1>4, <2>3, <3>2
  <2> QED BY <2>1, <2>2, <2>3, <2>4 DEF StartupFits
<1>13. RegistryFits'
  <2>1. ASSUME ~hsFailures, NEW e \in Enabled
        PROVE  /\ e \in hsManifests \/ \E u \in Loaders : e \in Registers(hsLoads'[u])
               /\ e \in hsGauges \/ \E u \in Loaders : e \in Enables(hsLoads'[u])
    <3>1. /\ e \in hsManifests \/ \E u \in Loaders : e \in Registers(hsLoads[u])
          /\ e \in hsGauges \/ \E u \in Loaders : e \in Enables(hsLoads[u])
      BY <1>1, <2>1 DEF RegistryFits
    <3> QED BY <1>1, <1>6, <1>11, <3>1
  <2>2. hsLoads'[Main].step # "failed"
    BY <1>6, <1>10
  <2> QED BY <1>4, <2>1, <2>2 DEF RegistryFits
<1>14. ProbeFits'
  BY <1>3, <1>4 DEF ProbeFits
<1>15. ASSUME NEW u \in Loaders PROVE LoadFits(hsLoads[u])' /\ AloneFits(u)'
  <2>1. CASE u = Main
    <3>1. AloneFits(Main)'
      BY <1>6, <1>10 DEF AloneFits, Loading, NoLoad
    <3> QED BY <1>6, <1>10, <2>1, <3>1 DEF LoadFits
  <2>2. CASE u # Main
    <3>1. hsLoads'[u] = hsLoads[u]
      BY <1>6, <2>2
    <3>2. \A w \in Loaders : Loading(w)' => Loading(w)
      BY <1>6, <1>10 DEF Loading
    <3>3. Loading(u)' <=> Loading(u)
      BY <3>1 DEF Loading
    <3>4. AloneFits(u)'
      BY <1>4, <3>1, <3>2, <3>3 DEF AloneFits
    <3> QED BY <3>1, <3>4 DEF LoadFits
  <2> QED BY <2>1, <2>2
<1> QED BY <1>9, <1>12, <1>13, <1>14, <1>15

LEMMA HsServeHolds ==
    ASSUME HsInv, HsServe
    PROVE  HsInv'
<1> USE DEF HsInv
<1>1. /\ hsPhase = "starting" /\ Len(hsRecords) = 7 /\ hsLoads[Main].step = "idle"
      /\ \/ hsPhase' = "serving" /\ hsScheduler' = TRUE
         \/ hsPhase' = "aborted" /\ hsScheduler' = hsScheduler
  BY StartupNames DEF HsServe, StartupFits
<1>2. UNCHANGED <<hsRecords, hsDatabase, hsManifests, hsContracts, hsGauges, hsChecks, hsLoads,
                  hsProbe, hsFailures>>
  BY DEF HsServe, hsRegistry
<1>3. HsTypes'
  BY <1>1, <1>2 DEF HsTypes
<1>4. StartupFits'
  BY <1>1, <1>2 DEF StartupFits
<1>5. RegistryFits' /\ ProbeFits'
  BY <1>2 DEF RegistryFits, ProbeFits
<1>6. ASSUME NEW u \in Loaders PROVE LoadFits(hsLoads[u])' /\ AloneFits(u)'
  BY <1>2 DEF LoadFits, AloneFits, Loading
<1> QED BY <1>3, <1>4, <1>5, <1>6

LEMMA HsShutdownHolds ==
    ASSUME HsInv, HsShutdown
    PROVE  HsInv'
<1> USE DEF HsInv
<1>1. /\ hsPhase = "serving" /\ hsPhase' = "stopped" /\ hsScheduler' = FALSE
      /\ hsLoads[Main].step = "idle"
  BY DEF HsShutdown, StartupFits
<1>2. UNCHANGED <<hsRecords, hsDatabase, hsManifests, hsContracts, hsGauges, hsChecks, hsLoads,
                  hsProbe, hsFailures>>
  BY DEF HsShutdown, hsRegistry
<1>3. HsTypes'
  BY <1>1, <1>2 DEF HsTypes
<1>4. StartupFits'
  BY <1>1, <1>2 DEF StartupFits
<1>5. RegistryFits' /\ ProbeFits'
  BY <1>2 DEF RegistryFits, ProbeFits
<1>6. ASSUME NEW u \in Loaders PROVE LoadFits(hsLoads[u])' /\ AloneFits(u)'
  BY <1>2 DEF LoadFits, AloneFits, Loading
<1> QED BY <1>3, <1>4, <1>5, <1>6

LEMMA HsDatabaseTurnsHolds ==
    ASSUME HsInv, HsDatabaseTurns
    PROVE  HsInv'
<1> USE DEF HsInv
<1>1. UNCHANGED <<hsRecords, hsPhase, hsScheduler, hsManifests, hsContracts, hsGauges, hsChecks,
                  hsLoads, hsProbe, hsFailures>>
  BY DEF HsDatabaseTurns, hsRegistry
<1>2. hsDatabase' \in BOOLEAN
  BY DEF HsDatabaseTurns, HsTypes
<1>3. HsTypes'
  BY <1>1, <1>2 DEF HsTypes
<1>4. StartupFits' /\ RegistryFits' /\ ProbeFits'
  BY <1>1 DEF StartupFits, RegistryFits, ProbeFits
<1>5. ASSUME NEW u \in Loaders PROVE LoadFits(hsLoads[u])' /\ AloneFits(u)'
  BY <1>1 DEF LoadFits, AloneFits, Loading
<1> QED BY <1>3, <1>4, <1>5

\* A probe changes nothing but itself.
LEMMA OnlyProbes ==
    ASSUME HsInv,
           UNCHANGED <<hsRecords, hsPhase, hsScheduler, hsDatabase, hsRegistry, hsGauges, hsChecks,
                       hsLoads, hsFailures>>,
           hsProbe' \in [left: Seq(HsCheck), reports: Seq(HsReport)], ProbeFits'
    PROVE  HsInv'
<1> USE DEF HsInv
<1>1. UNCHANGED <<hsRecords, hsPhase, hsScheduler, hsDatabase, hsManifests, hsContracts, hsGauges,
                  hsChecks, hsLoads, hsFailures>>
  BY DEF hsRegistry
<1>2. HsTypes'
  BY <1>1 DEF HsTypes
<1>3. StartupFits' /\ RegistryFits'
  BY <1>1 DEF StartupFits, RegistryFits
<1>4. ASSUME NEW u \in Loaders PROVE LoadFits(hsLoads[u])' /\ AloneFits(u)'
  BY <1>1 DEF LoadFits, AloneFits, Loading
<1> QED BY <1>2, <1>3, <1>4

LEMMA HsAskHolds ==
    ASSUME HsInv, HsAsk
    PROVE  HsInv'
<1>1. hsChecks \subseteq Extensions /\ IsFiniteSet(hsChecks)
  BY HsFinite, FS_Subset DEF HsInv, StartupFits, Enabled
<1>2. SetToSeq(hsChecks) \in Seq(hsChecks)
  BY <1>1, SequenceOfSet
<1>3. SetToSeq(hsChecks) \in Seq(HsCheck) /\ BuiltIn \in Seq(HsCheck)
  BY <1>1, <1>2 DEF HsCheck, BuiltIn
<1>4. BuiltIn \o SetToSeq(hsChecks) \in Seq(HsCheck)
  BY <1>3, ConcatProperties
<1>5. PICK left : left = BuiltIn \o SetToSeq(hsChecks) /\ left \in Seq(HsCheck)
  BY <1>4
<1>6. hsProbe' = [left |-> left, reports |-> <<>>]
  BY <1>5 DEF HsAsk
<1>7. hsProbe' \in [left: Seq(HsCheck), reports: Seq(HsReport)]
  BY <1>5, <1>6
<1>8. UNCHANGED <<hsRecords, hsPhase, hsScheduler, hsDatabase, hsRegistry, hsGauges, hsChecks,
                  hsLoads, hsFailures>>
  BY DEF HsAsk
<1>9. Len(hsRecords') = 7
  BY <1>8 DEF HsAsk, HsInv, StartupFits
<1>10. ProbeFits'
  BY <1>6, <1>9 DEF ProbeFits
<1> QED BY <1>7, <1>8, <1>10, OnlyProbes

\* A report of the extensions that is unhealthy is one a load excuses, once the startup
\* is over.
LEMMA ReportsExcused ==
    ASSUME HsInv, Len(hsRecords) = 7, NEW check \in HsCheck, NEW report \in ReportsOf(check)
    PROVE  /\ report \in HsReport
           /\ report.check = "extensions" /\ ~report.healthy => report.excused
<1> USE DEF HsInv
<1>1. PICK db \in BOOLEAN, sched \in BOOLEAN : db = hsDatabase /\ sched = hsScheduler
  BY DEF HsTypes
<1>2. CASE check = "database"
  <2>1. report = ReportOf(check, db, "critical")
    BY <1>1, <1>2 DEF ReportsOf
  <2>2. report \in HsReport /\ report.check = "database"
    BY <1>1, <1>2, <2>1 DEF ReportOf, HsReport, HsSeverity, HsCheck
  <2> QED BY <2>2
<1>3. CASE check = "scheduler"
  <2>1. report = ReportOf(check, sched, IF hsScheduler THEN "info" ELSE "warning")
    BY <1>1, <1>3 DEF ReportsOf
  <2>2. PICK severity \in HsSeverity : report = ReportOf(check, sched, severity)
    BY <2>1 DEF HsSeverity
  <2>3. report \in HsReport /\ report.check = "scheduler"
    BY <1>1, <1>3, <2>2 DEF ReportOf, HsReport, HsCheck
  <2> QED BY <2>3
<1>4. CASE check = "extensions"
  <2>1. report = ExtensionsReport
    BY <1>4 DEF ReportsOf
  <2>2. PICK missing : missing = Enabled \ hsManifests
    OBVIOUS
  <2>3. PICK healthy \in BOOLEAN, excused \in BOOLEAN :
            /\ healthy = (missing = {})
            /\ excused = (hsFailures \/ \E t \in Loaders : Loading(t))
    <3>1. (missing = {}) \in BOOLEAN /\ (hsFailures \/ \E t \in Loaders : Loading(t)) \in BOOLEAN
      OBVIOUS
    <3> QED BY <3>1
  <2>4. PICK severity \in HsSeverity : severity = IF missing = {} THEN "info" ELSE "warning"
    BY DEF HsSeverity
  <2>5. report = [check |-> "extensions", healthy |-> healthy, severity |-> severity,
                  excused |-> excused]
    BY <2>1, <2>2, <2>3, <2>4 DEF ExtensionsReport
  <2>6. report \in HsReport
    BY <2>3, <2>4, <2>5 DEF HsReport, HsCheck
  <2>7. ASSUME ~healthy PROVE excused
    <3>1. PICK e \in Enabled : e \notin hsManifests
      BY <2>2, <2>3, <2>7
    <3>2. ASSUME ~hsFailures PROVE \E t \in Loaders : Loading(t)
      <4>1. PICK t \in Loaders : e \in Registers(hsLoads[t])
        BY <3>1, <3>2 DEF RegistryFits
      <4>2. Loading(t)
        BY <4>1 DEF Registers, Loading
      <4> QED BY <4>2
    <3> QED BY <2>3, <3>2
  <2> QED BY <2>5, <2>6, <2>7
<1>5. CASE check \notin {"database", "scheduler", "extensions"}
  <2>1. PICK healthy \in BOOLEAN, severity \in HsSeverity :
            report = ReportOf(check, healthy, severity)
    BY <1>5 DEF ReportsOf, HsSeverity
  <2>2. report \in HsReport /\ report.check = check
    BY <2>1 DEF ReportOf, HsReport
  <2> QED BY <1>5, <2>2
<1> QED BY <1>2, <1>3, <1>4, <1>5

LEMMA HsEvaluateHolds ==
    ASSUME HsInv, HsEvaluate
    PROVE  HsInv'
<1>1. PICK left, reports : /\ left = hsProbe.left /\ left \in Seq(HsCheck) /\ left # <<>>
                           /\ reports = hsProbe.reports /\ reports \in Seq(HsReport)
  BY DEF HsEvaluate, HsInv, HsTypes
<1>2. PICK rest : rest = Tail(left) /\ rest \in Seq(HsCheck) /\ Head(left) \in HsCheck
  BY <1>1, RestOfSequence
<1>3. PICK report \in ReportsOf(Head(left)) :
          hsProbe' = [left |-> rest, reports |-> Append(reports, report)]
  BY <1>1, <1>2 DEF HsEvaluate
<1>4. Len(hsRecords) = 7
  BY <1>1 DEF HsInv, ProbeFits
<1>5. /\ report \in HsReport
      /\ report.check = "extensions" /\ ~report.healthy => report.excused
  BY <1>2, <1>4, ReportsExcused
<1>6. PICK m : m = Len(reports) /\ m \in Nat
  BY <1>1, LenProperties
<1>7a. PICK new : new = Append(reports, report)
  OBVIOUS
<1>7. /\ new \in Seq(HsReport) /\ Len(new) = m + 1 /\ new[m + 1] = report
      /\ \A n \in 1..m : new[n] = reports[n]
  BY <1>1, <1>5, <1>6, <1>7a, AppendProperties
<1>8. DOMAIN reports = 1..m /\ DOMAIN new = 1..(m + 1)
  BY <1>1, <1>6, <1>7, LenProperties
<1>9. \A n \in 1..(m + 1) : n \in 1..m \/ n = m + 1
  BY <1>6
<1>10. UNCHANGED <<hsRecords, hsPhase, hsScheduler, hsDatabase, hsRegistry, hsGauges, hsChecks,
                   hsLoads, hsFailures>>
  BY DEF HsEvaluate
<1>11. hsProbe' = [left |-> rest, reports |-> new]
  BY <1>3, <1>7a
<1>12. hsProbe' \in [left: Seq(HsCheck), reports: Seq(HsReport)]
  BY <1>2, <1>7, <1>11
<1>13. ASSUME NEW n \in DOMAIN new, new[n].check = "extensions", ~new[n].healthy
       PROVE  new[n].excused
  <2>1. CASE n \in 1..m
    BY <1>1, <1>7, <1>8, <1>13, <2>1 DEF HsInv, ProbeFits
  <2>2. CASE n = m + 1
    BY <1>5, <1>7, <1>13, <2>2
  <2> QED BY <1>8, <1>9, <2>1, <2>2
<1>14. ProbeFits'
  <2>1. hsProbe'.reports = new /\ Len(hsRecords') = 7
    BY <1>4, <1>10, <1>11
  <2> QED BY <1>13, <2>1 DEF ProbeFits
<1> QED BY <1>10, <1>12, <1>14, OnlyProbes

LEMMA HsBegins == HsInit => HsInv
<1> SUFFICES ASSUME HsInit PROVE HsInv
  OBVIOUS
<1> USE DEF HsInit
<1>1. /\ NoLoad \in HsLoadType /\ NoLoad.step = "idle" /\ NoLoad.answer = <<>> /\ LoadFits(NoLoad)
      /\ NoProbe \in [left: Seq(HsCheck), reports: Seq(HsReport)]
  BY HsStart
<1>2. Main \in Loaders
  BY DEF Loaders
<1>3. HsTypes
  <2>1. hsRecords \in Seq({"success", "error"}) /\ Len(hsRecords) <= 7
    OBVIOUS
  <2>2. hsLoads \in [Loaders -> HsLoadType] /\ hsContracts \in [Extensions -> Nat]
    BY <1>1
  <2>3. hsPhase = "starting" /\ ~hsScheduler /\ hsScheduler \in BOOLEAN /\ hsDatabase \in BOOLEAN
        /\ hsFailures \in BOOLEAN /\ hsProbe \in [left: Seq(HsCheck), reports: Seq(HsReport)]
    BY <1>1
  <2> QED
    <3> HIDE DEF HsInit
    <3> QED BY <2>1, <2>2, <2>3 DEF HsTypes
<1>4. StartupFits
  BY <1>1, <1>2 DEF StartupFits
<1>5. RegistryFits /\ ProbeFits
  BY <1>1, <1>2 DEF RegistryFits, ProbeFits, NoProbe
<1>6. ASSUME NEW u \in Loaders PROVE LoadFits(hsLoads[u]) /\ AloneFits(u)
  BY <1>1 DEF AloneFits, Loading
<1> QED BY <1>3, <1>4, <1>5, <1>6 DEF HsInv

\* Each step keeps the invariant.
LEMMA HsSteps == HsInv /\ [HsNext]_hsVars => HsInv'
<1> SUFFICES ASSUME HsInv, [HsNext]_hsVars PROVE HsInv'
  OBVIOUS
<1>1. ASSUME NEW t \in Loaders, HsLoad(t) PROVE HsInv'
  BY <1>1, HsBeginHolds, HsClearHolds, HsForgetHolds, HsDisableHolds, HsRegisterHolds,
     HsRegisterContractHolds, HsEnableHolds, HsLoadFailsHolds, HsReadHolds DEF HsLoad
<1>2. CASE UNCHANGED hsVars
  <2>1. UNCHANGED <<hsRecords, hsPhase, hsScheduler, hsDatabase, hsManifests, hsContracts, hsGauges,
                    hsChecks, hsLoads, hsProbe, hsFailures>>
    BY <1>2 DEF hsVars
  <2>2. HsTypes'
    BY <2>1 DEF HsInv, HsTypes
  <2>3. StartupFits' /\ RegistryFits' /\ ProbeFits'
    BY <2>1 DEF HsInv, StartupFits, RegistryFits, ProbeFits
  <2>4. ASSUME NEW u \in Loaders PROVE LoadFits(hsLoads[u])' /\ AloneFits(u)'
    BY <2>1 DEF HsInv, LoadFits, AloneFits, Loading
  <2> QED BY <2>2, <2>3, <2>4 DEF HsInv
<1> QED
  BY <1>1, <1>2, HsStartupStepHolds, HsStartupLoadedHolds, HsServeHolds, HsShutdownHolds,
     HsDatabaseTurnsHolds, HsAskHolds, HsEvaluateHolds DEF HsNext

LEMMA HsInvHolds == HsSpec => []HsInv
  BY HsBegins, HsSteps, PTL DEF HsSpec

\* The records of the startup, the registry and the threads' loads have their types.
THEOREM HealthTyped == HsSpec => []HsTypeOK
<1>1. HsInv => HsTypeOK
  BY StartupNames
     DEF HsInv, HsTypes, HsTypeOK, HsLoadType, HsStep, StartupFits, RegistryFits, Enabled
<1> QED BY <1>1, HsInvHolds, PTL

\* Nothing is served before the startup has succeeded, the registry settles on the
\* enabled extensions however many threads empty and fill it, a request alone lists each
\* contract once, and a probe misses an extension only while one is loaded or after one
\* has failed: extension_loader.py and health.py keep their promises without a lock.
THEOREM HealthHolds == HsSpec => []HealthIsTrue
<1>1. ASSUME HsInv PROVE ServesWhatStarted
  <2>1. hsScheduler => hsPhase = "serving"
    BY <1>1 DEF HsInv, StartupFits
  <2>2. ASSUME hsPhase = "serving"
        PROVE  /\ hsScheduler /\ hsChecks = Enabled
               /\ \A n \in DOMAIN StartupSteps : Fatal(StartupSteps[n]) => hsRecords[n] = "success"
    <3>1. Len(hsRecords) = 7 /\ hsScheduler
      BY <1>1, <2>2 DEF HsInv, StartupFits
    <3>2. DOMAIN hsRecords = 1..7
      BY <1>1, <3>1, LenProperties DEF HsInv, HsTypes
    <3>3. \A n \in 1..7 : n # 7 => hsRecords[n] = "success"
      BY <1>1, <2>2, <3>2 DEF HsInv, StartupFits
    <3>4. \A n \in DOMAIN StartupSteps : Fatal(StartupSteps[n]) => hsRecords[n] = "success"
      BY <3>3, StartupNames
    <3>5. 6 \in 1..7 /\ 6 # 7 /\ 7 >= 6
      OBVIOUS
    <3>6. hsChecks = Enabled
      BY <1>1, <3>1, <3>3, <3>5 DEF HsInv, StartupFits
    <3> QED BY <3>1, <3>4, <3>6
  <2> QED BY <2>1, <2>2 DEF ServesWhatStarted
<1>2. ASSUME HsInv PROVE RegistrySettles
  <2>1. ASSUME hsPhase = "serving", ~hsFailures, \A t \in Loaders : ~Loading(t)
        PROVE  hsManifests = Enabled /\ hsGauges = Enabled
    <3>1. Len(hsRecords) >= 6
      <4>1. Len(hsRecords) = 7
        BY <1>2, <2>1 DEF HsInv, StartupFits
      <4> QED BY <4>1
    <3>2. \A t \in Loaders : Registers(hsLoads[t]) = {} /\ Enables(hsLoads[t]) = {}
      BY <2>1 DEF Loading, Registers, Enables
    <3>3. \A e \in Enabled : e \in hsManifests /\ e \in hsGauges
      BY <1>2, <2>1, <3>1, <3>2 DEF HsInv, RegistryFits
    <3>4. hsManifests \subseteq Enabled /\ hsGauges \subseteq Enabled
      BY <1>2 DEF HsInv, RegistryFits
    <3> QED BY <3>3, <3>4
  <2> QED BY <2>1 DEF RegistrySettles
<1>3. ASSUME HsInv PROVE ContractsListedOnce
  <2>1. HsThreads \subseteq Loaders
    BY DEF Loaders
  <2> QED BY <1>3, <2>1 DEF HsInv, AloneFits, ContractsListedOnce, LoadAt, Listed
<1>4. ASSUME HsInv PROVE ProbesAreRight
  <2>1. PICK reports : reports = hsProbe.reports /\ reports \in Seq(HsReport)
    BY <1>4 DEF HsInv, HsTypes
  <2>2. reports = <<>> => Unhealthy(reports) = {}
    BY DEF Unhealthy
  <2>3. HealthStatus(reports) = "critical" <=> ReadyStatus(reports) = "degraded"
    <3>1. CASE \E n \in Unhealthy(reports) : reports[n].severity = "critical"
      BY <2>2, <3>1 DEF HealthStatus, ReadyStatus
    <3>2. CASE ~ \E n \in Unhealthy(reports) : reports[n].severity = "critical"
      BY <3>2 DEF HealthStatus, ReadyStatus
    <3> QED BY <3>1, <3>2
  <2> QED BY <1>4, <2>1, <2>3 DEF HsInv, ProbeFits, ProbesAreRight
<1>5. HsInv => HealthIsTrue
  BY <1>1, <1>2, <1>3, <1>4 DEF HealthIsTrue
<1> QED BY <1>5, HsInvHolds, PTL

-----------------------------------------------------------------------------
(* The parts together.  Each behaviour of the instance runs one of them,   *)
(* so it is a behaviour of every one.                                      *)

LEMMA RuntimeRunsForecasts == RuntimeSpec => FcSpec
<1>1. RuntimeInit => FcInit
  BY DEF RuntimeInit
<1>2. [RuntimeNext]_runtimeVars => [FcNext]_fcVars
  BY DEF RuntimeNext, runtimeVars, RefreshStep, FcNext, FcRequest
<1> QED BY <1>1, <1>2, PTL DEF RuntimeSpec, FcSpec

LEMMA RuntimeRunsWeb == RuntimeSpec => WebSpec
<1>1. RuntimeInit => WebInit
  BY DEF RuntimeInit
<1>2. [RuntimeNext]_runtimeVars => [WebNext]_webVars
  BY DEF RuntimeNext, runtimeVars
<1> QED BY <1>1, <1>2, PTL DEF RuntimeSpec, WebSpec

LEMMA RuntimeRunsAudit == RuntimeSpec => AwSpec
<1>1. RuntimeInit => AwInit
  BY DEF RuntimeInit
<1>2. [RuntimeNext]_runtimeVars => [AwNext]_awVars
  BY DEF RuntimeNext, runtimeVars
<1> QED BY <1>1, <1>2, PTL DEF RuntimeSpec, AwSpec

LEMMA RuntimeRunsLogins == RuntimeSpec => LtSpec
<1>1. RuntimeInit => LtInit
  BY DEF RuntimeInit
<1>2. [RuntimeNext]_runtimeVars => [LtNext]_ltVars
  BY DEF RuntimeNext, runtimeVars
<1> QED BY <1>1, <1>2, PTL DEF RuntimeSpec, LtSpec

\* What the browser shows is its session's and of its upload, and a stamped plan has
\* an output: nothing is kept for what no longer stands behind it.
THEOREM RuntimeKeepsNothingOver == RuntimeSpec => []NothingOutlived
<1>1. ResultsAreOfSession /\ PreviewIsOfUpload /\ StampedHasOutput => NothingOutlived
  BY DEF NothingOutlived
<1> QED BY <1>1, RuntimeRunsForecasts, RuntimeRunsWeb, NothingShownOutlives, StampFollowsOutput, PTL

\* A click is carried out once, a refresh token shown once, and a login that fails
\* again and again is counted, and waits.
THEOREM RuntimeRetriesOnce ==
    ASSUME IsFiniteSet(Logins), Logins # {}
    PROVE  RuntimeSpec => []RetriedOnce
<1>1. NeverReplaysToken /\ AppliedAtMostOnce /\ LockoutIsEarned /\ OnlyEarlierFail(Cardinality(Logins) - 1)
          => RetriedOnce
  BY DEF RetriedOnce
<1>2. LtSpec => []OnlyEarlierFail(Cardinality(Logins) - 1)
  BY LockoutHolds
<1> QED BY <1>1, <1>2, RuntimeRunsWeb, RuntimeRunsLogins, RetriesAreSafe, LockoutsAreEarned, PTL

LEMMA RuntimeRunsHealth == RuntimeSpec => HsSpec
<1>1. RuntimeInit => HsInit
  BY DEF RuntimeInit
<1>2. {Main, t1} \subseteq Loaders
  BY ReloadingThread DEF Loaders
<1>3. HealthStep => HsNext
  BY <1>2 DEF HealthStep, HsNext
<1>4. [RuntimeNext]_runtimeVars => [HsNext]_hsVars
  BY <1>3 DEF RuntimeNext, runtimeVars
<1> QED BY <1>1, <1>4, PTL DEF RuntimeSpec, HsSpec

\* The variables of every part that runs beside the close keep their types.
THEOREM RuntimeTyped == RuntimeSpec => []RuntimeTypeOK
<1>1. FcTypeOK /\ WebTypeOK /\ AwTypeOK /\ HsTypeOK /\ LtTypeOK => RuntimeTypeOK
  BY DEF RuntimeTypeOK
<1> QED
  BY <1>1, RuntimeRunsForecasts, RuntimeRunsWeb, RuntimeRunsAudit, RuntimeRunsHealth,
     RuntimeRunsLogins, ForecastTyped, WebTypesHold, AuditTyped, HealthTyped, ThrottleTypes, PTL

\* Startup, the registry that requests reload against each other, and the probes are as
\* extension_loader.py, startup.py and health.py promise.
THEOREM RuntimeIsHealthy == RuntimeSpec => []HealthIsTrue
  BY RuntimeRunsHealth, HealthHolds, PTL

\* A browser that signs out, and is not warned, has its session revoked at the server.
THEOREM RuntimeSignsOut == RuntimeSpec => SignedOutMeansRevoked
  BY RuntimeRunsWeb, SignOutIsHonest, PTL

=============================================================================
