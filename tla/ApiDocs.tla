------------------------------- MODULE ApiDocs -------------------------------
(***************************************************************************)
(* The page /docs/api in one browser tab: initializer.js starts the        *)
(* vendored Swagger UI with settings of its own, people type an access     *)
(* token into Authorize, and Try it out sends requests with it.  The       *)
(* requests themselves are those of Admission.                             *)
(***************************************************************************)
EXTENDS Naturals

CONSTANTS
  User,     \* people with an access token
  NoOne

ASSUME ApiDocsAssumption == NoOne \notin User

VARIABLES
  page,      \* the settings of the loaded page, or Closed
  memory,    \* whose token the page holds
  storage,   \* whose token the browser keeps for the next page
  typed      \* the tokens typed into this page since it was loaded

docsVars == <<page, memory, storage, typed>>

-----------------------------------------------------------------------------

\* The argument of SwaggerUIBundle, without its layout.  SettingsMutant is a plausible
\* slip of it that no specification uses.
SettingsMutant ==
  [url |-> "/docs/api/openapi.json", persistAuthorization |-> TRUE, withCredentials |-> FALSE,
   queryConfigEnabled |-> FALSE, supportedSubmitMethods |-> {"get", "head", "patch"}]

Settings ==
  [url |-> "/docs/api/openapi.json", persistAuthorization |-> FALSE, withCredentials |-> FALSE,
   queryConfigEnabled |-> FALSE, supportedSubmitMethods |-> {"get", "head", "patch"}]

\* What a link to the page may ask for in its query string.
Query == {Settings, [Settings EXCEPT !.persistAuthorization = ~@]}

\* On DOMContentLoaded the bundle starts, and takes the query only if it is told to.
Load(query) ==
  LET settings == IF Settings.queryConfigEnabled THEN query ELSE Settings
  IN /\ page' = settings
     /\ memory' = IF settings.persistAuthorization THEN storage ELSE NoOne
     /\ typed' = {}
     /\ UNCHANGED storage

Closed == [Settings EXCEPT !.url = "none"]
Loaded == page # Closed

Remember(u) == storage' = IF page.persistAuthorization THEN u ELSE storage

Authorize(u) ==
  /\ Loaded /\ memory = NoOne
  /\ memory' = u
  /\ typed' = typed \cup {u}
  /\ Remember(u)
  /\ UNCHANGED page

Logout ==
  /\ Loaded /\ memory # NoOne
  /\ memory' = NoOne
  /\ Remember(NoOne)
  /\ UNCHANGED <<page, typed>>

Close ==
  /\ Loaded
  /\ page' = Closed
  /\ memory' = NoOne
  /\ UNCHANGED <<storage, typed>>

DocsInit == page = Closed /\ memory = NoOne /\ storage = NoOne /\ typed = {}

DocsNext ==
  \/ \E query \in Query : Load(query)
  \/ \E u \in User : Authorize(u)
  \/ Logout \/ Close
=============================================================================
