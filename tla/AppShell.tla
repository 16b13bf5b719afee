-------------------------------- MODULE AppShell --------------------------------
(* How the apps reach a phone: the relay's HTTP routes and static files        *)
(* (services/relay/src/index.ts), the spotter's service worker                 *)
(* (apps/spotter/src/sw.ts) with its cache, and one browser tab.  A build is   *)
(* known by its number; its index page names one hashed script.  Deploys, a    *)
(* network that comes and goes, failing answers and the steps of an install    *)
(* fall between any two requests of the tab.                                   *)
EXTENDS Naturals

CONSTANTS Null,
          Builds,       \* the builds that are deployed one after the other, from 1
          Root, Link,   \* the spotter's index and a deep link into it
          Icon,         \* a file of the spotter without a hash
          Glasses,      \* the glasses app
          GlassesMiss,  \* a file the glasses app does not have
          Health, Room  \* the relay's own routes

ASSUME BuildsAssumption == Builds \in Nat \ {0} /\ Null \notin Nat

VARIABLES
  deployed,  \* the build that is served
  online,    \* whether the phone has a network
  active,    \* whether a service worker controls the tab
  install,   \* the installation that is running, Null when there is none
  script,    \* the build the worker's own script was last fetched from, 0 for none
  cache,     \* the answer kept for each path, Null for none
  page       \* the tab, Null when it is closed

shellVars == <<deployed, online, active, install, script, cache, page>>

--------------------------------------------------------------------------------
(* Paths and answers.                                                          *)

\* The hashed script of a build.
Asset(build) == [asset |-> build]
Assets == {Asset(build) : build \in 1 .. Builds}

GlassesPaths == {Glasses, GlassesMiss}
RelayPaths   == {Health, Room}
Paths == {Root, Link, Icon} \union GlassesPaths \union RelayPaths \union Assets

ASSUME PathsAssumption ==
  /\ Root \notin {Link, Icon} \union GlassesPaths \union RelayPaths \union Assets
  /\ Icon \notin {Link} \union GlassesPaths \union RelayPaths \union Assets
  /\ Link \notin GlassesPaths \union RelayPaths \union Assets
  /\ GlassesPaths \intersect (RelayPaths \union Assets) = {}
  /\ RelayPaths \intersect Assets = {}
  /\ Glasses # GlassesMiss
  /\ Health # Room

Index(build) == [kind |-> "index", build |-> build]
Code(build)  == [kind |-> "code", build |-> build]
Plain(kind)  == [kind |-> kind, build |-> 0]

Answers == {Index(build) : build \in 1 .. Builds} \union
           {Code(build) : build \in 1 .. Builds} \union
           {Plain(kind) : kind \in {"icon", "glasses", "health", "upgrade", "missing", "broken"}}

Good(answer) == answer.kind \notin {"upgrade", "missing", "broken"}

--------------------------------------------------------------------------------
(* The relay's routes.                                                         *)

\* env.ASSETS: the files of the build that is deployed, and of no other.
File(path) ==
  IF path = Root THEN Index(deployed)
  ELSE IF path = Asset(deployed) THEN Code(deployed)
  ELSE IF path = Icon THEN Plain("icon")
  ELSE IF path = Glasses THEN Plain("glasses") ELSE Plain("missing")

IsGlassesPath(path) == path \in GlassesPaths

\* The last segment has a dot.
AssetLike(path) == path \in Assets \union {Icon}

\* Seeded fault: every miss is answered with the spotter's index.
ServeAssetOrIndex(path) ==
  IF File(path) # Plain("missing") \/ IsGlassesPath(path) THEN File(path) ELSE File(Root)

\* The single-page fallback, not for the glasses and not for what looks like a file.
ServeAsset(path) ==
  IF File(path) # Plain("missing") \/ IsGlassesPath(path) \/ AssetLike(path)
  THEN File(path) ELSE File(Root)

\* A room answers a plain GET with 426.
Route(path) ==
  IF path = Health THEN Plain("health")
  ELSE IF path = Room THEN Plain("upgrade") ELSE ServeAsset(path)

\* What the network may answer: the relay, or an error on the way.  No answer at
\* all is possible whether the phone is online or not.
Network(path) == IF online THEN {Route(path), Plain("broken")} ELSE {}

--------------------------------------------------------------------------------
(* The service worker.                                                         *)

\* Seeded fault: only the relay's own routes are left to the network.
ShouldHandleGlasses(path) == path \notin RelayPaths

\* PASSTHROUGH.
ShouldHandle(path) == path \notin RelayPaths /\ ~IsGlassesPath(path)

\* caches.match
Cached(path) == IF cache[path] = Null THEN {} ELSE {cache[path]}

Kept(path, answer) == cache' = [cache EXCEPT ![path] = answer]

\* A navigation: whatever the network answers is kept; without an answer the
\* page that was kept, or else the index, is shown, and the browser's own error
\* page when there is neither.
NetworkFirst(path, answer) ==
  \/ answer \in Network(path) /\ Kept(path, answer)
  \/ /\ answer \in
          IF cache[path] # Null THEN Cached(path)
          ELSE IF cache[Root] # Null THEN Cached(Root) ELSE {Plain("broken")}
     /\ UNCHANGED cache

\* Seeded fault: any answer is kept.
CacheAnything(path, answer) ==
  IF cache[path] # Null THEN answer = cache[path] /\ UNCHANGED cache
  ELSE \/ answer \in Network(path) /\ Kept(path, answer)
       \/ answer = Plain("broken") /\ UNCHANGED cache

\* Anything else: what is kept, or what the network answers, kept when it is good.
CacheFirst(path, answer) ==
  IF cache[path] # Null THEN answer = cache[path] /\ UNCHANGED cache
  ELSE \/ answer \in Network(path) /\ Good(answer) /\ Kept(path, answer)
       \/ answer \in Network(path) \union {Plain("broken")} /\ ~Good(answer) /\ UNCHANGED cache

\* The worker handles a request once it is active; the others go to the network.
Handled(path, navigates, answer) ==
  IF active /\ ShouldHandle(path)
  THEN IF navigates THEN NetworkFirst(path, answer) ELSE CacheFirst(path, answer)
  ELSE answer \in Network(path) \union {Plain("broken")} /\ UNCHANGED cache

--------------------------------------------------------------------------------
(* Its installation.                                                           *)

\* The running page registers the worker, which installs when its script is new
\* (a deploy that leaves it alone is one after which this step is not taken).
Registers ==
  /\ page # Null /\ page.shows.kind = "index" /\ page.ran = Code(page.shows.build)
  /\ online /\ install = Null /\ script # deployed
  /\ script' = deployed
  /\ install' = [indexed |-> FALSE, todo |-> {Root, Icon}]
  /\ UNCHANGED <<deployed, online, active, cache, page>>

\* precacheShell: the index and the script it names, or the index with the rest.
InstallFetchesIndex ==
  /\ install # Null /\ ~install.indexed
  /\ \/ \E answer \in Network(Root) :
          /\ Good(answer)
          /\ Kept(Root, answer)
          /\ install' = [indexed |-> TRUE, todo |-> {Icon, Asset(answer.build)}]
     \/ install' = [install EXCEPT !.indexed = TRUE] /\ UNCHANGED cache
  /\ UNCHANGED <<deployed, online, active, script, page>>

\* cache.add, one by one, in any order: a failure of one is no failure.
InstallAdds(path) ==
  /\ install # Null /\ install.indexed /\ path \in install.todo
  /\ install' = [install EXCEPT !.todo = @ \ {path}]
  /\ \/ \E answer \in Network(path) : Good(answer) /\ Kept(path, answer)
     \/ UNCHANGED cache
  /\ UNCHANGED <<deployed, online, active, script, page>>

\* The first worker takes over at once and claims the tab; a later one is the
\* same code with the same cache, so it does not matter when it does.
InstallEnds ==
  /\ install # Null /\ install.indexed /\ install.todo = {}
  /\ install' = Null
  /\ active' = TRUE
  /\ UNCHANGED <<deployed, online, script, cache, page>>

--------------------------------------------------------------------------------
(* The tab, the network and the deploys.                                       *)

\* ran is the answer to the script the page asked for, Null before it.
Opened(path, answer) == [path |-> path, shows |-> answer, ran |-> Null]

Navigates(path) ==
  /\ \E answer \in Answers :
       /\ Handled(path, TRUE, answer)
       /\ page' = Opened(path, answer)
  /\ UNCHANGED <<deployed, online, active, install, script>>

\* The script the index names.
LoadsScript ==
  /\ page # Null /\ page.shows.kind = "index" /\ page.ran = Null
  /\ \E answer \in Answers :
       /\ Handled(Asset(page.shows.build), FALSE, answer)
       /\ page' = [page EXCEPT !.ran = answer]
  /\ UNCHANGED <<deployed, online, active, install, script>>

\* Any other request of the browser.
Fetches(path) ==
  /\ \E answer \in Answers : Handled(path, FALSE, answer)
  /\ UNCHANGED <<deployed, online, active, install, script, page>>

Closes ==
  /\ page # Null
  /\ page' = Null
  /\ UNCHANGED <<deployed, online, active, install, script, cache>>

Deploys ==
  /\ deployed < Builds
  /\ deployed' = deployed + 1
  /\ UNCHANGED <<online, active, install, script, cache, page>>

ChangesNetwork ==
  /\ online' = ~online
  /\ UNCHANGED <<deployed, active, install, script, cache, page>>

--------------------------------------------------------------------------------

ShellInit ==
  /\ deployed = 1
  /\ online = TRUE
  /\ active = FALSE
  /\ install = Null
  /\ script = 0
  /\ cache = [path \in Paths |-> Null]
  /\ page = Null

ShellNext ==
  \/ \E path \in {Root, Link} \union GlassesPaths : Navigates(path)
  \/ LoadsScript
  \/ \E path \in {Icon, Glasses} \union RelayPaths : Fetches(path)
  \/ Registers
  \/ InstallFetchesIndex
  \/ \E path \in Paths : InstallAdds(path)
  \/ InstallEnds
  \/ Closes
  \/ Deploys
  \/ ChangesNetwork

ShellSpec == ShellInit /\ [][ShellNext]_shellVars

--------------------------------------------------------------------------------
(* Properties.                                                                 *)

\* What is shown are answers, and a file without a hash is only kept as itself.
ShellTypeOK ==
  /\ deployed \in 1 .. Builds /\ script \in 0 .. Builds
  /\ online \in BOOLEAN /\ active \in BOOLEAN
  /\ install # Null => install.indexed \in BOOLEAN /\ install.todo \subseteq Paths
  /\ cache \in [Paths -> Answers \union {Null}]
  /\ cache[Icon] \in {Null, Plain("icon")}
  /\ page # Null =>
       /\ page.path \in Paths
       /\ page.shows \in Answers
       /\ page.ran \in Answers \union {Null}

\* A script is answered with itself or with a failure, and only itself is kept:
\* a tab whose build was replaced before its script arrived must not be given,
\* and the worker must not keep for good, an HTML page under the script's name.
ScriptsAreCode ==
  /\ \A build \in 1 .. Builds : cache[Asset(build)] \in {Null, Code(build)}
  /\ page # Null /\ page.shows.kind = "index" =>
       page.ran \in {Null, Code(page.shows.build), Plain("missing"), Plain("broken")}

\* A driver who opens the glasses app is never given the spotter's, online or
\* not, worker or not, and nothing of the relay's live routes is ever kept.
GlassesIsNeverTheSpotter ==
  /\ page # Null /\ IsGlassesPath(page.path) => page.shows.kind # "index"
  /\ \A path \in GlassesPaths \union RelayPaths : cache[path] = Null
================================================================================
