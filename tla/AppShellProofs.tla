----------------------------- MODULE AppShellProofs -----------------------------
(* For any number of builds: no page is ever kept or run as a script, and the  *)
(* glasses app is never answered with the spotter's index.                     *)
EXTENDS AppShell, TLAPS

--------------------------------------------------------------------------------
(* The inductive invariant.  What may be kept for a path depends on the path   *)
(* only; an installation adds nothing but the index, the icon and scripts; and *)
(* a page shows what its path may be answered with.                            *)

Fits(path, answer) ==
  /\ answer \in Answers
  /\ path = Icon => answer = Plain("icon")
  /\ \A build \in 1 .. Builds : path = Asset(build) => answer = Code(build)

CacheOK ==
  /\ cache \in [Paths -> Answers \union {Null}]
  /\ \A path \in Paths : cache[path] = Null \/ Fits(path, cache[path])
  /\ \A path \in GlassesPaths \union RelayPaths : cache[path] = Null

InstallOK ==
  install # Null =>
    install \in [indexed : BOOLEAN, todo : SUBSET ({Root, Icon} \union Assets)]

PageOK ==
  page # Null =>
    /\ page \in [path : Paths, shows : Answers, ran : Answers \union {Null}]
    /\ page.path \in GlassesPaths => page.shows.kind # "index"
    /\ page.shows.kind = "index" =>
         page.ran \in {Null, Code(page.shows.build), Plain("missing"), Plain("broken")}

ShellInv ==
  /\ deployed \in 1 .. Builds /\ script \in 0 .. Builds
  /\ online \in BOOLEAN /\ active \in BOOLEAN
  /\ InstallOK
  /\ CacheOK
  /\ PageOK

--------------------------------------------------------------------------------
(* The relay's answers.                                                        *)

LEMMA AssetInjective ==
  ASSUME NEW b, NEW c, Asset(b) = Asset(c)
  PROVE  b = c
BY DEF Asset

LEMMA RouteAnswers ==
  ASSUME deployed \in 1 .. Builds, NEW path \in Paths
  PROVE  /\ Route(path) \in Answers
         /\ path = Root => Route(path) = Index(deployed)
         /\ path = Icon => Route(path) = Plain("icon")
         /\ path \in GlassesPaths => Route(path) \in {Plain("glasses"), Plain("missing")}
         /\ \A build \in 1 .. Builds :
              path = Asset(build) => Route(path) \in {Code(build), Plain("missing")}
<1>1. /\ Index(deployed) \in Answers /\ Code(deployed) \in Answers
      /\ \A kind \in {"icon", "glasses", "health", "upgrade", "missing", "broken"} :
           Plain(kind) \in Answers
  BY DEF Answers
<1>2. Asset(deployed) \in Assets
  BY DEF Assets
<1>3. File(Root) = Index(deployed)
  BY <1>2, PathsAssumption DEF File, GlassesPaths
<1>4. Index(deployed) # Plain("missing")
  BY DEF Index, Plain
<1>5. CASE path = Root
  <2>1. Route(path) = Index(deployed)
    BY <1>3, <1>4, <1>5, PathsAssumption DEF Route, ServeAsset, RelayPaths
  <2> QED
    BY <1>1, <1>5, <2>1, PathsAssumption DEF Assets, GlassesPaths
<1>6. CASE path = Icon
  <2>1. File(path) = Plain("icon")
    BY <1>2, <1>6, PathsAssumption DEF File, GlassesPaths
  <2>2. Route(path) = Plain("icon")
    BY <1>6, <2>1, PathsAssumption DEF Route, ServeAsset, AssetLike, RelayPaths
  <2> QED
    BY <1>1, <1>6, <2>2, PathsAssumption DEF Assets, GlassesPaths
<1>7. CASE path = Link
  <2>1. File(path) = Plain("missing")
    BY <1>2, <1>7, PathsAssumption DEF File, GlassesPaths
  <2>2. Route(path) = Index(deployed)
    BY <1>3, <1>7, <2>1, PathsAssumption
       DEF Route, ServeAsset, AssetLike, IsGlassesPath, RelayPaths
  <2> QED
    BY <1>1, <1>7, <2>2, PathsAssumption DEF Assets, GlassesPaths
<1>8. CASE path \in GlassesPaths
  <2>1. File(path) \in {Plain("glasses"), Plain("missing")}
    BY <1>2, <1>8, PathsAssumption DEF File, GlassesPaths
  <2>2. Route(path) = File(path)
    BY <1>8, PathsAssumption DEF Route, ServeAsset, IsGlassesPath, RelayPaths
  <2> QED
    BY <1>1, <1>8, <2>1, <2>2, PathsAssumption DEF Assets
<1>9. CASE path \in RelayPaths
  <2>1. Route(path) \in {Plain("health"), Plain("upgrade")}
    BY <1>9, PathsAssumption DEF Route, RelayPaths
  <2> QED
    BY <1>1, <1>9, <2>1, PathsAssumption DEF Assets
<1>10. CASE path \in Assets
  <2>1. PICK build \in 1 .. Builds : path = Asset(build)
    BY <1>10 DEF Assets
  <2>2. \A other \in 1 .. Builds : path = Asset(other) => other = build
    BY <2>1, AssetInjective
  <2>3. File(path) \in {Code(build), Plain("missing")}
    BY <1>10, <2>1, <2>2, PathsAssumption DEF File, GlassesPaths
  <2>4. Route(path) = File(path)
    BY <1>10, PathsAssumption DEF Route, ServeAsset, AssetLike, RelayPaths
  <2>5. Code(build) \in Answers
    BY DEF Answers
  <2> QED
    BY <1>1, <1>10, <2>2, <2>3, <2>4, <2>5, PathsAssumption
<1> QED
  BY <1>5, <1>6, <1>7, <1>8, <1>9, <1>10 DEF Paths

\* What the network answers fits its path when it is good.
LEMMA NetworkAnswers ==
  ASSUME deployed \in 1 .. Builds, NEW path \in Paths, NEW answer \in Network(path)
  PROVE  /\ answer \in Answers
         /\ Good(answer) => Fits(path, answer)
         /\ path = Root /\ Good(answer) => answer = Index(deployed)
         /\ path \in GlassesPaths => answer.kind # "index"
         /\ \A build \in 1 .. Builds :
              path = Asset(build) => answer \in {Code(build), Plain("missing"), Plain("broken")}
<1>1. answer = Route(path) \/ answer = Plain("broken")
  BY DEF Network
<1>2. ~Good(Plain("missing")) /\ ~Good(Plain("broken"))
  BY DEF Good, Plain
<1>3. Plain("broken") \in Answers
  BY DEF Answers
<1>4. \A kind : Plain(kind).kind = kind
  BY DEF Plain
<1> QED
  BY <1>1, <1>2, <1>3, <1>4, RouteAnswers DEF Fits

--------------------------------------------------------------------------------
(* The worker's answers.                                                       *)

LEMMA KeptFits ==
  ASSUME CacheOK, NEW path \in Paths, path \notin GlassesPaths \union RelayPaths,
         NEW answer, Fits(path, answer), Kept(path, answer)
  PROVE  CacheOK'
<1>1. cache' \in [Paths -> Answers \union {Null}]
  BY DEF CacheOK, Kept, Fits
<1>2. \A other \in Paths : cache'[other] = IF other = path THEN answer ELSE cache[other]
  BY DEF CacheOK, Kept
<1>3. \A other \in Paths : cache'[other] = Null \/ Fits(other, cache'[other])
  BY <1>2 DEF CacheOK
<1>4. \A other \in GlassesPaths \union RelayPaths : cache'[other] = Null
  BY <1>2 DEF CacheOK, Paths
<1> QED
  BY <1>1, <1>3, <1>4 DEF CacheOK, Fits

\* Whatever is kept for an index may be shown for it.
LEMMA NavigationFits ==
  ASSUME NEW path \in {Root, Link}, NEW answer \in Answers
  PROVE  Fits(path, answer)
BY PathsAssumption DEF Fits, Assets

LEMMA HandledAnswers ==
  ASSUME deployed \in 1 .. Builds, CacheOK, NEW path \in Paths, NEW navigates \in BOOLEAN,
         navigates => path \in {Root, Link} \union GlassesPaths,
         NEW answer, Handled(path, navigates, answer)
  PROVE  /\ answer \in Answers
         /\ CacheOK'
         /\ path \in GlassesPaths => answer.kind # "index"
         /\ \A build \in 1 .. Builds :
              path = Asset(build) => answer \in {Code(build), Plain("missing"), Plain("broken")}
<1>0. /\ Plain("broken") \in Answers
      /\ Plain("broken").kind = "broken"
      /\ ~Good(Plain("broken"))
  BY DEF Answers, Plain, Good
<1>1. CASE answer \in Network(path) \union {Plain("broken")} /\ UNCHANGED cache
  <2>1. CacheOK'
    BY <1>1 DEF CacheOK, Fits
  <2> QED
    BY <1>0, <1>1, <2>1, NetworkAnswers
<1>2. CASE active /\ ShouldHandle(path) /\ navigates
  <2>1. path \in {Root, Link} /\ path \notin GlassesPaths \union RelayPaths
    BY <1>2 DEF ShouldHandle, IsGlassesPath
  <2>2. path \notin Assets
    BY <2>1, PathsAssumption
  <2>3. NetworkFirst(path, answer)
    BY <1>2 DEF Handled
  <2>4. CASE answer \in Network(path) /\ Kept(path, answer)
    <3>1. answer \in Answers
      BY <2>4, NetworkAnswers
    <3>2. CacheOK'
      BY <2>1, <2>4, <3>1, NavigationFits, KeptFits
    <3> QED
      BY <2>1, <2>2, <3>1, <3>2 DEF Assets
  <2>5. CASE ~(answer \in Network(path) /\ Kept(path, answer))
    <3>1. /\ UNCHANGED cache
          /\ \/ cache[path] # Null /\ answer = cache[path]
             \/ cache[Root] # Null /\ answer = cache[Root]
             \/ answer = Plain("broken")
      BY <2>3, <2>5, Zenon DEF NetworkFirst, Cached
    <3>2. Root \in Paths
      BY DEF Paths
    <3>3. answer \in Answers
      BY <1>0, <3>1, <3>2 DEF CacheOK
    <3>4. CacheOK'
      BY <3>1 DEF CacheOK, Fits
    <3> QED
      BY <2>1, <2>2, <3>3, <3>4 DEF Assets
  <2> QED
    BY <2>4, <2>5
<1>3. CASE active /\ ShouldHandle(path) /\ ~navigates
  <2>1. path \notin GlassesPaths \union RelayPaths
    BY <1>3 DEF ShouldHandle, IsGlassesPath
  <2>2. CacheFirst(path, answer)
    BY <1>3 DEF Handled
  <2>3. CASE cache[path] # Null
    <3>1. answer = cache[path] /\ UNCHANGED cache
      BY <2>2, <2>3 DEF CacheFirst
    <3>2. Fits(path, answer)
      BY <2>3, <3>1 DEF CacheOK
    <3>3. CacheOK'
      BY <3>1 DEF CacheOK, Fits
    <3> QED
      BY <2>1, <3>2, <3>3 DEF Fits
  <2>4. CASE cache[path] = Null /\ answer \in Network(path) /\ Good(answer) /\ Kept(path, answer)
    <3>1. Fits(path, answer)
      BY <2>4, NetworkAnswers
    <3>2. CacheOK'
      BY <2>1, <2>4, <3>1, KeptFits
    <3> QED
      BY <2>1, <3>1, <3>2 DEF Fits
  <2> QED
    BY <1>1, <2>2, <2>3, <2>4 DEF CacheFirst
<1> QED
  BY <1>1, <1>2, <1>3 DEF Handled

--------------------------------------------------------------------------------
(* The initial state and the steps.                                            *)

LEMMA InitShellInv == ShellInit => ShellInv
<1> SUFFICES ASSUME ShellInit PROVE ShellInv
  OBVIOUS
<1>1. CacheOK
  BY DEF ShellInit, CacheOK, Paths
<1>2. deployed \in 1 .. Builds /\ script \in 0 .. Builds
  BY BuildsAssumption DEF ShellInit
<1>3. online \in BOOLEAN /\ active \in BOOLEAN
  BY DEF ShellInit
<1>4. InstallOK /\ PageOK
  BY DEF ShellInit, InstallOK, PageOK
<1> QED
  BY <1>1, <1>2, <1>3, <1>4 DEF ShellInv

LEMMA NavigatesInv ==
  ASSUME ShellInv, NEW path \in {Root, Link} \union GlassesPaths, Navigates(path)
  PROVE  ShellInv'
<1>1. path \in Paths
  BY DEF Paths
<1>2. PICK answer \in Answers : Handled(path, TRUE, answer) /\ page' = Opened(path, answer)
  BY DEF Navigates
<1>3. CacheOK' /\ (path \in GlassesPaths => answer.kind # "index")
  BY <1>1, <1>2, HandledAnswers DEF ShellInv
<1>4. PageOK'
  BY <1>1, <1>2, <1>3 DEF PageOK, Opened
<1> QED
  BY <1>3, <1>4 DEF ShellInv, Navigates, InstallOK

LEMMA LoadsScriptInv ==
  ASSUME ShellInv, LoadsScript
  PROVE  ShellInv'
<1>1. PICK answer \in Answers : /\ Handled(Asset(page.shows.build), FALSE, answer)
                                /\ page' = [page EXCEPT !.ran = answer]
  BY DEF LoadsScript
<1>2. /\ page # Null /\ page.shows.kind = "index"
      /\ page \in [path : Paths, shows : Answers, ran : Answers \union {Null}]
      /\ page.path \in GlassesPaths => page.shows.kind # "index"
  BY DEF LoadsScript, ShellInv, PageOK
<1>3. page.shows.build \in 1 .. Builds
  <2>1. page.shows \in Answers
    BY <1>2
  <2> QED
    BY <1>2, <2>1 DEF Answers, Index, Code, Plain
<1>4. Asset(page.shows.build) \in Paths
  BY <1>3 DEF Assets, Paths
<1>5. CacheOK' /\ answer \in {Code(page.shows.build), Plain("missing"), Plain("broken")}
  BY <1>1, <1>3, <1>4, HandledAnswers DEF ShellInv
<1>6. page'.path = page.path /\ page'.shows = page.shows /\ page'.ran = answer
  BY <1>1, <1>2
<1>7. page' \in [path : Paths, shows : Answers, ran : Answers \union {Null}]
  BY <1>1, <1>2
<1>8. PageOK'
  BY <1>2, <1>5, <1>6, <1>7 DEF PageOK
<1> QED
  BY <1>5, <1>8 DEF ShellInv, LoadsScript, InstallOK

LEMMA FetchesInv ==
  ASSUME ShellInv, NEW path \in {Icon, Glasses} \union RelayPaths, Fetches(path)
  PROVE  ShellInv'
<1>1. path \in Paths
  BY DEF Paths, GlassesPaths
<1>2. CacheOK'
  BY <1>1, HandledAnswers DEF ShellInv, Fetches
<1> QED
  BY <1>2 DEF ShellInv, Fetches, InstallOK, PageOK

LEMMA InstallFetchesIndexInv ==
  ASSUME ShellInv, InstallFetchesIndex
  PROVE  ShellInv'
<1>1. Root \in Paths /\ Root \notin GlassesPaths \union RelayPaths
  BY PathsAssumption DEF Paths
<1>2. ASSUME NEW answer \in Network(Root), Good(answer), Kept(Root, answer),
             install' = [indexed |-> TRUE, todo |-> {Icon, Asset(answer.build)}]
      PROVE  CacheOK' /\ InstallOK'
  <2>1. answer = Index(deployed) /\ Fits(Root, answer)
    BY <1>1, <1>2, NetworkAnswers DEF ShellInv
  <2>2. CacheOK'
    BY <1>1, <1>2, <2>1, KeptFits DEF ShellInv
  <2>3. answer.build = deployed
    BY <2>1 DEF Index
  <2>4. Asset(answer.build) \in Assets
    BY <2>3 DEF Assets, ShellInv
  <2> QED
    BY <1>2, <2>2, <2>4 DEF InstallOK
<1>3. ASSUME install' = [install EXCEPT !.indexed = TRUE], UNCHANGED cache
      PROVE  CacheOK' /\ InstallOK'
  <2>1. CacheOK'
    BY <1>3 DEF ShellInv, CacheOK, Fits
  <2>2. InstallOK'
    BY <1>3 DEF InstallFetchesIndex, ShellInv, InstallOK
  <2> QED
    BY <2>1, <2>2
<1>4. CacheOK' /\ InstallOK'
  BY <1>2, <1>3 DEF InstallFetchesIndex
<1> QED
  BY <1>4 DEF ShellInv, InstallFetchesIndex, PageOK

LEMMA InstallAddsInv ==
  ASSUME ShellInv, NEW path \in Paths, InstallAdds(path)
  PROVE  ShellInv'
<1>1. path \notin GlassesPaths \union RelayPaths
  BY PathsAssumption DEF InstallAdds, ShellInv, InstallOK
<1>2. CacheOK'
  <2>1. ASSUME NEW answer \in Network(path), Good(answer), Kept(path, answer)
        PROVE  CacheOK'
    BY <1>1, <2>1, NetworkAnswers, KeptFits DEF ShellInv
  <2>2. ASSUME UNCHANGED cache
        PROVE  CacheOK'
    BY <2>2 DEF ShellInv, CacheOK, Fits
  <2> QED
    BY <2>1, <2>2 DEF InstallAdds
<1>3. InstallOK'
  BY DEF InstallAdds, ShellInv, InstallOK
<1> QED
  BY <1>2, <1>3 DEF ShellInv, InstallAdds, PageOK

\* The steps that leave the cache alone.
LEMMA OtherStepsInv ==
  ASSUME ShellInv, Registers \/ InstallEnds \/ Closes \/ Deploys \/ ChangesNetwork
                     \/ UNCHANGED shellVars
  PROVE  ShellInv'
<1>1. UNCHANGED cache
  BY DEF Registers, InstallEnds, Closes, Deploys, ChangesNetwork, shellVars
<1>2. CacheOK'
  BY <1>1 DEF ShellInv, CacheOK, Fits
<1>3. InstallOK'
  <2>1. CASE Registers
    <3>1. install' = [indexed |-> FALSE, todo |-> {Root, Icon}]
      BY <2>1 DEF Registers
    <3> QED
      BY <3>1 DEF InstallOK
  <2>2. CASE UNCHANGED install \/ install' = Null
    BY <2>2 DEF ShellInv, InstallOK
  <2> QED
    BY <2>1, <2>2 DEF InstallEnds, Closes, Deploys, ChangesNetwork, shellVars
<1>4. PageOK'
  BY DEF ShellInv, PageOK, Registers, InstallEnds, Closes, Deploys, ChangesNetwork, shellVars
<1>5. deployed' \in 1 .. Builds /\ script' \in 0 .. Builds
  <2>1. CASE Deploys
    BY <2>1, BuildsAssumption DEF ShellInv, Deploys
  <2>2. CASE Registers
    BY <2>2, BuildsAssumption DEF ShellInv, Registers
  <2>3. CASE UNCHANGED <<deployed, script>>
    BY <2>3 DEF ShellInv
  <2> QED
    BY <2>1, <2>2, <2>3 DEF InstallEnds, Closes, ChangesNetwork, shellVars
<1>6. online' \in BOOLEAN /\ active' \in BOOLEAN
  BY Zenon DEF ShellInv, Registers, InstallEnds, Closes, Deploys, ChangesNetwork, shellVars
<1> QED
  BY <1>2, <1>3, <1>4, <1>5, <1>6 DEF ShellInv

\* Every reachable state satisfies the inductive invariant.
THEOREM ShellInvHolds == ShellSpec => []ShellInv
<1>1. ShellInv /\ [ShellNext]_shellVars => ShellInv'
  BY NavigatesInv, LoadsScriptInv, FetchesInv, InstallFetchesIndexInv, InstallAddsInv,
     OtherStepsInv DEF ShellNext
<1> QED
  BY InitShellInv, <1>1, PTL DEF ShellSpec

--------------------------------------------------------------------------------
(* The properties.                                                             *)

\* Type correctness: what the tab shows and the worker keeps are answers of the relay.
THEOREM ShellTypeCorrect == ShellSpec => []ShellTypeOK
<1>1. ShellInv => ShellTypeOK
  <2> SUFFICES ASSUME ShellInv PROVE ShellTypeOK
    OBVIOUS
  <2>1. Icon \in Paths
    BY DEF Paths
  <2>2. cache[Icon] \in {Null, Plain("icon")}
    BY <2>1 DEF ShellInv, CacheOK, Fits
  <2>3. install # Null => install.indexed \in BOOLEAN /\ install.todo \subseteq Paths
    BY DEF ShellInv, InstallOK, Paths
  <2> QED
    BY <2>2, <2>3 DEF ShellInv, CacheOK, PageOK, ShellTypeOK
<1> QED
  BY <1>1, ShellInvHolds, PTL

\* However many builds follow each other, no HTML page is run or kept as a script.
THEOREM ScriptsAreAlwaysCode == ShellSpec => []ScriptsAreCode
<1>1. ShellInv => ScriptsAreCode
  <2> SUFFICES ASSUME ShellInv PROVE ScriptsAreCode
    OBVIOUS
  <2>1. \A build \in 1 .. Builds : Asset(build) \in Paths
    BY DEF Assets, Paths
  <2>2. \A build \in 1 .. Builds : cache[Asset(build)] \in {Null, Code(build)}
    BY <2>1 DEF ShellInv, CacheOK, Fits
  <2> QED
    BY <2>2 DEF ShellInv, PageOK, ScriptsAreCode
<1> QED
  BY <1>1, ShellInvHolds, PTL

\* The glasses app is never answered with the spotter's index, by the relay or the worker.
THEOREM GlassesAreNeverTheSpotter == ShellSpec => []GlassesIsNeverTheSpotter
<1>1. ShellInv => GlassesIsNeverTheSpotter
  BY DEF ShellInv, CacheOK, PageOK, GlassesIsNeverTheSpotter, IsGlassesPath
<1> QED
  BY <1>1, ShellInvHolds, PTL
================================================================================
