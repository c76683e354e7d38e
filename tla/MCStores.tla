------------------------------- MODULE MCStores -------------------------------
(***************************************************************************)
(* Small instances, for TLC, of what keeps data: the stores of llmings,    *)
(* credentials and accounts, the planners' documents, the instances of     *)
(* hosted apps and the scrollback of terminals.  They share no state: a    *)
(* behaviour of this module is one of a single component.                  *)
(***************************************************************************)
EXTENDS Naturals, TLC

CONSTANTS
  None,
  Viewer, MaxVersion, MaxCrashes,                       \* of Vaults, Terminals and others
  Process, Doc, MaxCount,                               \* of Scrolls
  Crate, FileOf, Owner, Reader,                         \* of Crates
  Executor, Key, MaxKills,                              \* of Blobs
  Cred, Oauth, Checked, Flow, Keychain, MaxSets, MaxStarts, \* of Credentials
  Call, MaxFlows, MaxRestarts,                          \* of CredentialStore
  User, Host, Home, Browser, Server, Mongo, FixedSecret, MaxAttempts, MaxFailures,
  MaxTokens, MaxServerStarts,                           \* of Accounts
  App, Worker, Port, Tab, MaxMade, Failing,             \* of HostedApps
  Term, Watcher, MaxFd, MaxOut, MaxLine,                \* of Terminals
  MaxId, LetGo, MaxWidth, MaxLevels, MaxLinks, MaxHistory,
  MachineInner, SubInner, MinInner,                     \* of Planner
  Floor, Edge, Spot, Preset, Width, MaxEdits            \* of HomePlanner

VARIABLES
  part,  \* the component this behaviour is one of
  v1, v2, v3, v4, v5, v6, v7, v8, v9, v10, v11, v12, v13, v14, v15, v16, v17, v18

all == <<part, v1, v2, v3, v4, v5, v6, v7, v8, v9, v10, v11, v12, v13, v14, v15, v16,
          v17, v18>>

\* A crate is in a file of its name.
OwnFile == [n \in Crate |-> n]

\* Two edges in a row, a preset of one floor and one of two, and doors alone.
TwoEdges   == {<<0, 0, "h">>, <<1, 0, "h">>}
TwoPresets == {0 :> <<0>>, (0 :> <<4>>) @@ (1 :> <<4>>)}
DoorsAlone == "door" :> 2

\* A behaviour is of one component, which has the first n variables; the others rest.
Is(p) == part = p

Unused(n) ==
  /\ (n < 8 => v8 = 0) /\ (n < 9 => v9 = 0) /\ (n < 10 => v10 = 0) /\ (n < 11 => v11 = 0)
  /\ (n < 12 => v12 = 0) /\ (n < 13 => v13 = 0) /\ (n < 14 => v14 = 0) /\ (n < 15 => v15 = 0)
  /\ (n < 16 => v16 = 0) /\ (n < 17 => v17 = 0) /\ (n < 18 => v18 = 0)

Resting(n) ==
  /\ part' = part
  /\ (n < 8 => v8' = v8) /\ (n < 9 => v9' = v9) /\ (n < 10 => v10' = v10)
  /\ (n < 11 => v11' = v11) /\ (n < 12 => v12' = v12) /\ (n < 13 => v13' = v13)
  /\ (n < 14 => v14' = v14) /\ (n < 15 => v15' = v15) /\ (n < 16 => v16' = v16)
  /\ (n < 17 => v17' = v17) /\ (n < 18 => v18' = v18)

-------------------------------------------------------------------------------
Va == INSTANCE Vaults WITH InThread <- FALSE, Cards <- TRUE, Ttl <- TRUE, rows <- v1,
  version <- v2, writer <- v3, cache <- v4, bound <- v5, watch <- v6, recent <- v7,
  pending <- v8, timer <- v9, shown <- v10, due <- v11, crashes <- v12

Sc == INSTANCE Scrolls WITH row <- v1, tables <- v2, lock <- v3, job <- v4, gc <- v5,
  todo <- v6, swept <- v7, told <- v8, crashes <- v9

Cr == INSTANCE Crates WITH Name <- Crate, file <- v1, row <- v2, version <- v3,
  job <- v4, listed <- v5, left <- v6, got <- v7

Bl == INSTANCE Blobs WITH Thread <- Executor, MaxCrashes <- MaxKills, data <- v1,
  meta <- v2, version <- v3, job <- v4, kept <- v5, got <- v6, crashes <- v7

Cd == INSTANCE Credentials WITH row <- v1, alerts <- v2, posts <- v3, flow <- v4,
  of <- v5, check <- v6, key <- v7, keychain <- v8, file <- v9, sets <- v10,
  starts <- v11

Cs == INSTANCE CredentialStore WITH cred <- v1, meta <- v2, state <- v3, loaded <- v4,
  nonce <- v5, code <- v6, flows <- v7, job <- v8, restarts <- v9

Ac == INSTANCE Accounts WITH Process <- Server, MaxStarts <- MaxServerStarts,
  stored <- v1, copy <- v2, starts <- v3, up <- v4, tunnel <- v5, login <- v6,
  session <- v7, attempts <- v8, file <- v9, current <- v10, held <- v11, kind <- v12,
  ended <- v13, failures <- v14, crashes <- v15

Pl == INSTANCE Planner WITH Place <- LetGo, Overlapping <- FALSE, components <- v1, nextId <- v2, world <- v3, inner <- v4,
  undoStack <- v5, redoStack <- v6, pending <- v7, levelStack <- v8,
  connectingFrom <- v9, connections <- v10, drag <- v11

Ho == INSTANCE HomePlanner WITH Patient <- TRUE, order <- v1, walls <- v2, furn <- v3,
  nextId <- v4, active <- v5, tool <- v6, sel <- v7, drag <- v8, stroke <- v9, pan <- v10,
  drawn <- v11, scene <- v12, meshes <- v13, tasks <- v14, serial <- v15, panel <- v16,
  shown <- v17, list <- v18

Ha == INSTANCE HostedApps WITH Name <- App, Thread <- Worker, Twice <- FALSE,
  container <- v1, volume <- v2, port <- v3, made <- v4, instance <- v5, thread <- v6,
  poll <- v7, tab <- v8, cookie <- v9, request <- v10, socket <- v11

Te == INSTANCE Terminals WITH Viewer <- Watcher, shell <- v1, fd <- v2, written <- v3,
  read <- v4, queue <- v5, scroll <- v6, loop <- v7, todo <- v8, failed <- v9,
  size <- v10, attached <- v11, viewer <- v12, on <- v13, conn <- v14, got <- v15,
  used <- v16, record <- v17, watched <- v18

\* One thread of a llming puts its crates, one its blobs, and one process at a time
\* writes the host's tokens: nothing in the code makes two of them take turns.
Single(S) == \A s, t \in S : s = t

\* The constants of every component are as it assumes; the keychain does not fail at
\* some starts only.
ASSUME MCStoresAssumption ==
  /\ Single(Owner) /\ Single(Executor) /\ Single(Server)
  /\ Keychain \in {"works", "absent"} /\ None # "never"
  /\ Va!VaultsAssumption /\ Sc!ScrollsAssumption /\ Cr!CratesAssumption
  /\ Bl!BlobsAssumption /\ Cd!CredentialsAssumption
  /\ Ac!AccountsAssumption /\ Pl!PlannerAssumption /\ Ho!HomePlannerAssumption
  /\ Ha!HostedAppsAssumption /\ Te!TerminalsAssumption

-------------------------------------------------------------------------------
Init ==
  \/ Is("vaults")      /\ Va!Init /\ Unused(12)
  \/ Is("scrolls")     /\ Sc!Init /\ Unused(9)
  \/ Is("crates")      /\ Cr!Init /\ Unused(7)
  \/ Is("blobs")       /\ Bl!Init /\ Unused(7)
  \/ Is("credentials") /\ Cd!Init /\ Unused(11)
  \/ Is("logins")      /\ Cs!Init /\ Unused(9)
  \/ Is("accounts")    /\ Ac!Init /\ Unused(15)
  \/ Is("planner")     /\ Pl!Init /\ Unused(11)
  \/ Is("home")        /\ Ho!Init /\ Unused(18)
  \/ Is("apps")        /\ Ha!Init /\ Unused(11)
  \/ Is("terminals")   /\ Te!Init /\ Unused(18)

Next ==
  \/ Is("vaults")      /\ Va!Next /\ Resting(12)
  \/ Is("scrolls")     /\ Sc!Next /\ Resting(9)
  \/ Is("crates")      /\ Cr!Next /\ Resting(7)
  \/ Is("blobs")       /\ Bl!Next /\ Resting(7)
  \/ Is("credentials") /\ Cd!Next /\ Resting(11)
  \/ Is("logins")      /\ Cs!Next /\ Resting(9)
  \/ Is("accounts")    /\ Ac!Next /\ Resting(15)
  \/ Is("planner")     /\ Pl!Next /\ Resting(11)
  \/ Is("home")        /\ Ho!Next /\ Resting(18)
  \/ Is("apps")        /\ Ha!Next /\ Resting(11)
  \/ Is("terminals")   /\ Te!Next /\ Resting(18)

Spec == Init /\ [][Next]_all

-------------------------------------------------------------------------------
\* The state of every component has its shape, whatever happens to it.
TypesOK ==
  /\ Is("vaults")      => Va!VaultsTypeOK
  /\ Is("scrolls")     => Sc!ScrollsTypeOK
  /\ Is("crates")      => Cr!CratesTypeOK
  /\ Is("blobs")       => Bl!BlobsTypeOK
  /\ Is("credentials") => Cd!CredentialsTypeOK
  /\ Is("logins")      => Cs!CredentialStoreTypeOK
  /\ Is("accounts")    => Ac!AccountsTypeOK
  /\ Is("planner")     => Pl!PlannerTypeOK
  /\ Is("home")        => Ho!HomePlannerTypeOK
  /\ Is("apps")        => Ha!HostedAppsTypeOK
  /\ Is("terminals")   => Te!TerminalsTypeOK

\* A deleted document comes back only by an insert, and a blob read is one that a put
\* stored, whole, over crashes at any point (storage/scrolls, blobstore.py).
StoresKeepTheirWord ==
  [][/\ Is("scrolls") => Sc!DeletedStaysDeleted
     /\ Is("blobs")   => Bl!ReadsWhatWasPut]_all

\* What a listing or an entry announces is there: the data and the container of a
\* listed app, the file of a crate at the version of its row (llmings/core/hosted_apps,
\* storage/crates).
ListedIsThere ==
  /\ Is("apps")   => Ha!ListedHasData
  /\ Is("crates") => Cr!InfoNotAhead

\* A viewer that watches a vault's key has the latest value or is about to get it; a
\* viewer of a terminal misses nothing and sees nothing twice (card_api.py, termd.py).
ViewersMissNothing ==
  /\ Is("vaults")    => Va!ViewersCatchUp /\ Va!OneDocument
  /\ Is("terminals") => Te!NoGaps

\* What was stored stays usable: credentials can be decrypted after every restart, a
\* login with a refresh token is refreshed before it is given up, and a token that
\* was handed out is in the file (credentials/vault.py, ext/credentials.py,
\* access/tokens.py).
SecretsUsable ==
  /\ Is("credentials") => Cd!Readable
  /\ Is("logins")      => Cs!RefreshedWhilePossible
  /\ Is("accounts")    => Ac!KeysKept

\* A plan is consistent after any edits, undone and redone, and the scene shows the
\* floor that is edited (hortplanner engine.js, engine-home.js).
PlansWhole ==
  /\ Is("planner") => Pl!WholeTree
  /\ Is("home")    => Ho!SceneShowsFloor

===============================================================================
