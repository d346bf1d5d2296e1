------------------------------ MODULE ServerHost ------------------------------
(***************************************************************************)
(* What a server keeps on its own disk and among its own processes: the    *)
(* mission registry's file, the directory of a workspace with the commands *)
(* that run in it, and the previews started there.  No step of one reads   *)
(* or writes what another keeps (a preview serves whatever files there     *)
(* are), so a behaviour follows one of the three, and whatever can be said *)
(* of one alone is said of all.                                            *)
(***************************************************************************)
EXTENDS MissionRegistry, LocalWorkspace, PreviewProcesses

VARIABLE followed   \* "registry", "directory" or "previews"

hostVars == <<followed, registryVars, localVars, previewVars>>

HostInit ==
    /\ followed \in {"registry", "directory", "previews"}
    /\ RegistryInit /\ LocalInit /\ PreviewsInit
    /\ followed # "directory" =>
          runner = "docker" /\ root = [p \in Names |-> Missing]

FollowsOnly(name) == followed = name /\ UNCHANGED followed

HostNext ==
    \/ FollowsOnly("registry") /\ RegistryNext /\ UNCHANGED <<localVars, previewVars>>
    \/ FollowsOnly("directory") /\ LocalNext /\ UNCHANGED <<registryVars, previewVars>>
    \/ FollowsOnly("previews") /\ PreviewsNext /\ UNCHANGED <<registryVars, localVars>>

HostSpec == HostInit /\ [][HostNext]_hostVars
=============================================================================
