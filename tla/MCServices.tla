----------------------------- MODULE MCServices -----------------------------
(* Services of the core that do not share state, one per behaviour.         *)
EXTENDS Packages, Workspace, LspBridge, LspInstaller, TLC

CONSTANTS AllParts

VARIABLE part

\* The threads of the workspace are alike.
Symmetry == Permutations(Threads)

\* The first command only installs or removes the package; the others also copy
\* its template.
Plain == ~command[1].init

ServicesInit ==
    /\ part \in AllParts
    /\ PackagesInit /\ IndexInit /\ WorkspaceInit
    /\ part # "packages" => cached = Absent /\ \A f \in Template : dest[f] = "none"
    /\ part # "index" => idxDisk = 0
    /\ LspInit /\ InstallerInit
    /\ part # "bridge" => mgr[1].loop = "accept"
    /\ part # "installer" => release = "runs" /\ ~had

ServicesNext ==
    /\ part' = part
    /\ \/ part = "packages" /\ PackagesNext /\ Plain' /\ UNCHANGED <<indexVars, workspaceVars, lspVars, installerVars>>
       \/ part = "index" /\ IndexNext /\ UNCHANGED <<packageVars, workspaceVars, lspVars, installerVars>>
       \/ part = "workspace" /\ WorkspaceNext /\ UNCHANGED <<packageVars, indexVars, lspVars, installerVars>>
       \/ part = "bridge" /\ LspNext /\ UNCHANGED <<packageVars, indexVars, workspaceVars, installerVars>>
       \/ part = "installer" /\ InstallerNext /\ UNCHANGED <<packageVars, indexVars, workspaceVars, lspVars>>

Spec == ServicesInit /\ [][ServicesNext]_<<part, packageVars, indexVars, workspaceVars, lspVars, installerVars>>
=============================================================================
