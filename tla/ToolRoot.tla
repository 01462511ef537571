------------------------------ MODULE ToolRoot ------------------------------
(***************************************************************************)
(* The directory of the pinned tools and its provisioning:                 *)
(* TrustedToolchainLoader.select and provision (toolchain/loader.py).      *)
(*                                                                         *)
(* provision downloads the pinned archives, takes the tools out of them    *)
(* and tries them in a private staging directory.  Then it moves each      *)
(* former tool aside into that directory and the new one into place, one   *)
(* after another, selects the result, and takes it all back when something *)
(* raises.  One process provisions; builds only read.                      *)
(*                                                                         *)
(* A tool is "none", "good" (the size and SHA-256 of the catalog, and it   *)
(* reports its version) or "bad".                                          *)
(***************************************************************************)
CONSTANTS
    Tools,       \* the tools of the catalog's record for this host
    ToolFaults   \* faults that may happen, out of AllToolFaults

\* "interrupt": Ctrl-C or a crash, which no handler takes back;
\* "rollback": taking it back fails as well.
AllToolFaults == {"interrupt", "rollback"}

ASSUME ToolsAssumption == ToolFaults \subseteq AllToolFaults

ToolStates == {"none", "good", "bad"}

VARIABLES
    tools,      \* what is in the tool directory
    ppc,        \* what the provisioning does next
    todo,       \* tools it has still to put in place
    published,  \* tools it has put in place
    aside,      \* former tools it has moved aside; "none" when there is none
    installed,  \* how the last provisioning ended; "none" when it was cut short
    former      \* auxiliary: the tools when it began, while that matters

toolVars == <<tools, ppc, todo, published, aside, installed, former>>

NoTools == [t \in Tools |-> "none"]

ToolInit ==
    /\ tools \in [Tools -> ToolStates]
    /\ ppc = "idle"
    /\ todo = {}
    /\ published = {}
    /\ aside = NoTools
    /\ installed = "none"
    /\ former = tools

\* The toolchain can be selected: every tool is what the catalog says.
Selectable == \A t \in Tools : tools[t] = "good"

-----------------------------------------------------------------------------

\* A plausible bug: only the tools that were put in place are remembered, and a
\* former one that was moved aside for the next is forgotten.
KeepAsideNone(t) == aside' = aside

KeepAside(t) == aside' = [aside EXCEPT ![t] = tools[t]]

\* Nothing is to be done when the toolchain can be selected.
FindTools ==
    /\ ppc = "idle"
    /\ Selectable
    /\ installed' = "installed"
    /\ former' = tools
    /\ UNCHANGED <<tools, ppc, todo, published, aside>>

\* A download, an archive, a tool or its version is not the pinned one: nothing
\* has been touched.
AcquireToolsFails ==
    /\ ppc = "idle"
    /\ ~Selectable
    /\ installed' = "failed"
    /\ former' = tools
    /\ UNCHANGED <<tools, ppc, todo, published, aside>>

\* The verified tools are in the staging directory.
AcquireTools ==
    /\ ppc = "idle"
    /\ ~Selectable
    /\ ppc' = "publish"
    /\ todo' = Tools
    /\ former' = tools
    /\ installed' = "running"
    /\ UNCHANGED <<tools, published, aside>>

\* t is the tool at hand: no other one is half done.
AtHand(t) == ppc = "publish" /\ t \in todo /\ \A u \in todo \ {t} : aside[u] = "none"

SetToolAside(t) ==
    /\ AtHand(t)
    /\ tools[t] # "none"
    /\ KeepAside(t)
    /\ tools' = [tools EXCEPT ![t] = "none"]
    /\ UNCHANGED <<ppc, todo, published, installed, former>>

PutTool(t) ==
    /\ AtHand(t)
    /\ tools[t] = "none"
    /\ tools' = [tools EXCEPT ![t] = "good"]
    /\ todo' = todo \ {t}
    /\ published' = published \cup {t}
    /\ UNCHANGED <<ppc, aside, installed, former>>

\* The end: the staging directory goes with what was set aside in it.
EndProvision(result) ==
    /\ ppc' = "idle"
    /\ todo' = {}
    /\ published' = {}
    /\ aside' = NoTools
    /\ installed' = result
    /\ former' = IF result = "failed" THEN former ELSE tools
    /\ UNCHANGED tools

SelectProvisioned ==
    /\ ppc = "publish"
    /\ todo = {}
    /\ Selectable
    /\ EndProvision("installed")

\* A rename, or the selection of the result, raises.
PublishToolFails ==
    /\ ppc = "publish"
    /\ ppc' = "rollback"
    /\ UNCHANGED <<tools, todo, published, aside, installed, former>>

WithdrawTool(t) ==
    /\ ppc = "rollback"
    /\ t \in published
    /\ tools' = [tools EXCEPT ![t] = "none"]
    /\ published' = published \ {t}
    /\ UNCHANGED <<ppc, todo, aside, installed, former>>

RestoreTool(t) ==
    /\ ppc = "rollback"
    /\ published = {}
    /\ aside[t] # "none"
    /\ tools' = [tools EXCEPT ![t] = aside[t]]
    /\ aside' = [aside EXCEPT ![t] = "none"]
    /\ UNCHANGED <<ppc, todo, published, installed, former>>

RolledBack ==
    /\ ppc = "rollback"
    /\ published = {}
    /\ aside = NoTools
    /\ EndProvision("failed")

\* An unlink or a rename of the rollback raises.
RollbackFails ==
    /\ "rollback" \in ToolFaults
    /\ ppc = "rollback"
    /\ EndProvision("none")

\* Ctrl-C, for which only the staging directory is removed, or a crash, after
\* which nobody looks at it.
InterruptProvision ==
    /\ "interrupt" \in ToolFaults
    /\ ppc # "idle"
    /\ EndProvision("none")

ToolStep ==
    \/ FindTools \/ AcquireToolsFails \/ AcquireTools
    \/ \E t \in Tools : SetToolAside(t) \/ PutTool(t) \/ WithdrawTool(t) \/ RestoreTool(t)
    \/ SelectProvisioned \/ PublishToolFails
    \/ RolledBack \/ RollbackFails \/ InterruptProvision

\* A tool is damaged or removed while nobody provisions.
DamageTool(t, s) ==
    /\ ppc = "idle"
    /\ tools' = [tools EXCEPT ![t] = s]
    /\ installed' = "none"
    /\ former' = tools'
    /\ UNCHANGED <<ppc, todo, published, aside>>

ToolNext == ToolStep \/ \E t \in Tools, s \in {"none", "bad"} : DamageTool(t, s)

ToolSpec == ToolInit /\ [][ToolNext]_toolVars

-----------------------------------------------------------------------------

ToolTypeOK ==
    /\ tools \in [Tools -> ToolStates]
    /\ ppc \in {"idle", "publish", "rollback"}
    /\ todo \subseteq Tools
    /\ published \subseteq Tools
    /\ aside \in [Tools -> ToolStates]
    /\ installed \in {"none", "running", "installed", "failed"}
    /\ former \in [Tools -> ToolStates]

\* A provisioning that fails leaves the tool directory as it found it, and one
\* that succeeds leaves a toolchain that can be selected, wherever it stopped
\* (provision's publication and its rollback).  Ctrl-C, a crash and a failing
\* rollback are other ends.
ToolsRestored ==
    /\ installed = "failed" => tools = former
    /\ installed = "installed" => Selectable
=============================================================================
