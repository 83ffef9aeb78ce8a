------------------------------ MODULE Manifest ------------------------------
(***************************************************************************)
(* The checks of pkg/manifest as predicates on a manifest.  A value that   *)
(* the code only matches against a pattern is represented by whether it    *)
(* matches: "malformed" is the set of such fields that do not.  A target   *)
(* is known by its shape, a condition is the set of its nodes (Validate    *)
(* visits every node, and one bad node makes the whole condition bad), and *)
(* a signature is known by the key that made it and what it was made over. *)
(***************************************************************************)
EXTENDS Naturals, FiniteSets

KnownCaps == {"fs.read", "fs.write", "fs.append", "fs.delete", "net.dial",
              "net.call", "ipc.call", "key.sign", "audit.log", "proc.exec",
              "identity.verify"}
KnownConditionKinds == {"rate", "cap", "allowlist", "denylist", "time_window",
                        "requires_user_consent", "requires_foreground", "signed_by"}
KnownProtections == {"", "shareable", "guarded"}
SideloadAllowedCaps == {"audit.log", "fs.read", "fs.write"}

(* One node of a condition tree: its own fields and how many conditions    *)
(* it composes.                                                            *)
HasLeaf(c) == c.kind # "" \/ c.params
HasComposite(c) == c.op # "" \/ c.compose > 0

ValidateNode(c) ==
    /\ HasLeaf(c) # HasComposite(c)
    /\ HasLeaf(c) => c.kind \in KnownConditionKinds
    /\ HasComposite(c) => \/ c.op \in {"and", "or"} /\ c.compose >= 2
                          \/ c.op = "not" /\ c.compose = 1

ValidateCondition(nodes) == \A c \in nodes : ValidateNode(c)

(* proc.exec names exactly one executable: a path or a bare command.       *)
ValidateProcExecTarget(t) == t = "executable"

ValidateGrant(g) ==
    /\ g.cap \in KnownCaps
    /\ g.target # "blank"
    /\ g.cap = "proc.exec" => ValidateProcExecTarget(g.target)
    /\ ValidateCondition(g.condition)

(* A hook method must be exposed, unless nothing at all is exposed.        *)
ValidateExtension(m, ext) ==
    /\ ext.malformed = {}
    /\ ext.method # ""
    /\ m.exposes # {} => ext.method \in m.exposes

Validate(m) ==
    /\ m.malformed = {}
    /\ m.grants # {}
    /\ \A g \in m.grants : ValidateGrant(g)
    /\ m.protection \in KnownProtections
    /\ \A ext \in m.extends : ValidateExtension(m, ext)

-----------------------------------------------------------------------------
(* The allow-list of sideloaded apps.                                      *)
IsAppLocalTarget(t) == t = "under $APP"

SideloadGrant(g) ==
    /\ g.cap \in SideloadAllowedCaps
    /\ g.cap \in {"fs.read", "fs.write"} => IsAppLocalTarget(g.target)
    /\ g.condition = {}

EnforceSideloadPolicy(m) ==
    /\ m.protection # "guarded"
    /\ m.extends = {}
    /\ m.dynamicExtends = {}
    /\ m.affiliates = {}
    /\ m.depends = {}
    /\ \A g \in m.grants : SideloadGrant(g)

-----------------------------------------------------------------------------
(* The trust chain of a catalogue app: signed by the publisher it names,   *)
(* which is the one the catalogue pins for its id.  Without a pin no       *)
(* manifest passes.                                                        *)
NoPin == "no pin"

(* What a signature covers: not the hooks, nor what the app exposes.       *)
SigningPayload(m) ==
    [publisher |-> m.publisher, id |-> m.id, version |-> m.version,
     sha256 |-> m.sha256, grants |-> m.grants]

VerifySignature(m) == m.signature = [by |-> m.publisher, over |-> SigningPayload(m)]
VerifyTrustAnchor(m, pin) == pin # NoPin /\ m.publisher = pin
=============================================================================
