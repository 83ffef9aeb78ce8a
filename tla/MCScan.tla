------------------------------- MODULE MCScan -------------------------------
(***************************************************************************)
(* Instance of Scan for TLC: the dir of one app and the one an interrupted *)
(* swap leaves beside it, with manifests that differ in who signed them    *)
(* and in what they ask for.                                               *)
(***************************************************************************)
EXTENDS Scan

Grant(cap, target) == [cap |-> cap, target |-> target, condition |-> {}]
CallOthers == Grant("ipc.call", "other")
OwnFiles == Grant("fs.write", "under $APP")
Asking(m, grants) == [m EXCEPT !.grants = grants]

Draft(key) ==
    [id |-> "app", malformed |-> {}, version |-> 1, sha256 |-> "b1", grants |-> {CallOthers},
     exposes |-> {"pay"}, protection |-> "", extends |-> {}, dynamicExtends |-> {},
     affiliates |-> {}, depends |-> {}, publisher |-> key, signature |-> None]
SignedBy(key) ==
    [Draft(key) EXCEPT !.signature = [by |-> key, over |-> SigningPayload(Draft(key))]]

Plain == SignedBy("acme")
SelfSigned == SignedBy("other")
Unexposed == [Plain EXCEPT !.extends = {[malformed |-> {}, method |-> "hook"]}]

MCNames == {"app", "app.previous"}
MCIds == {"app"}
MCPreviousOf == [n \in MCNames |-> IF n = "app.previous" THEN "app" ELSE None]
MCPins == {"acme", NoPin}

MCManifestOf == [plain |-> Plain, selfsigned |-> SelfSigned, unexposed |-> Unexposed,
                 modest |-> Asking(Plain, {OwnFiles}),
                 widened |-> Asking(Plain, {CallOthers, Grant("net.dial", "other")})]

Parsed(hash) == Dir("parsed", hash, FALSE, "plain")
Sideloaded(hash) == Dir("parsed", hash, TRUE, "plain")

MCDirs == [n \in MCNames |-> IF n = "app.previous" THEN {NoDir, Parsed("plain")} ELSE
              {NoDir, Parsed("plain"), Parsed("selfsigned"), Parsed("widened"), Parsed("unexposed"),
               Sideloaded("modest"), Sideloaded("plain"),
               Dir("parsed", "plain", FALSE, "symlink"),
               Dir("no manifest", None, FALSE, "plain")}]
=============================================================================
