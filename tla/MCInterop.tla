------------------------------- MODULE MCInterop -------------------------------
(* Two peers: a signature row for the first, a KEM row for the second. *)
EXTENDS Interop, TLC

CONSTANTS kemPeer, sigPeer

MCPeers == <<sigPeer, kemPeer>>
MCRows == (kemPeer :> <<[kind |-> "kem", path |-> "backend"]>>)
          @@ (sigPeer :> <<[kind |-> "sig", path |-> "backend"]>>)
MCBehaviours ==
  (kemPeer :> {"yes"})
  @@ (sigPeer :> {"noContext", "otherKeys", "limited", "hedged", "blank"})
================================================================================
