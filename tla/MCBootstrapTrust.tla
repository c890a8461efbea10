---------------------------- MODULE MCBootstrapTrust ----------------------------
(***************************************************************************)
(* Five peers: the gateway under the CA it has and under the next one, two *)
(* fronts before it, of which one has a publicly trusted and one a private *)
(* certificate and both are pinned, and somebody else, with a CA of their  *)
(* own.                                                                    *)
(***************************************************************************)
EXTENDS BootstrapTrust

CONSTANTS gateway, rotated, public, private, other,
          platformCA, nextCA, publicCA, privateCA, otherCA

MCPeers == {gateway, rotated, public, private, other}
MCPublic == {public}
MCPrivate == {private}
MCPinned == {public, private}
MCCAs == {platformCA, nextCA, publicCA, privateCA, otherCA}
MCPlatform == {platformCA, nextCA}
MCIssuer == [p \in MCPeers |-> CASE p = gateway -> platformCA
                                 [] p = rotated -> nextCA
                                 [] p = public -> publicCA
                                 [] p = private -> privateCA
                                 [] p = other -> otherCA]
MCHands == [p \in MCPeers |->
              IF p = other THEN {{otherCA}, {platformCA, otherCA}}
                           ELSE {{platformCA}, {platformCA, nextCA}, {nextCA}}]
=================================================================================
