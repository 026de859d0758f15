----------------------------- MODULE MCRegistry -----------------------------
(***************************************************************************)
(* A small registry for TLC: two accounts, two valid names and an invalid  *)
(* one, two-version histories (MaxU32 = 2, so the overflow is reached),    *)
(* pages of one entry, and payloads that succeed or fail in every way      *)
(* import_contract can.                                                    *)
(***************************************************************************)
EXTENDS Registry, TLC

CONSTANTS alice, bob, c1, c2, i1, i2, proxy, u1, n1, n2, bad

V1 == [address |-> c1, metadataUri |-> u1]
V2 == [address |-> c2, metadataUri |-> EmptyUri]
Contract(n, owner, versions) == [contractName |-> n, owner |-> owner, versions |-> versions]

\* The two builds are interchangeable.
BuildSymmetry == Permutations({i1, i2})

MCImportPayload == {
  <<>>,
  <<Contract(n1, alice, <<V2>>), Contract(n2, bob, <<V1, V2>>)>>,
  <<Contract(n2, ZeroAddress, <<V2>>)>>,
  <<Contract(n2, bob, <<V1>>), Contract(n1, alice, <<>>)>>,
  <<Contract(n1, bob, <<V1>>), Contract(n1, alice, <<V2>>)>>,
  <<Contract(n1, bob, <<V1>>), Contract(bad, alice, <<V2>>)>>,
  <<Contract(n2, bob, <<V1, V1, V2>>)>> }
=============================================================================
