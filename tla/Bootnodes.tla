------------------------------ MODULE Bootnodes -------------------------------
(***************************************************************************)
(* The bootstrap-node lists of src/params/bootnodes.go.                    *)
(*                                                                         *)
(* Each list is a slice of enode URLs "enode://<key>@<host>:<port>".  An   *)
(* entry is modelled by what the node's URL parser makes of it: the node   *)
(* key (abbreviated to its first 8 hex digits, which already tell every    *)
(* key of the file apart), the host and the TCP port.  The ENR records of  *)
(* V5Bootnodes are signed base64 blobs and are not decoded here.           *)
(*                                                                         *)
(* A node is started with the list of its network and dials every entry;   *)
(* the variable "network" is the list a node was configured with.          *)
(***************************************************************************)
EXTENDS Naturals, Sequences

(* The parsed form of one enode URL.                                       *)
Enode(key, host, port) == [key |-> key, host |-> host, port |-> port]

MainnetBootnodes ==
  << Enode("210d9d51", "bootnode-a.genesis-mainnet.inichain.com", 30301)
   , Enode("8d7e62fe", "bootnode-b.genesis-mainnet.inichain.com", 30301)
   , Enode("ded15ac0", "bootnode-c.genesis-mainnet.inichain.com", 30301)
   , Enode("804b480e", "bootnode-a.genesis-mainnet.inichain.com", 30304)
   , Enode("863e6776", "bootnode-b.genesis-mainnet.inichain.com", 30304)
   , Enode("73a2a84a", "bootnode-c.genesis-mainnet.inichain.com", 30304)
   >>

TestnetBootnodes ==
  << Enode("5b609e29", "bootnode-a.genesis-testnet.inichain.com", 30301)
   , Enode("b04e54ff", "bootnode-b.genesis-testnet.inichain.com", 30301)
   , Enode("be431192", "bootnode-c.genesis-testnet.inichain.com", 30301)
   , Enode("8d95d155", "bootnode-a.genesis-testnet.inichain.com", 30304)
   , Enode("ff91e168", "bootnode-b.genesis-testnet.inichain.com", 30304)
   , Enode("f83f309d", "bootnode-b.genesis-testnet.inichain.com", 30304)
   >>

DevnetBootnodes ==
  << Enode("5b609e29", "devnet-bootnode0.inichain.com", 30301)
   , Enode("b04e54ff", "devnet-bootnode1.inichain.com", 30301)
   , Enode("be431192", "devnet-bootnode2.inichain.com", 30301)
   >>

RopstenBootnodes ==
  << Enode("30b7ab30", "52.176.7.10", 30303)
   , Enode("865a6325", "52.176.100.77", 30303)
   , Enode("6332792c", "52.232.243.152", 30303)
   , Enode("94c15d1b", "192.81.208.223", 30303)
   >>

RinkebyBootnodes ==
  << Enode("a24ac7c5", "52.169.42.101", 30303)
   , Enode("343149e4", "52.3.158.184", 30303)
   , Enode("b6b28890", "159.89.28.211", 30303)
   >>

GoerliBootnodes ==
  << Enode("011f758e", "51.141.78.53", 30303)
   , Enode("176b9417", "13.93.54.137", 30303)
   , Enode("46add44b", "94.237.54.114", 30313)
   , Enode("b5948a2d", "18.218.250.66", 30303)
   , Enode("a6121564", "3.11.147.67", 30303)
   , Enode("a869b02c", "51.15.116.226", 30303)
   , Enode("807b37ee", "51.15.119.157", 30303)
   , Enode("a59e33cc", "51.15.119.157", 40303)
   >>

YoloV3Bootnodes ==
  << Enode("9e1096aa", "3.9.20.133", 30303)
   >>

BootnodeLists ==
  [ mainnet |-> MainnetBootnodes, testnet |-> TestnetBootnodes,
    devnet  |-> DevnetBootnodes,  ropsten |-> RopstenBootnodes,
    rinkeby |-> RinkebyBootnodes, goerli  |-> GoerliBootnodes,
    yolov3  |-> YoloV3Bootnodes ]

VARIABLE network

Init == network \in DOMAIN BootnodeLists
Next == UNCHANGED network
Spec == Init /\ [][Next]_network

-----------------------------------------------------------------------------
(* Every entry of a list is a distinct bootstrap node at its own address:  *)
(* no two entries with different keys name the same host and port.  Two   *)
(* keys at one endpoint cannot both be reached there: the dialer's         *)
(* encryption handshake fails for every key but the one the listener      *)
(* holds, so the list has one bootstrap node fewer than it names.          *)
UniqueEndpoints ==
  LET L == BootnodeLists[network]
  IN  \A i, j \in DOMAIN L :
        L[i].key # L[j].key => <<L[i].host, L[i].port>> # <<L[j].host, L[j].port>>
=============================================================================
