SPECIFICATION Spec
CONSTANTS
    Docs <- MCDocs
    Pdus <- MCPdus
    PeerPdus <- MCPeerPdus
    UdpEndpoints = {u1, u2}
    TcpEndpoints = {t1, t2}
    Ports = {1}
    Descriptors = {0, 1, 2}
    MaxWaiting = 1
    Datagrams <- MCDatagrams
    Once = TRUE
    Sender = u1
    Receiver = u2
    Port = 1
    Discipline = {"room", "renew", "typed", "whole", "single"}
INVARIANTS JsonExact PduExact DescriptorsOwned
