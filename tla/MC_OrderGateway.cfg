\* Two clients over connections that segment freely, with the threads'
\* fairness and TCP's eventual delivery.
CONSTANTS
    NClients = 2
    MaxReqs <- MC_MaxReqs
SPECIFICATION Spec
INVARIANTS
    RequestsFIFO
    QuiescentComplete
PROPERTIES
    ResponsesEventuallyDelivered
    ConnectionsEventuallyAccepted
