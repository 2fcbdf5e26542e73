\* One client of one request: enough for the request to be read by the
\* tx_sockets loop after rx_done_callback has run.
CONSTANTS
    NClients = 1
    MaxReqs <- MC_MaxReqs_Stranded
SPECIFICATION Spec
PROPERTY
    RequestsEventuallyPublished
