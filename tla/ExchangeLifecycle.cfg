SPECIFICATION Spec
\* The program ends once the server is destroyed and every thread has exited.
CHECK_DEADLOCK FALSE
INVARIANT NoUseAfterDestroy
