\* The keepalive loop beside one request at a time.  A focus calibration whose
\* last step fails leaves a session that no request and no loop moves again.
SPECIFICATION Spec
CHECK_DEADLOCK FALSE
INVARIANTS
    TypeOK
    OneCameraUser
PROPERTIES
    SuccessRestoresBroker
    RequestsEnd
