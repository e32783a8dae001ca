CONSTANTS
    MaxRequests = 2
    MaxBody = 1
    MaxChunks = 1
    Kinds = {"drop", "error", "oauth", "static", "upgrade", "http1", "mcp"}
    REPLAY_WINDOW = 1
    MAX_DELIVERY_ATTEMPTS = 2
    RESPONSE_QUEUE_CAPACITY = 1
    RESPONSE_CHANNEL_CAPACITY = 1
    REQUEST_BODY_CHANNEL_CAPACITY = 1
SPECIFICATION Spec
INVARIANTS ByteSynced
