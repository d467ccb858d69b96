CONSTANTS
    MaxInits = 3
    LogCapacity = 2
SPECIFICATION ProducerSpec
PROPERTIES CallsReturn ThreadsEnd
CHECK_DEADLOCK FALSE
