CONSTANTS
    Request = {r1, r2}
    Raw <- MCRaw
    Blob <- MCBlob
    Address <- MCAddress
    Attachments <- MCAttachments
    Recipients <- MCRecipients
    Malformed <- MCMalformed
    Oversize <- MCOversize
    Overlong <- MCOverlong
    MaxMessageID = 2
    MaxFaults = 1
SPECIFICATION FairSpec
INVARIANTS
    TypeOK
    StoredOnce
    AckImpliesStored
    StoredWhole
    AttachmentsRetrievable
    RawWholeUnlessRewritten
PROPERTIES
    RowsAreFinal
    ContractSpec
    EveryRequestAnswered
