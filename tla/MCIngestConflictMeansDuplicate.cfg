CONSTANTS
    Request = {r1, r2}
    Raw <- MCRaw
    Blob <- MCBlob
    Address <- MCAddress
    Attachments <- MCAttachments
    Recipients <- MCRecipients
    Malformed <- MCMalformed
    Oversize <- MCOversize
    Overlong <- MCOverlong
    MaxMessageID = 3
    MaxFaults = 1
SYMMETRY Symmetry
SPECIFICATION Spec
PROPERTY ConflictMeansDuplicate
